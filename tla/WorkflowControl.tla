-------------------------- MODULE WorkflowControl --------------------------
(***************************************************************************)
(* The control authority of one Goal: the rows of the SQLite store that    *)
(* every CodeClosure process shares, and the commands of the Workflow      *)
(* Runtime kernel that change them.                                        *)
(*                                                                         *)
(* A kernel command reads the authority, plans, and commits in one         *)
(* BEGIN IMMEDIATE transaction that re-checks Workflow.version.  A command *)
(* that reads nothing outside the store is one atomic action here: between *)
(* its read and its commit either the version is unchanged, and then so is *)
(* everything it read, or the commit is refused.  A command that observes  *)
(* the Candidate workspace, or runs a check, is split at each observation: *)
(* its process keeps the observed values in plan[p], other processes and   *)
(* the outside world move in between, and the commit re-checks the version.*)
(*                                                                         *)
(* Attempts and Candidate generations are numbered in the order in which   *)
(* they are made (their sequence fields), so the sets of numbers bound how *)
(* many of them one Goal may use.                                          *)
(***************************************************************************)
EXTENDS Naturals, FiniteSets

CONSTANTS
  Procs,        \* kernels: CLI processes that opened the same data home
  Attempts,     \* numbers of the Attempts
  Generations,  \* sequence numbers of the Candidate generations
  Digests,      \* contents a Candidate workspace can have
  Obligations,  \* Verification Obligations of a generation
  None,         \* an absent optional field
  LocalCommand, \* is the local-command verification profile selected?
  MaxVersion    \* the largest Workflow version (MAX_SAFE_INTEGER in the code)

ASSUME ConstantsAssumption ==
  /\ None \notin Procs \union Attempts \union Generations \union Digests \union Obligations
  /\ Attempts \subseteq Nat /\ Generations \subseteq Nat
  /\ Obligations # {}
  /\ LocalCommand \in BOOLEAN
  /\ MaxVersion \in Nat \ {0}

\* Generations are numbered from 1 without gaps: the child of a repair is the next one.
ASSUME GenerationsNumbered == \A g \in Generations : g # 0 /\ 1..g \subseteq Generations

Phases == {"DISCOVERY", "PLAN", "IMPLEMENT", "SOURCE_FREEZE", "EVIDENCE_BUILD",
           "FINAL_VERIFY", "CLOSEOUT"}
RunStatuses == {"READY", "RUNNING", "BLOCKED", "FAILED", "CANCELLED", "CLOSED"}
AttemptStatuses == {"NONE", "RUNNING", "RESULT_RECORDED", "FAILED", "INTERRUPTED"}
FailureClasses == {"TRANSIENT", "RECONCILE_FIRST", "NON_RETRYABLE"}
GenerationStates == {"NONE", "MUTABLE", "FREEZING", "FROZEN",
                     "INVALIDATED", "REJECTED", "ACCEPTED"}
TerminalStates == {"INVALIDATED", "REJECTED", "ACCEPTED"}
\* RUNNER_ERROR stands for TIMEOUT too: the acceptance rule treats them alike.
Results == {"PASS", "FAIL", "RUNNER_ERROR"}
Outcomes == {"ACCEPT", "REJECT_REPAIRABLE", "REJECT_BLOCKED", "ENGINE_ERROR"}

VARIABLES
  wf,          \* the Workflow row
  attempts,    \* the Attempt rows
  gens,        \* the Candidate generation rows
  checks,      \* generations with a local-command Check and its obligations
  evidence,    \* the immutable Evidence records
  eligible,    \* Attempts whose Evidence record is still ELIGIBLE
  sets,        \* the Evidence Set recorded for a generation, {} if none
  decisions,   \* the Acceptance Decisions with the manifest each one binds
  closeout,    \* the closeout record, or None
  repairs,     \* the Acceptance repair records
  reconciled,  \* resulting version of the latest Recovery reconciliation
  source,      \* what the workspace of each generation holds now
  session,     \* per process, generations whose verification lease it holds
  plan         \* per process, the observing command in progress

store == <<wf, attempts, gens, checks, evidence, eligible, sets, decisions,
           closeout, repairs, reconciled>>
vars == <<wf, attempts, gens, checks, evidence, eligible, sets, decisions,
          closeout, repairs, reconciled, source, session, plan>>
-----------------------------------------------------------------------------
(* The shapes of the rows *)

Workflow == [phase : Phases, status : RunStatuses, version : 1..MaxVersion,
             attempt : Attempts \union {None}, gen : Generations \union {None}]
Attempt == [status : AttemptStatuses, phase : Phases,
            failure : FailureClasses \union {None}, ended : 0..MaxVersion]
Generation == [state : GenerationStates, base : Digests \union {None},
               frozen : Digests \union {None}, parent : Generations \union {None}]
Evidence == [attempt : Attempts, gen : Generations,
             kind : {"CANDIDATE_FREEZE", "TEST_RESULT"},
             obligation : Obligations \union {None},
             digest : Digests, result : Results \union {"OBSERVED"}]
Decision == [version : 1..MaxVersion, gen : Generations, digest : Digests,
             refs : SUBSET Attempts, outcome : Outcomes]
Closeout == [version : 1..MaxVersion, decision : Decision]
Repair == [version : 1..MaxVersion, decision : Decision, child : Generations]

\* None is none of these records and classes, nor a truth value, either.
ASSUME NoneAssumption ==
  /\ None \notin FailureClasses \union Results \union {"PROTOCOL_ERROR"} \union Closeout
  /\ None \notin BOOLEAN

Commands == {"NONE", "FREEZE", "VERIFY", "EVIDENCE_SET", "EVALUATE", "CLOSE",
             "REPAIR", "RESUME"}
Plan == [cmd : Commands, version : 0..MaxVersion, gen : Generations \union {None},
         obligation : Obligations \union {None},
         first : Digests \union {None}, second : Digests \union {None},
         result : Results \union {"PROTOCOL_ERROR", None},
         decision : Decision \union {None}]
Idle == [cmd |-> "NONE", version |-> 0, gen |-> None, obligation |-> None,
         first |-> None, second |-> None, result |-> None, decision |-> None]

TypeOK ==
  /\ wf \in Workflow
  /\ attempts \in [Attempts -> Attempt]
  /\ gens \in [Generations -> Generation]
  /\ checks \subseteq Generations
  /\ evidence \subseteq Evidence
  /\ eligible \subseteq Attempts
  /\ sets \in [Generations -> SUBSET Attempts]
  /\ decisions \subseteq Decision
  /\ closeout \in Closeout \union {None}
  /\ repairs \subseteq Repair
  /\ reconciled \in 0..MaxVersion
  /\ source \in [Generations -> Digests \union {None}]
  /\ session \in [Procs -> SUBSET Generations]
  /\ plan \in [Procs -> Plan]

-----------------------------------------------------------------------------
(* What the commands read *)

\* Mutant: a cancelled Goal does not count as ended.
CancelledIsOpen == wf.status = "CLOSED"

IsTerminalWorkflow == wf.status \in {"CANCELLED", "CLOSED"}
\* Every command but StartGoal and CancelGoal needs the binding StartGoal makes.
Started == wf.version > 1
Ready(phase) == Started /\ wf.status = "READY" /\ wf.phase = phase
OwnedAttempt(phase) == wf.status = "RUNNING" /\ wf.phase = phase
\* Mutant: only the presence of an active generation is checked.
ActiveInAnyState(state) == wf.gen # None

ActiveState(state) == wf.gen # None /\ gens[wf.gen].state = state

EvidenceOf(g) == {e \in evidence : e.gen = g}
EligibleOf(g) == {e \in EvidenceOf(g) : e.attempt \in eligible}
TestEvidence(g) == {e \in EligibleOf(g) : e.kind = "TEST_RESULT"}
Covered(o) == \E e \in TestEvidence(wf.gen) : e.obligation = o
ObligationsAccounted == \A o \in Obligations : Covered(o)

\* The records of a recorded Evidence Set.
SetRecords(g) == {e \in evidence : e.attempt \in sets[g]}

\* A selected record lost its eligibility, or an obligation has no record.
Unaccounted(selected) ==
  \/ \E e \in selected : e.attempt \notin eligible
  \/ \E o \in Obligations : \A e \in selected : e.obligation # o

\* Mutant: a runner error is not told from a passing check.
ErrorsPass(g) ==
  LET selected == SetRecords(g) IN
  IF selected = {} \/ Unaccounted(selected)
  THEN "REJECT_BLOCKED"
  ELSE IF \E e \in selected : e.result = "FAIL" THEN "REJECT_REPAIRABLE"
  ELSE "ACCEPT"

(***************************************************************************)
(* The Acceptance Engine's verdict on the current Evidence Set.  The other *)
(* seven rules re-check bindings that the compilation of the manifest has  *)
(* already established, and nothing in the runtime writes a Pending Issue. *)
(***************************************************************************)
EvidenceRuleOutcome(g) ==
  LET selected == SetRecords(g) IN
  IF selected = {} \/ Unaccounted(selected)
  THEN "REJECT_BLOCKED"
  ELSE IF \E e \in selected : e.result = "RUNNER_ERROR" THEN "ENGINE_ERROR"
  ELSE IF \E e \in selected : e.result = "FAIL" THEN "REJECT_REPAIRABLE"
  ELSE "ACCEPT"

CurrentDecision ==
  [version |-> wf.version, gen |-> wf.gen, digest |-> gens[wf.gen].frozen,
   refs |-> sets[wf.gen], outcome |-> EvidenceRuleOutcome(wf.gen)]

\* Mutant: any decision about the active generation counts as current.
DecisionNamesGeneration(d) == d.gen = wf.gen

\* assertCurrentAcceptanceDecision: recompile the manifest and re-issue the
\* decision from the present authority; the consumed one must be the same.
DecisionCurrent(d) == d = CurrentDecision

\* Digest a Recovery inspection must find: the frozen identity if there is one.
ExpectedDigest(g) == IF gens[g].frozen # None THEN gens[g].frozen ELSE gens[g].base

\* Mutant: any failure counts as a recoverable blocker.
AnyFailureRecoverable ==
  /\ wf.status = "BLOCKED"
  /\ \/ reconciled = wf.version
     \/ \E a \in Attempts : attempts[a].status = "FAILED" /\ attempts[a].ended = wf.version

(* Has the blocked Workflow a current recoverable blocker? Either it is where *)
(* the latest reconciliation left it, or the latest reconcile-first failure   *)
(* is what blocked it.                                                        *)
RecoverableBlocker ==
  /\ wf.status = "BLOCKED"
  /\ \/ reconciled = wf.version
     \/ \E a \in Attempts : /\ attempts[a].status = "FAILED"
                            /\ attempts[a].failure = "RECONCILE_FIRST"
                            /\ attempts[a].ended = wf.version

\* A verification session does not survive its process.
ContinuityBarrier ==
  wf.phase = "EVIDENCE_BUILD" /\ wf.gen \in checks /\ ~ObligationsAccounted

InspectablePhase ==
  wf.phase \in {"DISCOVERY", "PLAN", "IMPLEMENT", "SOURCE_FREEZE", "EVIDENCE_BUILD"}

-----------------------------------------------------------------------------
(* What the transactions write *)

\* Mutant: the version is not kept a safe integer.
AdvanceUnbounded(next) == wf' = [next EXCEPT !.version = wf.version + 1]

\* One event advances the version exactly once; the version is a safe integer.
Advance(next) ==
  /\ wf.version < MaxVersion
  /\ wf' = [next EXCEPT !.version = wf.version + 1]

\* The optimistic check of the commit of process p.
VersionCurrent(p) == plan[p].version = wf.version

\* Mutant: the workflow does not release the Attempt it owned.
FinishWithoutRelease(status, failure, runStatus) ==
  /\ attempts' = [attempts EXCEPT ![wf.attempt] =
                    [@ EXCEPT !.status = status, !.failure = failure,
                              !.ended = wf.version + 1]]
  /\ Advance([wf EXCEPT !.status = runStatus])

FinishAttempt(status, failure, runStatus) ==
  /\ attempts' = [attempts EXCEPT ![wf.attempt] =
                    [@ EXCEPT !.status = status, !.failure = failure,
                              !.ended = wf.version + 1]]
  /\ Advance([wf EXCEPT !.status = runStatus, !.attempt = None])

\* Mutant: every failure merely blocks.
EveryFailureBlocks(failure) == "BLOCKED"

ResultingRunStatus(failure) ==
  IF failure = "NON_RETRYABLE" THEN "FAILED" ELSE "BLOCKED"

\* Mutant: the evidence of an invalidated generation stays eligible.
InvalidateGenerationOnly(g) ==
  /\ gens' = [gens EXCEPT ![g].state = "INVALIDATED"]
  /\ UNCHANGED eligible

Invalidate(g) ==
  /\ gens' = [gens EXCEPT ![g].state = "INVALIDATED"]
  /\ eligible' = eligible \ {e.attempt : e \in EvidenceOf(g)}

\* Mutant: a repair child starts over from the contents its parent started from.
PrepareFromParentBase(parent, base) ==
  [state |-> "MUTABLE", frozen |-> None, parent |-> parent,
   base |-> IF parent = None THEN base ELSE gens[parent].base]

PrepareGeneration(parent, base) ==
  [state |-> "MUTABLE", base |-> base, frozen |-> None, parent |-> parent]

\* A planned command: the authority it read and its first observation.
Planned(cmd, first) ==
  [Idle EXCEPT !.cmd = cmd, !.version = wf.version, !.gen = wf.gen, !.first = first]
Begin(p, planned) == plan[p] = Idle /\ plan' = [plan EXCEPT ![p] = planned]
Done(p) == plan' = [plan EXCEPT ![p] = Idle]

\* The lease is kept when the workspace refuses to take it back.
DropSession(p, g) == session' \in {session, [session EXCEPT ![p] = @ \ {g}]}

-----------------------------------------------------------------------------
(* Attempts *)

\* The next identity: all the smaller ones are in use.
FreshAttempt(a) == \A b \in Attempts : attempts[b].status = "NONE" <=> b >= a
FreshGeneration(g) == \A h \in Generations : gens[h].state = "NONE" <=> h >= g

Start(a) ==
  /\ attempts' = [attempts EXCEPT ![a] = [@ EXCEPT !.status = "RUNNING", !.phase = wf.phase]]
  /\ Advance([wf EXCEPT !.status = "RUNNING", !.attempt = a])

\* StartGoal binds goal, plan and policies and begins the DISCOVERY Attempt.
StartGoal(a) ==
  /\ ~Started /\ wf.status = "READY" /\ FreshAttempt(a)
  /\ Start(a)
  /\ UNCHANGED <<gens, checks, evidence, eligible, sets, decisions, closeout,
                 repairs, reconciled, source, session, plan>>

\* A verification Attempt needs the live session of the kernel that begins it.
VerificationAuthority(p) ==
  LocalCommand /\ wf.phase = "EVIDENCE_BUILD" =>
    ActiveState("FROZEN") /\ wf.gen \in checks /\ wf.gen \in session[p]

\* The context of a repair's child is compiled from authority that must still
\* be current: the version the repair left.  A later IMPLEMENT Attempt of that
\* child, after a failure or an interruption, is refused.
RepairContextCurrent ==
  wf.phase = "IMPLEMENT" => \A r \in repairs : r.child = wf.gen => r.version = wf.version

BeginAttempt(p, a) ==
  /\ Started /\ wf.status = "READY" /\ wf.phase # "CLOSEOUT" /\ FreshAttempt(a)
  /\ VerificationAuthority(p) /\ RepairContextCurrent
  /\ Start(a)
  /\ UNCHANGED <<gens, checks, evidence, eligible, sets, decisions, closeout,
                 repairs, reconciled, source, session, plan>>

\* The worker's terminal event, or the outcome of a check, ends the Attempt.
WorkerPhase == wf.phase \notin {"SOURCE_FREEZE", "EVIDENCE_BUILD"}

RecordAttemptResult ==
  /\ wf.status = "RUNNING" /\ WorkerPhase
  /\ FinishAttempt("RESULT_RECORDED", None, "READY")
  /\ UNCHANGED <<gens, checks, evidence, eligible, sets, decisions, closeout,
                 repairs, reconciled, source, session, plan>>

RecordAttemptFailure(failure) ==
  /\ wf.status = "RUNNING" /\ WorkerPhase
  /\ FinishAttempt("FAILED", failure, ResultingRunStatus(failure))
  /\ UNCHANGED <<gens, checks, evidence, eligible, sets, decisions, closeout,
                 repairs, reconciled, source, session, plan>>

InterruptAttempt(runStatus) ==
  /\ wf.status = "RUNNING"
  /\ FinishAttempt("INTERRUPTED", None, runStatus)
  /\ UNCHANGED <<gens, checks, evidence, eligible, sets, decisions, closeout,
                 repairs, reconciled, source, session, plan>>

(***************************************************************************)
(* Every process that opens the data home reconciles the RUNNING workflows *)
(* it finds, whether their Attempt is orphaned or another process is still *)
(* executing it: the code cannot tell, and nothing locks the data home.    *)
(***************************************************************************)
StartupRecovery ==
  /\ wf.status = "RUNNING"
  /\ FinishAttempt("INTERRUPTED", None, "BLOCKED")
  /\ reconciled' = wf.version + 1
  /\ UNCHANGED <<gens, checks, evidence, eligible, sets, decisions, closeout,
                 repairs, source, session, plan>>

CancelGoal ==
  /\ ~IsTerminalWorkflow
  /\ attempts' = IF wf.status = "RUNNING"
                 THEN [attempts EXCEPT ![wf.attempt] =
                         [@ EXCEPT !.status = "INTERRUPTED", !.ended = wf.version + 1]]
                 ELSE attempts
  /\ Advance([wf EXCEPT !.status = "CANCELLED", !.attempt = None])
  /\ UNCHANGED <<gens, checks, evidence, eligible, sets, decisions, closeout,
                 repairs, reconciled, source, session, plan>>

-----------------------------------------------------------------------------
(* Phase transitions that observe nothing *)

\* Mutant: a transition keeps the version.
EnterPhaseInPlace(phase) == wf' = [wf EXCEPT !.phase = phase]

EnterPhase(phase) == Advance([wf EXCEPT !.phase = phase])

BeginPlanning ==
  /\ Ready("DISCOVERY")
  /\ EnterPhase("PLAN")
  /\ UNCHANGED <<attempts, gens, checks, evidence, eligible, sets, decisions,
                 closeout, repairs, reconciled, source, session, plan>>

\* PLAN -> IMPLEMENT: create the generation, its workspace materialised from d.
PrepareCandidate(g, d) ==
  /\ Ready("PLAN") /\ FreshGeneration(g)
  /\ gens' = [gens EXCEPT ![g] = PrepareGeneration(wf.gen, d)]
  /\ source' = [source EXCEPT ![g] = d]
  /\ Advance([wf EXCEPT !.phase = "IMPLEMENT", !.gen = g])
  /\ UNCHANGED <<attempts, checks, evidence, eligible, sets, decisions, closeout,
                 repairs, reconciled, session, plan>>

BeginCandidateFreeze ==
  /\ Ready("IMPLEMENT") /\ ActiveState("MUTABLE")
  /\ gens' = [gens EXCEPT ![wf.gen].state = "FREEZING"]
  /\ EnterPhase("SOURCE_FREEZE")
  /\ UNCHANGED <<attempts, checks, evidence, eligible, sets, decisions, closeout,
                 repairs, reconciled, source, session, plan>>

\* SOURCE_FREEZE -> EVIDENCE_BUILD on the strength of the freeze evidence.
FreezeEvidenced ==
  \E e \in EligibleOf(wf.gen) :
    e.kind = "CANDIDATE_FREEZE" /\ e.digest = gens[wf.gen].frozen

BeginEvidenceBuild ==
  /\ Ready("SOURCE_FREEZE") /\ ActiveState("FROZEN") /\ FreezeEvidenced
  /\ EnterPhase("EVIDENCE_BUILD")
  /\ UNCHANGED <<attempts, gens, checks, evidence, eligible, sets, decisions,
                 closeout, repairs, reconciled, source, session, plan>>

-----------------------------------------------------------------------------
(* Commands that observe the Candidate workspace *)

\* Beginning one changes only the memory of its process.
Observed == UNCHANGED <<store, source, session>>

\* The port reads the workspace twice; the two readings are not one instant.
BeginFreeze(p) ==
  /\ OwnedAttempt("SOURCE_FREEZE") /\ ActiveState("FREEZING")
  /\ Begin(p, Planned("FREEZE", source[wf.gen]))
  /\ Observed

SecondReading(p) ==
  /\ plan[p].cmd = "FREEZE" /\ plan[p].result = None
  /\ \E second \in {source[plan[p].gen], None} :  \* None: the observation failed
       plan' = [plan EXCEPT ![p] = [@ EXCEPT !.second = second, !.result = "PASS"]]
  /\ Observed

Unstable(p) == plan[p].first # plan[p].second

RecordEvidence(kind, obligation, digest, result) ==
  /\ evidence' = evidence \union
       {[attempt |-> wf.attempt, gen |-> wf.gen, kind |-> kind,
         obligation |-> obligation, digest |-> digest, result |-> result]}
  /\ eligible' = eligible \union {wf.attempt}

CompleteSourceFreeze(p) ==
  /\ plan[p].cmd = "FREEZE" /\ plan[p].result # None /\ VersionCurrent(p)
  /\ OwnedAttempt("SOURCE_FREEZE") /\ ActiveState("FREEZING")
  /\ IF Unstable(p)
     THEN /\ Invalidate(wf.gen)
          /\ FinishAttempt("FAILED", "NON_RETRYABLE", ResultingRunStatus("NON_RETRYABLE"))
          /\ UNCHANGED evidence
     ELSE /\ gens' = [gens EXCEPT ![wf.gen] = [@ EXCEPT !.state = "FROZEN",
                                                       !.frozen = plan[p].second]]
          /\ RecordEvidence("CANDIDATE_FREEZE", None, plan[p].second, "OBSERVED")
          /\ FinishAttempt("RESULT_RECORDED", None, "READY")
  /\ Done(p)
  /\ UNCHANGED <<checks, sets, decisions, closeout, repairs, reconciled, source,
                 session>>

\* Materialise the frozen generation read-only and keep the lease in memory.
ConfigureLocalVerification(p) ==
  /\ LocalCommand /\ Ready("EVIDENCE_BUILD") /\ ActiveState("FROZEN")
  /\ wf.gen \notin checks
  /\ checks' = checks \union {wf.gen}
  /\ session' = [session EXCEPT ![p] = @ \union {wf.gen}]
  /\ UNCHANGED <<wf, attempts, gens, evidence, eligible, sets, decisions, closeout,
                 repairs, reconciled, source, plan>>

BeginVerification(p, o) ==
  /\ LocalCommand /\ OwnedAttempt("EVIDENCE_BUILD") /\ ActiveState("FROZEN")
  /\ wf.gen \in session[p] /\ wf.gen \in checks
  /\ Begin(p, [Planned("VERIFY", source[wf.gen]) EXCEPT !.obligation = o])
  /\ Observed

\* The runner executes, then the workspace is read again.
RunCheck(p) ==
  /\ plan[p].cmd = "VERIFY" /\ plan[p].result = None
  /\ plan[p].first = gens[plan[p].gen].frozen
  /\ \E second \in {source[plan[p].gen], None} :
     \E result \in Results \union {"PROTOCOL_ERROR"} :
       plan' = [plan EXCEPT ![p] = [@ EXCEPT !.second = second, !.result = result]]
  /\ Observed

\* Either reading of the workspace differs from the frozen identity.
CheckedSourceDrifted(p) ==
  LET frozen == gens[plan[p].gen].frozen IN
  plan[p].first # frozen \/ plan[p].second \notin {None, frozen}

CompleteLocalVerification(p) ==
  /\ plan[p].cmd = "VERIFY" /\ (CheckedSourceDrifted(p) \/ plan[p].result # None)
  /\ VersionCurrent(p) /\ wf.gen = plan[p].gen
  /\ OwnedAttempt("EVIDENCE_BUILD") /\ ActiveState("FROZEN")
  /\ \/ /\ CheckedSourceDrifted(p)
        /\ Invalidate(wf.gen)
        /\ FinishAttempt("FAILED", "NON_RETRYABLE", ResultingRunStatus("NON_RETRYABLE"))
        /\ DropSession(p, wf.gen)
        /\ UNCHANGED evidence
     \/ /\ ~CheckedSourceDrifted(p)
        /\ plan[p].result = "PROTOCOL_ERROR" \/ plan[p].second = None
        /\ FinishAttempt("FAILED", "NON_RETRYABLE", ResultingRunStatus("NON_RETRYABLE"))
        /\ DropSession(p, wf.gen)
        /\ UNCHANGED <<gens, evidence, eligible>>
     \/ /\ ~CheckedSourceDrifted(p)
        /\ plan[p].result # "PROTOCOL_ERROR" /\ plan[p].second # None
        /\ RecordEvidence("TEST_RESULT", plan[p].obligation, plan[p].second, plan[p].result)
        /\ FinishAttempt("RESULT_RECORDED", None, "READY")
        /\ IF ObligationsAccounted' THEN DropSession(p, wf.gen) ELSE UNCHANGED session
        /\ UNCHANGED gens
  /\ Done(p)
  /\ UNCHANGED <<checks, sets, decisions, closeout, repairs, reconciled, source>>

\* The bounded profile: a synchronous runner, and no reading of the workspace.
RunVerification(o, result) ==
  /\ ~LocalCommand /\ OwnedAttempt("EVIDENCE_BUILD") /\ ActiveState("FROZEN")
  /\ IF result = "PROTOCOL_ERROR"
     THEN /\ FinishAttempt("FAILED", "NON_RETRYABLE", ResultingRunStatus("NON_RETRYABLE"))
          /\ UNCHANGED <<evidence, eligible>>
     ELSE /\ RecordEvidence("TEST_RESULT", o, gens[wf.gen].frozen, result)
          /\ FinishAttempt("RESULT_RECORDED", None, "READY")
  /\ UNCHANGED <<gens, checks, sets, decisions, closeout, repairs, reconciled,
                 source, session, plan>>

-----------------------------------------------------------------------------
(* Acceptance: four commands that first observe the frozen Candidate *)

Accountable ==
  ObligationsAccounted /\ (LocalCommand => wf.gen \in checks)

\* The phase in which each of them runs.
ObservingPhase == [EVIDENCE_SET |-> "EVIDENCE_BUILD", EVALUATE |-> "FINAL_VERIFY",
                   CLOSE |-> "FINAL_VERIFY", REPAIR |-> "FINAL_VERIFY"]
\* The outcome of the decision that the last two consume.
Consumes == [CLOSE |-> "ACCEPT", REPAIR |-> "REJECT_REPAIRABLE"]
Consumable(cmd, d) == d \in decisions /\ d.outcome = Consumes[cmd] /\ DecisionCurrent(d)

BeginObservation(p, cmd) ==
  /\ Ready(ObservingPhase[cmd]) /\ ActiveState("FROZEN")
  /\ Begin(p, Planned(cmd, source[wf.gen]))
  /\ Observed

BeginConsumption(p, cmd, d) ==
  /\ Ready(ObservingPhase[cmd]) /\ ActiveState("FROZEN") /\ Consumable(cmd, d)
  /\ Begin(p, [Planned(cmd, source[wf.gen]) EXCEPT !.decision = d])
  /\ Observed

SourceDrifted(p) == plan[p].first # gens[wf.gen].frozen

\* What the transaction of each of them checks again.
Committable(p, cmd) ==
  /\ plan[p].cmd = cmd /\ VersionCurrent(p)
  /\ Ready(ObservingPhase[cmd])
  /\ wf.gen = plan[p].gen /\ ActiveState("FROZEN")

\* Any of them that finds another source fails the workflow instead.
CommitIntegrityFailure(p) ==
  /\ \E cmd \in DOMAIN ObservingPhase : Committable(p, cmd)
  /\ SourceDrifted(p)
  /\ Invalidate(wf.gen)
  /\ Advance([wf EXCEPT !.status = "FAILED"])
  /\ Done(p)
  /\ UNCHANGED <<attempts, checks, evidence, sets, decisions, closeout, repairs,
                 reconciled, source, session>>

Commit(p, cmd) == Committable(p, cmd) /\ ~SourceDrifted(p)

CommitEvidenceSet(p) ==
  /\ Commit(p, "EVIDENCE_SET") /\ Accountable
  /\ sets' = [sets EXCEPT ![wf.gen] = {e.attempt : e \in TestEvidence(wf.gen)}]
  /\ EnterPhase("FINAL_VERIFY")
  /\ Done(p)
  /\ UNCHANGED <<attempts, gens, checks, evidence, eligible, decisions, closeout,
                 repairs, reconciled, source, session>>

\* Evaluating adds a decision and leaves the workflow as it is.
EvaluateAcceptance(p) ==
  /\ Commit(p, "EVALUATE")
  /\ decisions' = decisions \union {CurrentDecision}
  /\ Done(p)
  /\ UNCHANGED <<wf, attempts, gens, checks, evidence, eligible, sets, closeout,
                 repairs, reconciled, source, session>>

CloseAcceptedGoal(p) ==
  /\ Commit(p, "CLOSE") /\ Consumable("CLOSE", plan[p].decision)
  /\ gens' = [gens EXCEPT ![wf.gen].state = "ACCEPTED"]
  /\ closeout' = [version |-> wf.version + 1, decision |-> plan[p].decision]
  /\ Advance([wf EXCEPT !.phase = "CLOSEOUT", !.status = "CLOSED"])
  /\ Done(p)
  /\ UNCHANGED <<attempts, checks, evidence, eligible, sets, decisions, repairs,
                 reconciled, source, session>>

\* FINAL_VERIFY -> IMPLEMENT: a child generation made from the rejected one.
BeginAcceptanceRepair(p, g) ==
  /\ Commit(p, "REPAIR") /\ Consumable("REPAIR", plan[p].decision)
  /\ FreshGeneration(g)
  /\ gens' = [gens EXCEPT ![wf.gen].state = "REJECTED",
                          ![g] = PrepareGeneration(wf.gen, plan[p].first)]
  /\ source' = [source EXCEPT ![g] = plan[p].first]
  /\ repairs' = repairs \union {[version |-> wf.version + 1,
                                 decision |-> plan[p].decision, child |-> g]}
  /\ Advance([wf EXCEPT !.phase = "IMPLEMENT", !.gen = g])
  /\ Done(p)
  /\ UNCHANGED <<attempts, checks, evidence, eligible, sets, decisions, closeout,
                 reconciled, session>>

-----------------------------------------------------------------------------
(* Recovery of a blocked workflow, and the environment *)

\* The inspection observes the workspace; "FAIL" stands for anything else it
\* may find wrong: an inspector error, another project, an unsafe process.
BeginResume(p) ==
  /\ RecoverableBlocker
  /\ \E found \in {"PASS", "FAIL"} :
       Begin(p, [Planned("RESUME", IF wf.gen = None THEN None ELSE source[wf.gen])
                   EXCEPT !.result = found])
  /\ Observed

SafeSamePhase(p) ==
  /\ plan[p].result = "PASS" /\ InspectablePhase
  /\ wf.gen # None => plan[p].first = ExpectedDigest(wf.gen)
  /\ ~ContinuityBarrier

ResumeGoal(p) ==
  /\ plan[p].cmd = "RESUME" /\ VersionCurrent(p) /\ RecoverableBlocker
  /\ Advance([wf EXCEPT !.status = IF SafeSamePhase(p) THEN "READY" ELSE "BLOCKED"])
  /\ reconciled' = wf.version + 1
  /\ Done(p)
  /\ UNCHANGED <<attempts, gens, checks, evidence, eligible, sets, decisions,
                 closeout, repairs, source, session>>

\* A version conflict, a failed observation or a failed store call: no effect.
AbandonCommand(p) ==
  /\ plan[p] # Idle
  /\ Done(p)
  /\ UNCHANGED <<store, source, session>>

Crash(p) ==
  /\ plan[p] # Idle \/ session[p] # {}
  /\ Done(p)
  /\ session' = [session EXCEPT ![p] = {}]
  /\ UNCHANGED <<store, source>>

\* The worker, or anything else, writes the active generation's workspace.
SourceChange(d) ==
  /\ wf.gen # None /\ source[wf.gen] # d
  /\ source' = [source EXCEPT ![wf.gen] = d]
  /\ UNCHANGED <<store, session, plan>>
-----------------------------------------------------------------------------
Init ==
  /\ wf = [phase |-> "DISCOVERY", status |-> "READY", version |-> 1,
           attempt |-> None, gen |-> None]
  /\ attempts = [a \in Attempts |-> [status |-> "NONE", phase |-> "DISCOVERY",
                                     failure |-> None, ended |-> 0]]
  /\ gens = [g \in Generations |-> [state |-> "NONE", base |-> None,
                                    frozen |-> None, parent |-> None]]
  /\ checks = {} /\ evidence = {} /\ eligible = {}
  /\ sets = [g \in Generations |-> {}]
  /\ decisions = {} /\ closeout = None /\ repairs = {} /\ reconciled = 0
  /\ source = [g \in Generations |-> None]
  /\ session = [p \in Procs |-> {}]
  /\ plan = [p \in Procs |-> Idle]

Next ==
  \/ \E a \in Attempts : StartGoal(a) \/ \E p \in Procs : BeginAttempt(p, a)
  \/ RecordAttemptResult
  \/ \E failure \in FailureClasses : RecordAttemptFailure(failure)
  \/ \E runStatus \in {"READY", "BLOCKED"} : InterruptAttempt(runStatus)
  \/ StartupRecovery
  \/ CancelGoal
  \/ BeginPlanning
  \/ \E g \in Generations, d \in Digests : PrepareCandidate(g, d)
  \/ BeginCandidateFreeze
  \/ BeginEvidenceBuild
  \/ \E o \in Obligations, result \in Results \union {"PROTOCOL_ERROR"} :
       RunVerification(o, result)
  \/ \E p \in Procs :
       \/ BeginFreeze(p) \/ SecondReading(p) \/ CompleteSourceFreeze(p)
       \/ ConfigureLocalVerification(p)
       \/ \E o \in Obligations : BeginVerification(p, o)
       \/ RunCheck(p) \/ CompleteLocalVerification(p)
       \/ \E cmd \in {"EVIDENCE_SET", "EVALUATE"} : BeginObservation(p, cmd)
       \/ CommitEvidenceSet(p) \/ EvaluateAcceptance(p)
       \/ \E cmd \in {"CLOSE", "REPAIR"}, d \in decisions : BeginConsumption(p, cmd, d)
       \/ CommitIntegrityFailure(p)
       \/ CloseAcceptedGoal(p)
       \/ \E g \in Generations : BeginAcceptanceRepair(p, g)
       \/ BeginResume(p) \/ ResumeGoal(p)
       \/ AbandonCommand(p) \/ Crash(p)
  \/ \E d \in Digests : SourceChange(d)

Spec == Init /\ [][Next]_vars
-----------------------------------------------------------------------------
(* Safety *)

(* The Workflow row and the Attempt rows are one authority: the workflow is   *)
(* RUNNING exactly while it owns an Attempt, that Attempt is the only one     *)
(* running and belongs to the current phase, and CLOSEOUT is the closed state.*)
(* Every terminal event, recovery and cancellation writes both rows.          *)
AuthorityCoherent ==
  /\ wf.status = "RUNNING" <=> wf.attempt # None
  /\ \A a \in Attempts : attempts[a].status = "RUNNING" <=> a = wf.attempt
  /\ wf.attempt # None => attempts[wf.attempt].phase = wf.phase
  /\ wf.phase = "CLOSEOUT" <=> wf.status = "CLOSED"

PhaseStates ==
  [IMPLEMENT |-> {"MUTABLE"}, SOURCE_FREEZE |-> {"FREEZING", "FROZEN", "INVALIDATED"},
   EVIDENCE_BUILD |-> {"FROZEN", "INVALIDATED"},
   FINAL_VERIFY |-> {"FROZEN", "INVALIDATED"}, CLOSEOUT |-> {"ACCEPTED"}]

(* The phase and the active generation agree whatever interrupts, conflicts   *)
(* and recoveries came between; an invalidated generation has stopped the     *)
(* workflow for good; no second generation is alive beside the active one.    *)
CandidateLineage ==
  /\ wf.gen = None <=> wf.phase \in {"DISCOVERY", "PLAN"}
  /\ wf.gen # None => gens[wf.gen].state \in PhaseStates[wf.phase]
  /\ ActiveState("INVALIDATED") => wf.status \in {"FAILED", "CANCELLED"}
  /\ \A g \in Generations \ {wf.gen} : gens[g].state \in {"NONE", "REJECTED"}

(* Eligible evidence is evidence of something: its generation is frozen with  *)
(* the digest it binds and was never invalidated, and the one Attempt that    *)
(* produced it completed in the phase that produces such evidence.            *)
EvidenceBindsFrozen ==
  \A e \in evidence :
    /\ attempts[e.attempt].status = "RESULT_RECORDED"
    /\ attempts[e.attempt].phase = (IF e.kind = "TEST_RESULT" THEN "EVIDENCE_BUILD"
                                                             ELSE "SOURCE_FREEZE")
    /\ \A f \in evidence : f.attempt = e.attempt => f = e
    /\ e.attempt \in eligible =>
         /\ gens[e.gen].state \in {"FROZEN", "REJECTED", "ACCEPTED"}
         /\ gens[e.gen].frozen = e.digest

(* I-003: a closed Goal was closed by consuming the ACCEPT decision made at   *)
(* the very version it closed from, for the identity of the accepted          *)
(* generation, over still eligible, passing evidence of that identity that    *)
(* accounts for every obligation.                                             *)
CloseoutSound ==
  /\ wf.status = "CLOSED" <=> closeout # None
  /\ closeout # None =>
       LET d == closeout.decision
           used == {e \in evidence : e.attempt \in d.refs} IN
       /\ d \in decisions /\ d.outcome = "ACCEPT"
       /\ wf.version = closeout.version /\ closeout.version = d.version + 1
       /\ wf.gen = d.gen /\ gens[d.gen].state = "ACCEPTED"
       /\ gens[d.gen].frozen = d.digest
       /\ \A e \in used : /\ e.attempt \in eligible /\ e.gen = d.gen
                          /\ e.digest = d.digest /\ e.result = "PASS"
       /\ \A o \in Obligations : \E e \in used : e.obligation = o

(* docs/workflow.md, "Failure, Retry": after a transient failure the workflow *)
(* is only BLOCKED or CANCELLED and no later Attempt exists; a non-retryable  *)
(* one leaves it FAILED; a reconcile-first one is continued only after a      *)
(* reconciliation of a later version.                                         *)
RetryBoundary ==
  \A a \in Attempts :
    /\ attempts[a].failure = "TRANSIENT" =>
         /\ wf.status \in {"BLOCKED", "CANCELLED"}
         /\ \A b \in Attempts : b > a => attempts[b].status = "NONE"
    /\ attempts[a].failure = "NON_RETRYABLE" => wf.status \in {"FAILED", "CANCELLED"}
    /\ attempts[a].failure = "RECONCILE_FIRST" =>
         wf.status \in {"BLOCKED", "CANCELLED"} \/ reconciled > attempts[a].ended

-----------------------------------------------------------------------------
(* What a step may never do *)

(* Integrity verdicts are final: an ineligible record never becomes eligible, *)
(* a frozen identity never changes (no generation is thawed), and a generation*)
(* in a terminal state keeps it, however late a stale command commits.        *)
IntegrityIsFinal ==
  [][/\ \A e \in evidence : e \in evidence' /\ (e.attempt \in eligible' => e.attempt \in eligible)
     /\ \A g \in Generations :
          /\ gens[g].frozen # None => /\ gens'[g].frozen = gens[g].frozen
                                      /\ gens'[g].state \in TerminalStates \union {"FROZEN"}
          /\ gens[g].state \in TerminalStates => gens'[g].state = gens[g].state]_vars

(* The optimistic check is sufficient: a step that changes what another       *)
(* command may have read advances the version by exactly one.  Only appending *)
(* a decision or configuring a Check does not, and both leave the rest alone. *)
OneVersionPerChange ==
  [][<<wf, attempts, gens, evidence, eligible, sets, closeout, repairs, reconciled>>'
       # <<wf, attempts, gens, evidence, eligible, sets, closeout, repairs, reconciled>>
     => wf'.version = wf.version + 1]_vars

(* A closed or cancelled Goal never changes again: a command planned before   *)
(* the end commits nothing after it.                                          *)
TerminalIsFinal == [][wf.status \in {"CANCELLED", "CLOSED"} => UNCHANGED store]_vars

-----------------------------------------------------------------------------
\* The rows of the kernel are the rows of the store.
Store == INSTANCE ControlStore

(* Every step of a kernel that changes a row is a transaction the store       *)
(* admits: the code of the transaction accepts what the command asks, and no  *)
(* trigger or unique index refuses a row it writes, in the order it writes    *)
(* them.                                                                      *)
AdmittedByStore == Store!Spec
=============================================================================
