------------------------ MODULE ProtectedVerification ------------------------
(***************************************************************************)
(* Verification on protected assets: test files and expected outputs that  *)
(* live outside the worker's tree.  The first Start locks one plan that    *)
(* names their contents; each frozen Candidate gets one Check with a lease *)
(* on exactly those contents; the lease is good for one invocation, before *)
(* and after which the files and the tree are read again; Acceptance reads *)
(* them once more.  The session with the lease is memory of one process,   *)
(* the rest are rows.  A data home may be opened by processes with and     *)
(* without the protected composition.                                      *)
(*                                                                         *)
(* The phases before EVIDENCE_BUILD appear in outline, as WORK, and a      *)
(* command of Acceptance is one step: WorkflowControl has both in full.    *)
(***************************************************************************)
EXTENDS Naturals, FiniteSets

CONSTANTS
  Procs,           \* kernels over one data home
  Protected,       \* those composed with protected assets
  Calls,           \* invocations of a verification in progress
  Criteria,        \* the required success criteria
  Contents,        \* what the protected files may hold
  Digests,         \* what a Candidate's tree may hold
  Oracle,          \* whether a check on these files passes that tree
  None,
  MaxGenerations,
  MaxVersion,      \* bound on the Workflow's version
  MaxDisturbances  \* bound on crashes, interruptions, startups, changes of files
                   \* and worker Attempts after the first

Generations == 1..MaxGenerations

ASSUME ProtectedAssumption ==
  /\ Protected \subseteq Procs
  /\ Criteria # {}
  /\ Oracle \in [Contents -> [Digests -> {"PASS", "FAIL"}]]
  /\ MaxGenerations \in Nat \ {0} /\ MaxVersion \in Nat \ {0} /\ MaxDisturbances \in Nat
  /\ None \notin Digests \union Generations
  /\ None \notin {"PASS", "FAIL", "RUNNER_ERROR", "INVOCATION_FAILED"}
  /\ None \notin {"CANDIDATE_SOURCE_DRIFT", "PROTOCOL_ERROR"}

VARIABLES
  wf,          \* the Workflow row
  gens,        \* the Candidate generations
  plan,        \* the plan locked at Start, or None
  contexts,    \* the manifests of the worker's contexts
  checks,      \* of each generation: its Check, or None
  evidence,    \* the verification results
  sets,        \* of each generation: the Evidence Set
  decisions,   \* the Acceptance decisions
  assets,      \* what the protected files hold now
  source,      \* what the tree of each generation holds now
  session,     \* per process, generations whose lease it holds
  calls,       \* the invocations in progress, or None
  launches,    \* per generation, how often a runner has executed the check
  disturbances

rows == <<wf, gens, plan, contexts, checks, evidence, sets, decisions>>
files == <<assets, source>>
vars == <<rows, files, session, calls, launches, disturbances>>
-----------------------------------------------------------------------------
(* The rows *)

Statuses == {"READY", "RUNNING", "BLOCKED", "FAILED", "CANCELLED", "CLOSED"}
Workflow == [phase : {"WORK", "EVIDENCE_BUILD", "FINAL_VERIFY", "CLOSEOUT"},
             status : Statuses, version : 1..MaxVersion, gen : Generations,
             reconciled : 0..MaxVersion]
Generation == [state : {"NONE", "MUTABLE", "FROZEN", "INVALIDATED", "REJECTED", "ACCEPTED"},
               frozen : Digests \union {None}]

\* The plan binds the contents, the criteria and the version of the first Start.
Plan == [assets : Contents, criteria : (SUBSET Criteria) \ {{}}, version : 1..MaxVersion]

\* The lease binds Candidate, plan and contents, not the Attempt nor the version.
Lease == [gen : Generations, digest : Digests, plan : Plan]

Context == [version : 1..MaxVersion, plan : Plan \union {None}]
Check == [gen : Generations, digest : Digests, lease : Lease \union {None}]
Results == {"PASS", "FAIL", "RUNNER_ERROR"}
Evidence == [criterion : Criteria, check : Check, result : Results, restored : BOOLEAN]
Decision == [version : 1..MaxVersion, gen : Generations, plan : Plan \union {None},
             outcome : {"ACCEPT", "REJECT_REPAIRABLE", "ENGINE_ERROR"}]

Steps == {"OBSERVE", "ASSERT", "LAUNCH", "CHECK", "RECHECK", "REASSERT", "REOBSERVE",
          "FINAL", "COMMIT"}
Failures == {"CANDIDATE_SOURCE_DRIFT", "PROTOCOL_ERROR"}
Call == [proc : Procs, check : Check, criterion : Criteria, version : 1..MaxVersion,
         step : Steps, failure : Failures \union {None},
         result : Results \union {"INVOCATION_FAILED", None},
         sawAssets : SUBSET Contents, sawSource : SUBSET Digests, restored : BOOLEAN]

ASSUME NoneIsNoRow == None \notin Plan /\ None \notin Lease /\ None \notin Check /\ None \notin Call

TypeOK ==
  /\ wf \in Workflow
  /\ gens \in [Generations -> Generation]
  /\ plan \in Plan \union {None}
  /\ contexts \subseteq Context
  /\ checks \in [Generations -> Check \union {None}]
  /\ evidence \subseteq Evidence
  /\ sets \in [Generations -> SUBSET Evidence]
  /\ decisions \subseteq Decision
  /\ assets \in Contents /\ source \in [Generations -> Digests \union {None}]
  /\ session \in [Procs -> SUBSET Generations]
  /\ calls \in [Calls -> Call \union {None}]
  /\ launches \in [Generations -> Nat]
  /\ disturbances \in 0..MaxDisturbances

-----------------------------------------------------------------------------
(* What the commands read *)

Started == wf.version > 1
Ready(phase) == Started /\ wf.status = "READY" /\ wf.phase = phase
Frozen == gens[wf.gen].state = "FROZEN"
SourceCurrent(g) == source[g] = gens[g].frozen

\* Mutant: the lease is decoded and its digest recomputed, the files are not read.
DecodedOnly == TRUE

\* assertLeaseCurrent: every file is read again and must be what the plan names.
AssetsCurrent == assets = plan.assets

\* Derived from the plan and the frozen generation, the same for every reader.
ReadLease(g) == [gen |-> g, digest |-> gens[g].frozen, plan |-> plan]

\* What a Check with such a lease, or a plain one, looks like.
CheckOf(g) == [gen |-> g, digest |-> gens[g].frozen,
               lease |-> IF plan = None THEN None ELSE ReadLease(g)]

\* The proposal of the composition must cover the required criteria exactly.
ProposalCovers(proposed) == proposed = Criteria

\* Configuring needs the plan and the composition, or neither.
CompositionComplete(p) == (p \in Protected) = (plan # None)

EvidenceOf(g) == {e \in evidence : e.check.gen = g}
Covered(k) == \E e \in EvidenceOf(wf.gen) : e.criterion = k
CriteriaCovered == \A k \in Criteria : Covered(k)

-----------------------------------------------------------------------------
(* What the transactions write *)

Advance(next) ==
  wf.version < MaxVersion /\ wf' = [next EXCEPT !.version = wf.version + 1]
SetStatus(status) == Advance([wf EXCEPT !.status = status])
Invalidate(g) == gens' = [gens EXCEPT ![g].state = "INVALIDATED"]
Disturb == disturbances < MaxDisturbances /\ disturbances' = disturbances + 1
CompileContext(locked) ==
  contexts' = contexts \union {[version |-> wf'.version, plan |-> locked]}

\* The transaction of the first Attempt inserts the plan with its audit event;
\* what the proposal says of the files was read when the kernel was composed.
LockPlan(p, proposed, inspected) ==
  IF p \in Protected
  THEN /\ ProposalCovers(proposed)
       /\ plan' = [assets |-> inspected, criteria |-> proposed, version |-> wf'.version]
  ELSE UNCHANGED plan

Start(p, proposed, inspected) ==
  /\ ~Started /\ wf.status = "READY"
  /\ SetStatus("RUNNING")
  /\ LockPlan(p, proposed, inspected)
  /\ CompileContext(plan')
  /\ UNCHANGED <<gens, checks, evidence, sets, decisions, files, session, calls,
                 launches, disturbances>>

\* A later worker Attempt is given the plan of the store.
BeginWork ==
  /\ Ready("WORK") /\ Disturb
  /\ SetStatus("RUNNING") /\ CompileContext(plan)
  /\ UNCHANGED <<gens, plan, checks, evidence, sets, decisions, files, session, calls,
                 launches>>

\* The worker runs if the dispatch is claimed: a protected kernel refuses to
\* dispatch a Workflow that was started without a plan.
DispatchClaims(p) == plan = None => p \notin Protected

Work(p) ==
  /\ wf.status = "RUNNING" /\ wf.phase = "WORK" /\ DispatchClaims(p)
  /\ SetStatus("READY")
  /\ UNCHANGED <<gens, plan, contexts, checks, evidence, sets, decisions, files,
                 session, calls, launches, disturbances>>

Freeze(d) ==
  /\ Ready("WORK") /\ gens[wf.gen].state = "MUTABLE"
  /\ gens' = [gens EXCEPT ![wf.gen] = [state |-> "FROZEN", frozen |-> d]]
  /\ source' = [source EXCEPT ![wf.gen] = d]
  /\ Advance([wf EXCEPT !.phase = "EVIDENCE_BUILD"])
  /\ UNCHANGED <<plan, contexts, checks, evidence, sets, decisions, assets, session,
                 calls, launches, disturbances>>

-----------------------------------------------------------------------------
(* Configuring the Check, and its Attempts *)

\* The store takes one local Check for a generation; the memory of the process
\* that had it stored holds the session.
StoreCheck(p) ==
  /\ checks[wf.gen] = None
  /\ checks' = [checks EXCEPT ![wf.gen] = CheckOf(wf.gen)]
  /\ session' = [session EXCEPT ![p] = @ \union {wf.gen}]

\* The files are read and a read-only workspace lease is issued.
LeaseIssued == SourceCurrent(wf.gen) /\ (plan # None => AssetsCurrent)

Configure(p) ==
  /\ Ready("EVIDENCE_BUILD") /\ Frozen
  /\ CompositionComplete(p) /\ LeaseIssued
  /\ StoreCheck(p)
  /\ UNCHANGED <<wf, gens, plan, contexts, evidence, sets, decisions, files, calls,
                 launches, disturbances>>

\* A verification Attempt, and every request in it, needs the live session.
SessionCurrent(p) ==
  /\ Frozen /\ wf.gen \in session[p]
  /\ SourceCurrent(wf.gen)
  /\ checks[wf.gen].lease # None => p \in Protected /\ plan # None /\ AssetsCurrent

BeginAttempt(p) ==
  /\ Ready("EVIDENCE_BUILD") /\ SessionCurrent(p)
  /\ SetStatus("RUNNING")
  /\ UNCHANGED <<gens, plan, contexts, checks, evidence, sets, decisions, files,
                 session, calls, launches, disturbances>>

-----------------------------------------------------------------------------
(* One invocation, from the request to its commit *)

OfPlan(c) == calls[c].check.lease # None
Gen(c) == calls[c].check.gen
At(c, step) == calls[c] # None /\ calls[c].step = step
Goto(c, step) == calls' = [calls EXCEPT ![c].step = step]
Fail(c, failure, step) ==
  calls' = [calls EXCEPT ![c] = [@ EXCEPT !.failure = failure, !.step = step]]
Executing == UNCHANGED <<rows, files, session, disturbances>>

\* Mutant: the session is released when the invocation has ended, as the plain
\* one is.
KeepSession(p) == UNCHANGED session

\* The session of a protected Check is gone before anything is awaited.
ConsumeSession(p) ==
  session' = IF checks[wf.gen].lease # None
             THEN [session EXCEPT ![p] = @ \ {wf.gen}] ELSE session

BeginRun(c, p, k) ==
  /\ calls[c] = None
  /\ wf.status = "RUNNING" /\ wf.phase = "EVIDENCE_BUILD" /\ SessionCurrent(p)
  /\ ConsumeSession(p)
  /\ calls' = [calls EXCEPT ![c] =
       [proc |-> p, check |-> checks[wf.gen], criterion |-> k, version |-> wf.version,
        step |-> "OBSERVE", failure |-> None, result |-> None,
        sawAssets |-> {}, sawSource |-> {}, restored |-> FALSE]]
  /\ UNCHANGED <<rows, files, launches, disturbances>>

\* The tree is read before and after; a reading may fail.
ReadSource(c, step, next) ==
  /\ At(c, step)
  /\ \/ SourceCurrent(Gen(c)) /\ next
     \/ ~SourceCurrent(Gen(c)) /\ Fail(c, "CANDIDATE_SOURCE_DRIFT", "FINAL")
     \/ Fail(c, "PROTOCOL_ERROR", "FINAL")

Observe(c) ==
  ReadSource(c, "OBSERVE", Goto(c, "ASSERT")) /\ Executing /\ UNCHANGED launches

\* The files of a protected Check are read around the runner as well.
ReadAssets(c, step, next) ==
  /\ At(c, step)
  /\ IF OfPlan(c) /\ ~AssetsCurrent THEN Fail(c, "PROTOCOL_ERROR", "FINAL")
     ELSE Goto(c, next)

AssertAssets(c) == ReadAssets(c, "ASSERT", "LAUNCH") /\ Executing /\ UNCHANGED launches
ReassertAssets(c) ==
  ReadAssets(c, "REASSERT", "REOBSERVE") /\ Executing /\ UNCHANGED launches

\* The runner reads both itself: a plain workspace lease may be released by now.
LeasesCurrent(c) ==
  /\ SourceCurrent(Gen(c))
  /\ IF OfPlan(c) THEN AssetsCurrent ELSE Gen(c) \in session[calls[c].proc]

NotInvoked(c) ==
  calls' = [calls EXCEPT ![c] = [@ EXCEPT !.result = "INVOCATION_FAILED",
                                          !.step = "REASSERT"]]

Launch(c) ==
  /\ At(c, "LAUNCH")
  /\ IF LeasesCurrent(c)
     THEN /\ calls' = [calls EXCEPT ![c] = [@ EXCEPT !.step = "CHECK",
                                  !.sawAssets = {assets}, !.sawSource = {source[Gen(c)]}]]
          /\ launches' = [launches EXCEPT ![Gen(c)] = @ + 1]
     ELSE NotInvoked(c) /\ UNCHANGED launches
  /\ Executing

\* What the check may have read while it ran decides; or it did not end well.
Verdicts(c) ==
  {Oracle[a][d] : a \in calls[c].sawAssets, d \in calls[c].sawSource} \union {"RUNNER_ERROR"}

EndCheck(c) ==
  /\ At(c, "CHECK")
  /\ \/ \E result \in Verdicts(c) :
          calls' = [calls EXCEPT ![c] = [@ EXCEPT !.result = result, !.step = "RECHECK"]]
     \/ NotInvoked(c)
  /\ Executing /\ UNCHANGED launches

Recheck(c) ==
  /\ At(c, "RECHECK")
  /\ IF LeasesCurrent(c) THEN Goto(c, "REASSERT") ELSE NotInvoked(c)
  /\ Executing /\ UNCHANGED launches

\* Drift of the tree outranks an invocation that failed.
Reobserve(c) ==
  /\ ReadSource(c, "REOBSERVE",
       IF calls[c].result = "INVOCATION_FAILED" THEN Fail(c, "PROTOCOL_ERROR", "FINAL")
       ELSE Goto(c, "FINAL"))
  /\ Executing /\ UNCHANGED launches

\* One more reading before the commit: here a change of the files is an error of
\* the command, which leaves the Attempt as it is and no session to repeat it.
FinalReading(c) ==
  /\ At(c, "FINAL")
  /\ IF OfPlan(c) /\ ~AssetsCurrent THEN calls' = [calls EXCEPT ![c] = None]
     ELSE Goto(c, "COMMIT")
  /\ Executing /\ UNCHANGED launches

\* The authority of the request must be the present one.
RequestCurrent(c) ==
  /\ calls[c].version = wf.version /\ Gen(c) = wf.gen /\ Frozen
  /\ wf.status = "RUNNING" /\ wf.phase = "EVIDENCE_BUILD"

NewEvidence(c) ==
  [criterion |-> calls[c].criterion, check |-> calls[c].check,
   result |-> calls[c].result, restored |-> calls[c].restored]

\* A failed Check fails the Workflow; a tree that drifted ends its generation.
RecordOutcome(c) ==
  CASE calls[c].failure = None ->
         /\ evidence' = evidence \union {NewEvidence(c)}
         /\ SetStatus("READY") /\ UNCHANGED gens
    [] calls[c].failure = "CANDIDATE_SOURCE_DRIFT" ->
         Invalidate(wf.gen) /\ SetStatus("FAILED") /\ UNCHANGED evidence
    [] calls[c].failure = "PROTOCOL_ERROR" ->
         SetStatus("FAILED") /\ UNCHANGED <<gens, evidence>>

\* A plain session ends when the Check failed or nothing is left to verify,
\* unless its lease cannot be given back.
EndPlainSession(c) ==
  IF ~OfPlan(c) /\ (calls[c].failure # None \/ CriteriaCovered')
  THEN session' \in {session, [session EXCEPT ![calls[c].proc] = @ \ {Gen(c)}]}
  ELSE UNCHANGED session

CommitRun(c) ==
  /\ At(c, "COMMIT")
  /\ IF RequestCurrent(c) THEN RecordOutcome(c) /\ EndPlainSession(c)
     ELSE UNCHANGED <<wf, gens, evidence, session>>
  /\ calls' = [calls EXCEPT ![c] = None]
  /\ UNCHANGED <<plan, contexts, checks, sets, decisions, files, launches, disturbances>>

-----------------------------------------------------------------------------
(* Acceptance *)

\* Recording the set needs one result per criterion, of the stored Check.
RecordSet ==
  /\ Ready("EVIDENCE_BUILD") /\ Frozen /\ CriteriaCovered /\ SourceCurrent(wf.gen)
  /\ sets' = [sets EXCEPT ![wf.gen] = EvidenceOf(wf.gen)]
  /\ Advance([wf EXCEPT !.phase = "FINAL_VERIFY"])
  /\ UNCHANGED <<gens, plan, contexts, checks, evidence, decisions, files, session,
                 calls, launches, disturbances>>

\* The files are read once more, through the lease derived anew, which the
\* Check of the generation must match.
AcceptanceAuthority(p) ==
  /\ plan # None => p \in Protected /\ AssetsCurrent
  /\ checks[wf.gen] = CheckOf(wf.gen)

Outcome(g) ==
  IF \E e \in sets[g] : e.result = "RUNNER_ERROR" THEN "ENGINE_ERROR"
  ELSE IF \E e \in sets[g] : e.result = "FAIL" THEN "REJECT_REPAIRABLE"
  ELSE "ACCEPT"

\* Mutant: the input manifest does not name the plan.
DecisionWithoutPlan ==
  [version |-> wf.version, gen |-> wf.gen, plan |-> None, outcome |-> Outcome(wf.gen)]

\* The input manifest has the plan in it when there is one.
CurrentDecision ==
  [version |-> wf.version, gen |-> wf.gen, plan |-> plan, outcome |-> Outcome(wf.gen)]

Accepting(p) == Ready("FINAL_VERIFY") /\ Frozen /\ AcceptanceAuthority(p)

Evaluate(p) ==
  /\ Accepting(p) /\ SourceCurrent(wf.gen)
  /\ decisions' = decisions \union {CurrentDecision}
  /\ UNCHANGED <<wf, gens, plan, contexts, checks, evidence, sets, files, session,
                 calls, launches, disturbances>>

\* Consuming a decision needs it to be the one that would be made now.
Consumed(outcome) == CurrentDecision \in decisions /\ CurrentDecision.outcome = outcome

Close(p) ==
  /\ Accepting(p) /\ SourceCurrent(wf.gen) /\ Consumed("ACCEPT")
  /\ gens' = [gens EXCEPT ![wf.gen].state = "ACCEPTED"]
  /\ Advance([wf EXCEPT !.phase = "CLOSEOUT", !.status = "CLOSED"])
  /\ UNCHANGED <<plan, contexts, checks, evidence, sets, decisions, files, session,
                 calls, launches, disturbances>>

\* The child of a repair is verified under the same plan.
Repair(p) ==
  /\ Accepting(p) /\ SourceCurrent(wf.gen) /\ Consumed("REJECT_REPAIRABLE")
  /\ wf.gen + 1 \in Generations
  /\ gens' = [gens EXCEPT ![wf.gen].state = "REJECTED", ![wf.gen + 1].state = "MUTABLE"]
  /\ Advance([wf EXCEPT !.phase = "WORK", !.gen = wf.gen + 1])
  /\ UNCHANGED <<plan, contexts, checks, evidence, sets, decisions, files, session,
                 calls, launches, disturbances>>

\* Any of the four that finds another tree fails the Workflow.
FailIntegrity(p) ==
  /\ (Ready("EVIDENCE_BUILD") /\ CriteriaCovered) \/ Accepting(p)
  /\ Frozen /\ ~SourceCurrent(wf.gen)
  /\ Invalidate(wf.gen) /\ SetStatus("FAILED")
  /\ UNCHANGED <<plan, contexts, checks, evidence, sets, decisions, files, session,
                 calls, launches, disturbances>>

-----------------------------------------------------------------------------
(* Recovery, and what disturbs *)

Unaffected == UNCHANGED <<gens, plan, contexts, checks, evidence, sets, decisions,
                          files, session, calls, launches>>

StartupRecovery ==
  /\ wf.status = "RUNNING" /\ Disturb
  /\ Advance([wf EXCEPT !.status = "BLOCKED", !.reconciled = wf.version + 1])
  /\ Unaffected

Interrupt(status) ==
  /\ wf.status = "RUNNING" /\ Disturb
  /\ SetStatus(status)
  /\ Unaffected

Cancel ==
  /\ wf.status \notin {"CANCELLED", "CLOSED"} /\ Disturb
  /\ SetStatus("CANCELLED")
  /\ Unaffected

\* A configured Check whose criteria are not accounted for stays blocked: its
\* session is presumed lost with its process.
ContinuityBarrier ==
  wf.phase = "EVIDENCE_BUILD" /\ checks[wf.gen] # None /\ ~CriteriaCovered
TreeExpected == gens[wf.gen].frozen # None => SourceCurrent(wf.gen)

\* The inspection may find other things wrong.
Resume ==
  /\ wf.status = "BLOCKED" /\ wf.reconciled = wf.version
  /\ \E status \in {"READY", "BLOCKED"} :
       /\ status = "READY" => TreeExpected /\ ~ContinuityBarrier
       /\ Advance([wf EXCEPT !.status = status, !.reconciled = wf.version + 1])
  /\ Unaffected /\ UNCHANGED disturbances

\* The sessions and the calls are memory of the process.
Crash(p) ==
  /\ Disturb
  /\ session' = [session EXCEPT ![p] = {}]
  /\ calls' = [c \in Calls |-> IF calls[c] # None /\ calls[c].proc = p THEN None
                               ELSE calls[c]]
  /\ UNCHANGED <<rows, files, launches>>

\* A check that is running may read the files before and after they change; a
\* change is noticed by the reading that follows, if it is still there.
Running(c) == At(c, "CHECK") \/ At(c, "RECHECK")

ChangeAssets(a) ==
  /\ Started /\ a # assets /\ Disturb
  /\ assets' = a
  /\ calls' = [c \in Calls |->
       IF Running(c) THEN [calls[c] EXCEPT !.sawAssets = @ \union {a},
                                           !.restored = @ \/ a \in calls[c].sawAssets]
       ELSE calls[c]]
  /\ UNCHANGED <<rows, source, session, launches>>

ChangeSource(d) ==
  /\ gens[wf.gen].frozen # None /\ d # source[wf.gen] /\ Disturb
  /\ source' = [source EXCEPT ![wf.gen] = d]
  /\ calls' = [c \in Calls |->
       IF Running(c) /\ Gen(c) = wf.gen
       THEN [calls[c] EXCEPT !.sawSource = @ \union {d},
                             !.restored = @ \/ d \in calls[c].sawSource]
       ELSE calls[c]]
  /\ UNCHANGED <<rows, assets, session, launches>>
-----------------------------------------------------------------------------
Init ==
  /\ wf = [phase |-> "WORK", status |-> "READY", version |-> 1, gen |-> 1, reconciled |-> 0]
  /\ gens = [g \in Generations |-> [state |-> IF g = 1 THEN "MUTABLE" ELSE "NONE",
                                    frozen |-> None]]
  /\ plan = None /\ contexts = {}
  /\ checks = [g \in Generations |-> None]
  /\ evidence = {} /\ sets = [g \in Generations |-> {}] /\ decisions = {}
  /\ assets \in Contents
  /\ source = [g \in Generations |-> None]
  /\ session = [p \in Procs |-> {}]
  /\ calls = [c \in Calls |-> None]
  /\ launches = [g \in Generations |-> 0]
  /\ disturbances = 0

Serve(c) ==
  \/ Observe(c) \/ AssertAssets(c) \/ Launch(c) \/ EndCheck(c) \/ Recheck(c)
  \/ ReassertAssets(c) \/ Reobserve(c) \/ FinalReading(c) \/ CommitRun(c)

Next ==
  \/ \E p \in Procs :
       \/ \E proposed \in SUBSET Criteria, inspected \in Contents :
            Start(p, proposed, inspected)
       \/ Work(p) \/ Configure(p) \/ BeginAttempt(p)
       \/ \E c \in Calls, k \in Criteria : BeginRun(c, p, k)
       \/ Evaluate(p) \/ Close(p) \/ Repair(p) \/ FailIntegrity(p) \/ Crash(p)
  \/ BeginWork \/ \E d \in Digests : Freeze(d)
  \/ \E c \in Calls : Serve(c)
  \/ RecordSet
  \/ StartupRecovery \/ Resume \/ Cancel
  \/ \E status \in {"READY", "BLOCKED"} : Interrupt(status)
  \/ \E a \in Contents : ChangeAssets(a)
  \/ \E d \in Digests : ChangeSource(d)

Spec == Init /\ [][Next]_vars

\* A driver goes on with what it has configured: it begins Attempts, requests
\* what has no result yet, and its calls are served.
RequestNext(p) ==
  \E c \in Calls, k \in Criteria : ~Covered(k) /\ BeginRun(c, p, k)
DrivenSpec ==
  /\ Spec
  /\ \A p \in Procs : WF_vars(BeginAttempt(p)) /\ WF_vars(RequestNext(p))
  /\ \A c \in Calls : WF_vars(Serve(c))
-----------------------------------------------------------------------------
(* A lease is good for one invocation: for a protected Workflow no generation *)
(* is ever executed twice, by whichever kernels, requests, crashes and late   *)
(* calls, and a session that could still launch one is the only trace of the  *)
(* lease: nothing was launched with it and no call holds it.                  *)
SingleInvocation ==
  plan # None =>
    \A g \in Generations :
      /\ launches[g] <= 1
      /\ \A p \in Procs : g \in session[p] =>
           /\ launches[g] = 0
           /\ \A c \in Calls : calls[c] # None => Gen(c) # g
           /\ \A q \in Procs \ {p} : g \notin session[q]

(* What the protected files say of the frozen tree is what is recorded and    *)
(* what closes the Goal: a passing or failing result is the verdict of the    *)
(* contents the plan locked at Start on the frozen identity, whenever the     *)
(* files or the tree were changed, unless they were changed and changed back  *)
(* between the readings before and after the check.                           *)
OracleDecides ==
  /\ \A e \in evidence :
       e.check.lease # None /\ ~e.restored /\ e.result # "RUNNER_ERROR" =>
         e.result = Oracle[e.check.lease.plan.assets][e.check.digest]
  /\ wf.status = "CLOSED" /\ plan # None =>
       \A k \in Criteria : \E e \in sets[wf.gen] :
         /\ e.criterion = k /\ e.result = "PASS" /\ e.check.lease = ReadLease(wf.gen)
         /\ e.restored \/ Oracle[plan.assets][gens[wf.gen].frozen] = "PASS"

\* What the audit of an opening store demands of each kind of row.
RetainedPlan ==
  plan # None =>
    /\ plan.criteria = Criteria /\ plan.version <= wf.version
    /\ [version |-> plan.version, plan |-> plan] \in contexts
    /\ \A x \in contexts : plan.version <= x.version
RetainedContexts == \A x \in contexts : x.plan = plan
RetainedChecks ==
  \A g \in Generations :
    checks[g] # None /\ checks[g].lease # None =>
      plan # None /\ checks[g].lease = ReadLease(g)
RetainedEvidence ==
  \A e \in evidence : e.check.lease # None =>
    /\ plan # None /\ checks[e.check.gen] = e.check
    /\ e.check.lease = ReadLease(e.check.gen)
RetainedSets ==
  plan # None =>
    \A g \in Generations : \A e \in sets[g] :
      e.check.lease # None /\ e.check.lease.plan = plan
RetainedDecisions == \A d \in decisions : d.plan = plan

(* The data home can be opened again: whatever kernels with and without       *)
(* protected assets did to one Workflow in turn, the rows they committed pass *)
(* the closure over plan, contexts, Checks, results, sets and decisions.      *)
ProtectedAuditAccepts ==
  /\ RetainedPlan /\ RetainedContexts /\ RetainedChecks
  /\ RetainedEvidence /\ RetainedSets /\ RetainedDecisions

(* A Check that was configured ends in results for all required criteria or   *)
(* in a Workflow that has stopped: a driver that nothing disturbs is never    *)
(* left with a Workflow it can neither verify nor fail.                       *)
CriteriaAccounted ==
  \A g \in Generations :
    checks[g] # None ~>
      \/ \A k \in Criteria : \E e \in EvidenceOf(g) : e.criterion = k
      \/ wf.status \in {"FAILED", "CANCELLED", "CLOSED"}
=============================================================================
