--------------------- MODULE ProtectedVerificationProofs ---------------------
(* Theorems about ProtectedVerification for any number of processes, calls,   *)
(* criteria and generations, and for every oracle.                            *)
EXTENDS ProtectedVerification, TLAPS

USE ProtectedAssumption, NoneIsNoRow DEF Generations

-----------------------------------------------------------------------------
(* The inductive invariant *)

(* A generation has an identity from its freeze on, and only the present one   *)
(* and those before it are alive.                                              *)
Identified ==
  /\ \A g \in Generations : gens[g].frozen = None <=> gens[g].state \in {"NONE", "MUTABLE"}
  /\ \A g \in Generations : g > wf.gen => gens[g].state = "NONE"

(* Before the first Start there is no plan, and nothing that could bind one. *)
Unstarted ==
  ~Started =>
    /\ plan = None /\ contexts = {} /\ decisions = {}
    /\ \A g \in Generations : checks[g] = None

(* A stored Check is the one that Acceptance and the audit derive again. *)
Configured ==
  \A g \in Generations :
    checks[g] # None => gens[g].frozen # None /\ checks[g] = CheckOf(g)

(* Sessions, calls, launches and results are of stored Checks. *)
OfChecks ==
  /\ \A p \in Procs : \A g \in session[p] : checks[g] # None
  /\ \A c \in Calls : calls[c] # None => checks[Gen(c)] = calls[c].check
  /\ \A g \in Generations : launches[g] > 0 => checks[g] # None
  /\ \A e \in evidence : checks[e.check.gen] = e.check
  /\ \A g \in Generations : sets[g] \subseteq EvidenceOf(g)

(* What a call has come to goes with its step. *)
Stepped ==
  \A c \in Calls :
    /\ At(c, "RECHECK") => calls[c].result \in Results
    /\ At(c, "REASSERT") \/ At(c, "REOBSERVE") =>
         calls[c].result \in Results \union {"INVOCATION_FAILED"}
    /\ At(c, "FINAL") \/ At(c, "COMMIT") =>
         calls[c].failure # None \/ calls[c].result \in Results

(* The lease of a protected generation is in one place: with no one yet, in    *)
(* one session, with one call, or spent.                                       *)
Unlaunched(c) == calls[c].step \in {"OBSERVE", "ASSERT", "LAUNCH"}
Placed(g) ==
  /\ launches[g] <= 1
  /\ \A p, q \in Procs : g \in session[p] /\ g \in session[q] => p = q
  /\ \A p \in Procs : g \in session[p] =>
       launches[g] = 0 /\ \A c \in Calls : calls[c] # None => Gen(c) # g
  /\ \A c, d \in Calls :
       calls[c] # None /\ calls[d] # None /\ Gen(c) = g /\ Gen(d) = g => c = d
  /\ \A c \in Calls : calls[c] # None /\ Gen(c) = g /\ Unlaunched(c) => launches[g] = 0
OnePlace == plan # None => \A g \in Generations : Placed(g)

(* While a check runs, what was not changed back is either as it was launched   *)
(* or never was anything else.                                                 *)
Watching(c) ==
  /\ plan.assets \in calls[c].sawAssets /\ calls[c].check.digest \in calls[c].sawSource
  /\ calls[c].restored \/
       /\ assets = plan.assets => calls[c].sawAssets = {plan.assets}
       /\ source[Gen(c)] = calls[c].check.digest =>
            calls[c].sawSource = {calls[c].check.digest}
  /\ calls[c].step = "RECHECK" => calls[c].result \in Verdicts(c)
Watched == \A c \in Calls : Running(c) /\ OfPlan(c) => Watching(c)

(* What was read again after the check is the verdict of the plan's contents. *)
Verdict(c) ==
  calls[c].result \in {"PASS", "FAIL"} =>
    calls[c].restored \/ calls[c].result = Oracle[plan.assets][calls[c].check.digest]
Judging(c) ==
  /\ calls[c].step \in {"REASSERT", "REOBSERVE", "FINAL", "COMMIT"}
  /\ OfPlan(c) /\ calls[c].failure = None
Judged == \A c \in Calls : calls[c] # None /\ Judging(c) => Verdict(c)

(* After the Evidence Set was recorded it has a result for every criterion,    *)
(* and a closed Goal has only passes.                                          *)
Collected ==
  wf.phase \in {"FINAL_VERIFY", "CLOSEOUT"} =>
    \A k \in Criteria : \E e \in sets[wf.gen] : e.criterion = k
Passed ==
  wf.status = "CLOSED" => wf.phase = "CLOSEOUT" /\ \A e \in sets[wf.gen] : e.result = "PASS"

(* What was recorded is the verdict of the plan's contents. *)
Oracles ==
  \A e \in evidence :
    e.check.lease # None /\ ~e.restored /\ e.result # "RUNNER_ERROR" =>
      e.result = Oracle[plan.assets][e.check.digest]

Binding == RetainedPlan /\ RetainedContexts /\ RetainedDecisions

Core == TypeOK /\ Identified /\ Unstarted /\ Configured /\ OfChecks /\ Stepped

Inv ==
  /\ Core /\ OnePlace /\ Watched /\ Judged /\ Oracles
  /\ Collected /\ Passed /\ Binding

-----------------------------------------------------------------------------
(* What the writes are *)

LEMMA AdvanceType ==
  ASSUME TypeOK, NEW next \in Workflow, Advance(next)
  PROVE  /\ wf' \in Workflow /\ wf'.version = wf.version + 1
         /\ wf'.phase = next.phase /\ wf'.status = next.status /\ wf'.gen = next.gen
<1>1. wf.version + 1 \in 1..MaxVersion
  BY DEF TypeOK, Workflow, Advance
<1> QED BY <1>1 DEF Workflow, Advance

LEMMA StatusType ==
  ASSUME TypeOK, NEW status \in Statuses, SetStatus(status)
  PROVE  /\ wf' \in Workflow /\ wf'.version = wf.version + 1
         /\ wf'.phase = wf.phase /\ wf'.status = status /\ wf'.gen = wf.gen
<1>1. [wf EXCEPT !.status = status] \in Workflow
  BY DEF TypeOK, Workflow
<1> QED BY <1>1, AdvanceType DEF SetStatus, TypeOK, Workflow

LEMMA StateType ==
  ASSUME TypeOK, NEW g \in Generations, NEW state \in {"ACCEPTED", "REJECTED", "MUTABLE"}
  PROVE  [gens[g] EXCEPT !.state = state] \in Generation
  BY DEF TypeOK, Generation

LEMMA InvalidateType ==
  ASSUME TypeOK, NEW g \in Generations, Invalidate(g)
  PROVE  /\ gens' \in [Generations -> Generation]
         /\ \A h \in Generations : gens'[h].frozen = gens[h].frozen
         /\ gens'[g].state = "INVALIDATED"
         /\ \A h \in Generations \ {g} : gens'[h] = gens[h]
  BY DEF TypeOK, Generation, Invalidate

LEMMA CallUpdate ==
  ASSUME TypeOK, NEW c \in Calls, NEW y \in Call \union {None},
         calls' = [calls EXCEPT ![c] = y]
  PROVE  /\ calls' \in [Calls -> Call \union {None}]
         /\ calls'[c] = y /\ \A d \in Calls \ {c} : calls'[d] = calls[d]
  BY DEF TypeOK

LEMMA CallType ==
  ASSUME TypeOK, NEW c \in Calls, calls[c] # None
  PROVE  /\ calls[c] \in Call /\ calls[c].check \in Check
         /\ Gen(c) \in Generations /\ calls[c].proc \in Procs
  BY DEF TypeOK, Call, Check, Gen

LEMMA CheckType ==
  ASSUME TypeOK, Identified, NEW g \in Generations, gens[g].frozen # None
  PROVE  /\ CheckOf(g) \in Check /\ CheckOf(g) # None /\ CheckOf(g).gen = g
         /\ CheckOf(g).digest = gens[g].frozen
         /\ plan # None => CheckOf(g).lease = ReadLease(g) /\ CheckOf(g).lease # None
         /\ plan = None => CheckOf(g).lease = None
<1>1. gens[g].frozen \in Digests
  BY DEF TypeOK, Generation
<1>2. plan # None => ReadLease(g) \in Lease
  BY <1>1 DEF TypeOK, ReadLease, Lease
<1>3. CheckOf(g) \in Check
  BY <1>1, <1>2 DEF CheckOf, Check
<1> QED BY <1>2, <1>3 DEF CheckOf

(* A step of a call leaves the other calls and what it was requested for. *)
Moves(c) ==
  /\ calls[c] # None
  /\ calls' \in [Calls -> Call \union {None}]
  /\ \A d \in Calls \ {c} : calls'[d] = calls[d]
  /\ calls'[c] # None => calls'[c].check = calls[c].check /\ calls'[c].proc = calls[c].proc

LEMMA GotoMoves ==
  ASSUME TypeOK, NEW c \in Calls, calls[c] # None, NEW step \in Steps, Goto(c, step)
  PROVE  Moves(c) /\ calls'[c] = [calls[c] EXCEPT !.step = step]
<1>1. calls[c] \in Call
  BY CallType
<1>2. [calls[c] EXCEPT !.step = step] \in Call
  BY <1>1 DEF Call
<1> QED BY <1>1, <1>2, CallUpdate DEF Goto, Moves, Call

LEMMA FailMoves ==
  ASSUME TypeOK, NEW c \in Calls, calls[c] # None, NEW step \in Steps,
         NEW failure \in Failures, Fail(c, failure, step)
  PROVE  Moves(c) /\ calls'[c] = [calls[c] EXCEPT !.failure = failure, !.step = step]
<1>1. calls[c] \in Call
  BY CallType
<1>2. [calls[c] EXCEPT !.failure = failure, !.step = step] \in Call
  BY <1>1 DEF Call
<1> QED BY <1>1, <1>2, CallUpdate DEF Fail, Moves, Call

LEMMA NotInvokedMoves ==
  ASSUME TypeOK, NEW c \in Calls, calls[c] # None, NotInvoked(c)
  PROVE  /\ Moves(c)
         /\ calls'[c] = [calls[c] EXCEPT !.result = "INVOCATION_FAILED", !.step = "REASSERT"]
<1>1. calls[c] \in Call
  BY CallType
<1>2. [calls[c] EXCEPT !.result = "INVOCATION_FAILED", !.step = "REASSERT"] \in Call
  BY <1>1 DEF Call, Steps
<1> QED BY <1>1, <1>2, CallUpdate DEF NotInvoked, Moves, Call

LEMMA VerdictsType ==
  ASSUME TypeOK, NEW c \in Calls, calls[c] # None PROVE Verdicts(c) \subseteq Results
<1>1. calls[c].sawAssets \subseteq Contents /\ calls[c].sawSource \subseteq Digests
  BY CallType DEF Call
<1> QED BY <1>1 DEF Verdicts, Results

LEMMA CallBinds ==
  ASSUME Core, NEW c \in Calls, calls[c] # None
  PROVE  /\ checks[Gen(c)] = CheckOf(Gen(c)) /\ calls[c].check = CheckOf(Gen(c))
         /\ gens[Gen(c)].frozen # None /\ calls[c].check.digest = gens[Gen(c)].frozen
         /\ OfPlan(c) <=> plan # None
<1>1. Gen(c) \in Generations /\ calls[c].check \in Check
  BY CallType DEF Core
<1>2. checks[Gen(c)] # None
  BY <1>1 DEF Core, OfChecks
<1> QED BY <1>1, <1>2, CheckType DEF Core, OfChecks, Configured, OfPlan

LEMMA ServeMoves ==
  ASSUME Core, NEW c \in Calls, Serve(c) PROVE Moves(c)
<1> USE DEF Core
<1>1. calls[c] # None
  BY DEF Serve, Observe, AssertAssets, Launch, EndCheck, Recheck, ReassertAssets,
         Reobserve, FinalReading, CommitRun, ReadSource, ReadAssets, At
<1>2. calls[c] \in Call
  BY <1>1, CallType
<1>3. CASE Observe(c) \/ Reobserve(c)
  BY <1>1, <1>3, GotoMoves, FailMoves DEF Observe, Reobserve, ReadSource, Steps, Failures
<1>4. CASE AssertAssets(c) \/ ReassertAssets(c)
  BY <1>1, <1>4, GotoMoves, FailMoves
     DEF AssertAssets, ReassertAssets, ReadAssets, Steps, Failures
<1>5. CASE Launch(c)
  <2> DEFINE y == [calls[c] EXCEPT !.step = "CHECK", !.sawAssets = {assets},
                                   !.sawSource = {source[Gen(c)]}]
  <2>1. CASE NotInvoked(c)
    BY <1>1, <2>1, NotInvokedMoves
  <2>2. CASE LeasesCurrent(c)
    <3>1. source[Gen(c)] \in Digests
      BY <1>1, <2>2, CallType, CallBinds DEF LeasesCurrent, SourceCurrent, TypeOK, Generation
    <3>2. y \in Call
      BY <1>2, <3>1 DEF Call, Steps, TypeOK
    <3>3. calls' = [calls EXCEPT ![c] = y]
      BY <1>5, <2>2 DEF Launch
    <3>4. y.check = calls[c].check /\ y.proc = calls[c].proc
      BY <1>2 DEF Call
    <3> HIDE DEF y
    <3> QED BY <1>1, <3>2, <3>3, <3>4, CallUpdate DEF Moves
  <2> QED BY <1>5, <2>1, <2>2 DEF Launch
<1>6. CASE EndCheck(c)
  <2>1. ASSUME NEW result \in Verdicts(c),
               calls' = [calls EXCEPT ![c] = [@ EXCEPT !.result = result, !.step = "RECHECK"]]
        PROVE  Moves(c)
    <3>1. result \in Results
      BY <1>1, <2>1, VerdictsType
    <3>2. [calls[c] EXCEPT !.result = result, !.step = "RECHECK"] \in Call
      BY <1>2, <3>1 DEF Call, Steps, Results
    <3> QED BY <1>1, <1>2, <2>1, <3>2, CallUpdate DEF Moves, Call
  <2> QED BY <1>1, <1>6, <2>1, NotInvokedMoves DEF EndCheck
<1>7. CASE Recheck(c)
  BY <1>1, <1>7, GotoMoves, NotInvokedMoves DEF Recheck, Steps
<1>8. CASE FinalReading(c)
  <2>1. CASE calls' = [calls EXCEPT ![c] = None]
    BY <1>1, <2>1, CallUpdate DEF Moves
  <2> QED BY <1>1, <1>8, <2>1, GotoMoves DEF FinalReading, Steps
<1>9. CASE CommitRun(c)
  BY <1>1, <1>9, CallUpdate DEF CommitRun, Moves
<1> QED BY <1>3, <1>4, <1>5, <1>6, <1>7, <1>8, <1>9 DEF Serve

-----------------------------------------------------------------------------
(* Type correctness *)

LEMMA PlanType ==
  ASSUME TypeOK, wf' \in Workflow, NEW p \in Procs, NEW proposed \in SUBSET Criteria,
         NEW inspected \in Contents, LockPlan(p, proposed, inspected)
  PROVE  plan' \in Plan \union {None}
<1>1. wf'.version \in 1..MaxVersion
  BY DEF Workflow
<1> QED BY <1>1 DEF TypeOK, LockPlan, Plan, ProposalCovers

LEMMA ContextType ==
  ASSUME TypeOK, wf' \in Workflow, NEW locked \in Plan \union {None}, CompileContext(locked)
  PROVE  contexts' \subseteq Context
  BY DEF TypeOK, CompileContext, Context, Workflow

LEMMA DecisionType ==
  ASSUME TypeOK PROVE CurrentDecision \in Decision
<1>1. Outcome(wf.gen) \in {"ACCEPT", "REJECT_REPAIRABLE", "ENGINE_ERROR"}
  BY DEF Outcome
<1> QED BY <1>1 DEF TypeOK, CurrentDecision, Decision, Workflow

LEMMA EvidenceType ==
  ASSUME Core, NEW c \in Calls, At(c, "COMMIT"), calls[c].failure = None
  PROVE  NewEvidence(c) \in Evidence
<1>1. calls[c] \in Call
  BY CallType DEF Core, At
<1>2. calls[c].result \in Results
  BY DEF Core, Stepped, At
<1> QED BY <1>1, <1>2 DEF NewEvidence, Evidence, Call

LEMMA ConfiguredType ==
  ASSUME Core, NEW p \in Procs, Frozen, StoreCheck(p)
  PROVE  /\ checks' \in [Generations -> Check \union {None}]
         /\ session' \in [Procs -> SUBSET Generations]
         /\ gens[wf.gen].frozen # None
<1>1. wf.gen \in Generations /\ gens[wf.gen].frozen # None
  BY DEF Core, TypeOK, Workflow, Identified, Frozen
<1>2. CheckOf(wf.gen) \in Check
  BY <1>1, CheckType DEF Core
<1> QED BY <1>1, <1>2 DEF StoreCheck, Core, TypeOK

(* A change of the files touches what the running checks may have read. *)
Changed(c) ==
  /\ calls'[c] # None <=> calls[c] # None
  /\ calls[c] # None =>
       /\ calls'[c].proc = calls[c].proc /\ calls'[c].check = calls[c].check
       /\ calls'[c].step = calls[c].step /\ calls'[c].failure = calls[c].failure
       /\ calls'[c].result = calls[c].result
       /\ calls[c].sawAssets \subseteq calls'[c].sawAssets
       /\ calls[c].sawSource \subseteq calls'[c].sawSource

LEMMA AssetsType ==
  ASSUME TypeOK, NEW a \in Contents, ChangeAssets(a)
  PROVE  /\ calls' \in [Calls -> Call \union {None}]
         /\ \A c \in Calls : Changed(c)
<1>1. ASSUME NEW c \in Calls
      PROVE  calls'[c] \in Call \union {None} /\ Changed(c)
  <2>1. CASE Running(c)
    <3>1. calls[c] \in Call
      BY <2>1, CallType DEF Running, At
    <3> DEFINE back == calls[c].restored \/ a \in calls[c].sawAssets
    <3> DEFINE seen == calls[c].sawAssets \union {a}
    <3>2. calls'[c] = [calls[c] EXCEPT !.sawAssets = seen, !.restored = back]
      BY <2>1 DEF ChangeAssets
    <3>3. back \in BOOLEAN
      OBVIOUS
    <3>4. seen \in SUBSET Contents /\ calls[c].sawAssets \subseteq seen
      BY <3>1 DEF Call
    <3> HIDE DEF back, seen
    <3>5. [calls[c] EXCEPT !.sawAssets = seen, !.restored = back] \in Call
      BY <3>1, <3>3, <3>4 DEF Call
    <3> QED BY <3>1, <3>2, <3>4, <3>5 DEF Call, Changed
  <2>2. CASE ~Running(c)
    BY <2>2 DEF ChangeAssets, Changed, TypeOK
  <2> QED BY <2>1, <2>2
<1> QED BY <1>1 DEF ChangeAssets

LEMMA SourceType ==
  ASSUME TypeOK, NEW d \in Digests, ChangeSource(d)
  PROVE  /\ calls' \in [Calls -> Call \union {None}]
         /\ \A c \in Calls : Changed(c)
<1>1. ASSUME NEW c \in Calls
      PROVE  calls'[c] \in Call \union {None} /\ Changed(c)
  <2>1. CASE Running(c) /\ Gen(c) = wf.gen
    <3>1. calls[c] \in Call
      BY <2>1, CallType DEF Running, At
    <3> DEFINE back == calls[c].restored \/ d \in calls[c].sawSource
    <3> DEFINE seen == calls[c].sawSource \union {d}
    <3>2. calls'[c] = [calls[c] EXCEPT !.sawSource = seen, !.restored = back]
      BY <2>1 DEF ChangeSource
    <3>3. back \in BOOLEAN
      OBVIOUS
    <3>4. seen \in SUBSET Digests /\ calls[c].sawSource \subseteq seen
      BY <3>1 DEF Call
    <3> HIDE DEF back, seen
    <3>5. [calls[c] EXCEPT !.sawSource = seen, !.restored = back] \in Call
      BY <3>1, <3>3, <3>4 DEF Call
    <3> QED BY <3>1, <3>2, <3>4, <3>5 DEF Call, Changed
  <2>2. CASE ~(Running(c) /\ Gen(c) = wf.gen)
    BY <2>2 DEF ChangeSource, Changed, TypeOK
  <2> QED BY <2>1, <2>2
<1> QED BY <1>1 DEF ChangeSource

LEMMA TypeStep == ASSUME Core, Next PROVE TypeOK'
<1> USE DEF Core
<1>1. wf.gen \in Generations /\ wf.version \in 1..MaxVersion
  BY DEF TypeOK, Workflow
<1>2. ASSUME NEW p \in Procs, NEW proposed \in SUBSET Criteria, NEW inspected \in Contents,
             Start(p, proposed, inspected)
      PROVE  TypeOK'
  <2>1. wf' \in Workflow
    BY <1>2, StatusType DEF Start, Statuses
  <2> QED BY <1>2, <2>1, PlanType, ContextType DEF Start, TypeOK, files
<1>3. CASE BeginWork
  <2>1. wf' \in Workflow
    BY <1>3, StatusType DEF BeginWork, Statuses
  <2>2. plan \in Plan \union {None}
    BY DEF TypeOK
  <2> QED BY <1>3, <2>1, <2>2, ContextType DEF BeginWork, TypeOK, files, Disturb
<1>4. ASSUME NEW p \in Procs, Work(p) PROVE TypeOK'
  BY <1>4, StatusType DEF Work, TypeOK, files, Statuses
<1>5. ASSUME NEW d \in Digests, Freeze(d) PROVE TypeOK'
  <2>1. [wf EXCEPT !.phase = "EVIDENCE_BUILD"] \in Workflow
    BY DEF TypeOK, Workflow
  <2>2. wf' \in Workflow
    BY <1>5, <2>1, AdvanceType DEF Freeze
  <2>3. gens' \in [Generations -> Generation]
    BY <1>5, <1>1 DEF Freeze, TypeOK, Generation
  <2>4. source' \in [Generations -> Digests \union {None}]
    BY <1>5, <1>1 DEF Freeze, TypeOK
  <2> QED BY <1>5, <2>2, <2>3, <2>4 DEF Freeze, TypeOK
<1>6. ASSUME NEW p \in Procs, Configure(p) PROVE TypeOK'
  BY <1>6, ConfiguredType DEF Configure, TypeOK, files
<1>7. ASSUME NEW p \in Procs, BeginAttempt(p) PROVE TypeOK'
  BY <1>7, StatusType DEF BeginAttempt, TypeOK, files, Statuses
<1>8. ASSUME NEW p \in Procs, NEW c \in Calls, NEW k \in Criteria, BeginRun(c, p, k)
      PROVE  TypeOK'
  <2>1. checks[wf.gen] \in Check
    BY <1>1, <1>8 DEF BeginRun, SessionCurrent, OfChecks, TypeOK
  <2> DEFINE y == [proc |-> p, check |-> checks[wf.gen], criterion |-> k,
        version |-> wf.version, step |-> "OBSERVE", failure |-> None, result |-> None,
        sawAssets |-> {}, sawSource |-> {}, restored |-> FALSE]
  <2>2. y \in Call
    BY <1>1, <2>1 DEF Call, Steps
  <2>3. calls' = [calls EXCEPT ![c] = y]
    BY <1>8 DEF BeginRun
  <2>4. session' \in [Procs -> SUBSET Generations]
    BY <1>8 DEF BeginRun, ConsumeSession, TypeOK
  <2> HIDE DEF y
  <2> QED BY <1>8, <2>2, <2>3, <2>4, CallUpdate DEF BeginRun, TypeOK, rows, files
<1>9. ASSUME NEW c \in Calls, Serve(c) PROVE TypeOK'
  <2>1. calls' \in [Calls -> Call \union {None}] /\ calls[c] # None
    BY <1>9, ServeMoves DEF Moves
  <2>2. CASE CommitRun(c)
    <3>1. UNCHANGED <<wf, gens, evidence>> \/ RecordOutcome(c)
      BY <2>2 DEF CommitRun
    <3>2. wf' \in Workflow /\ gens' \in [Generations -> Generation] /\ evidence' \subseteq Evidence
      <4>1. CASE UNCHANGED <<wf, gens, evidence>>
        BY <4>1 DEF TypeOK
      <4>2. CASE RecordOutcome(c) /\ calls[c].failure = None
        <5>1. NewEvidence(c) \in Evidence
          BY <2>2, <4>2, EvidenceType DEF CommitRun
        <5>2. evidence' = evidence \union {NewEvidence(c)} /\ SetStatus("READY") /\ UNCHANGED gens
          BY <4>2 DEF RecordOutcome
        <5> QED BY <5>1, <5>2, StatusType DEF TypeOK, Statuses
      <4>3. CASE RecordOutcome(c) /\ calls[c].failure # None
        <5>1. calls[c].failure \in Failures
          BY <2>1, <4>3, CallType DEF Call
        <5> QED BY <1>1, <4>3, <5>1, StatusType, InvalidateType
              DEF RecordOutcome, TypeOK, Statuses, Failures
      <4> QED BY <3>1, <4>1, <4>2, <4>3
    <3>3. session' \in [Procs -> SUBSET Generations]
      <4>1. EndPlainSession(c) \/ UNCHANGED session
        BY <2>2 DEF CommitRun
      <4>2. session \in [Procs -> SUBSET Generations]
        BY DEF TypeOK
      <4> QED BY <4>1, <4>2 DEF EndPlainSession
    <3> QED BY <2>1, <2>2, <3>2, <3>3 DEF CommitRun, TypeOK, files
  <2>3. CASE ~CommitRun(c)
    <3>1. UNCHANGED <<rows, files, session, disturbances>>
      BY <1>9, <2>3 DEF Serve, Observe, AssertAssets, Launch, EndCheck, Recheck,
            ReassertAssets, Reobserve, FinalReading, Executing
    <3>2. launches' \in [Generations -> Nat]
      <4>1. CASE Launch(c)
        BY <2>1, <4>1, CallType DEF Launch, TypeOK
      <4>2. CASE ~Launch(c)
        BY <1>9, <2>3, <4>2 DEF Serve, Observe, AssertAssets, EndCheck, Recheck,
              ReassertAssets, Reobserve, FinalReading, TypeOK
      <4> QED BY <4>1, <4>2
    <3> QED BY <2>1, <3>1, <3>2 DEF TypeOK, rows, files
  <2> QED BY <2>2, <2>3
<1>10. CASE RecordSet
  <2>1. [wf EXCEPT !.phase = "FINAL_VERIFY"] \in Workflow
    BY DEF TypeOK, Workflow
  <2> QED BY <1>10, <2>1, AdvanceType DEF RecordSet, EvidenceOf, TypeOK, files
<1>11. ASSUME NEW p \in Procs, Evaluate(p) PROVE TypeOK'
  BY <1>11, DecisionType DEF Evaluate, TypeOK, files
<1>12. ASSUME NEW p \in Procs, Close(p) PROVE TypeOK'
  <2>1. [wf EXCEPT !.phase = "CLOSEOUT", !.status = "CLOSED"] \in Workflow
    BY DEF TypeOK, Workflow, Statuses
  <2>2. gens' \in [Generations -> Generation]
    BY <1>1, <1>12, StateType DEF Close, TypeOK
  <2> QED BY <1>12, <2>1, <2>2, AdvanceType DEF Close, TypeOK, files
<1>13. ASSUME NEW p \in Procs, Repair(p) PROVE TypeOK'
  <2>1. [wf EXCEPT !.phase = "WORK", !.gen = wf.gen + 1] \in Workflow
    BY <1>13 DEF Repair, TypeOK, Workflow
  <2>2. gens' \in [Generations -> Generation]
    <3>1. wf.gen + 1 \in Generations /\ wf.gen # wf.gen + 1
      BY <1>1, <1>13 DEF Repair
    <3> QED BY <1>1, <1>13, <3>1, StateType DEF Repair, TypeOK
  <2> QED BY <1>13, <2>1, <2>2, AdvanceType DEF Repair, TypeOK, files
<1>14. ASSUME NEW p \in Procs, FailIntegrity(p) PROVE TypeOK'
  BY <1>1, <1>14, StatusType, InvalidateType DEF FailIntegrity, TypeOK, files, Statuses
<1>15. ASSUME NEW p \in Procs, Crash(p) PROVE TypeOK'
  BY <1>15 DEF Crash, TypeOK, rows, files, Disturb
<1>16. CASE StartupRecovery
  <2>1. wf.version + 1 \in 0..MaxVersion
    BY <1>1, <1>16 DEF StartupRecovery, Advance
  <2>2. [wf EXCEPT !.status = "BLOCKED", !.reconciled = wf.version + 1] \in Workflow
    BY <2>1 DEF TypeOK, Workflow, Statuses
  <2> QED BY <1>16, <2>2, AdvanceType
        DEF StartupRecovery, TypeOK, Unaffected, files, Disturb
<1>17. CASE Resume
  <2>1. ASSUME NEW status \in {"READY", "BLOCKED"},
               Advance([wf EXCEPT !.status = status, !.reconciled = wf.version + 1])
        PROVE  wf' \in Workflow
    <3>1. wf.version + 1 \in 0..MaxVersion
      BY <1>1, <2>1 DEF Advance
    <3>2. [wf EXCEPT !.status = status, !.reconciled = wf.version + 1] \in Workflow
      BY <3>1 DEF TypeOK, Workflow, Statuses
    <3> QED BY <2>1, <3>2, AdvanceType
  <2>2. wf' \in Workflow /\ Unaffected /\ UNCHANGED disturbances
    BY <1>17, <2>1 DEF Resume
  <2> QED BY <2>2 DEF TypeOK, Unaffected, files
<1>18. ASSUME NEW status \in Statuses, SetStatus(status), Unaffected, Disturb PROVE TypeOK'
  BY <1>18, StatusType DEF TypeOK, Unaffected, files, Disturb
<1>19. CASE Cancel \/ \E status \in {"READY", "BLOCKED"} : Interrupt(status)
  BY <1>18, <1>19 DEF Cancel, Interrupt, Statuses
<1>20. ASSUME NEW a \in Contents, ChangeAssets(a) PROVE TypeOK'
  <2>1. /\ assets' = a /\ calls' \in [Calls -> Call \union {None}] /\ Disturb
        /\ UNCHANGED <<rows, source, session, launches>>
    BY <1>20, AssetsType DEF ChangeAssets
  <2> QED BY <2>1 DEF TypeOK, rows, Disturb
<1>21. ASSUME NEW d \in Digests, ChangeSource(d) PROVE TypeOK'
  <2>1. source' \in [Generations -> Digests \union {None}]
    BY <1>1, <1>21 DEF ChangeSource, TypeOK
  <2>2. /\ calls' \in [Calls -> Call \union {None}] /\ Disturb
        /\ UNCHANGED <<rows, assets, session, launches>>
    BY <1>21, SourceType DEF ChangeSource
  <2> QED BY <2>1, <2>2 DEF TypeOK, rows, Disturb
<1> QED BY <1>2, <1>3, <1>4, <1>5, <1>6, <1>7, <1>8, <1>9, <1>10, <1>11, <1>12, <1>13,
           <1>14, <1>15, <1>16, <1>17, <1>19, <1>20, <1>21 DEF Next

-----------------------------------------------------------------------------
(* What no step revises, and what the steps of the Workflow leave alone *)

Quiet ==
  /\ UNCHANGED <<assets, session, calls, launches, checks, evidence, sets>>
  /\ \A g \in Generations : gens[g].frozen # None => source'[g] = source[g]

Invoked(c) ==
  Serve(c) /\ (CommitRun(c) \/ UNCHANGED <<rows, files, session, disturbances>>)

LEMMA InvokedForm ==
  ASSUME NEW c \in Calls, Serve(c) PROVE Invoked(c)
  BY DEF Invoked, Serve, Observe, AssertAssets, Launch, EndCheck, Recheck, ReassertAssets,
         Reobserve, FinalReading, Executing

LEMMA QuietForm ==
  ASSUME Core, Next
  PROVE  \/ Quiet
         \/ RecordSet
         \/ \E p \in Procs : Configure(p) \/ Crash(p)
         \/ \E p \in Procs, c \in Calls, k \in Criteria : BeginRun(c, p, k)
         \/ \E c \in Calls : Invoked(c)
         \/ \E a \in Contents : ChangeAssets(a)
         \/ \E d \in Digests : ChangeSource(d)
<1>1. ASSUME UNCHANGED <<files, session, calls, launches, checks, evidence, sets>> PROVE Quiet
  BY <1>1 DEF Quiet, files
<1>2. ASSUME NEW d \in Digests, Freeze(d) PROVE Quiet
  <2>1. gens[wf.gen].frozen = None
    BY <1>2 DEF Freeze, Core, Identified, TypeOK, Workflow
  <2> QED BY <1>2, <2>1 DEF Freeze, Quiet, Core, TypeOK
<1>3. ASSUME NEW p \in Procs,
             \/ Work(p) \/ BeginAttempt(p) \/ Evaluate(p) \/ Close(p) \/ Repair(p)
             \/ FailIntegrity(p)
             \/ \E proposed \in SUBSET Criteria, inspected \in Contents :
                  Start(p, proposed, inspected)
      PROVE  Quiet
  BY <1>1, <1>3 DEF Work, BeginAttempt, Evaluate, Close, Repair, FailIntegrity, Start
<1>4. CASE \/ BeginWork \/ StartupRecovery \/ Resume \/ Cancel
           \/ \E status \in {"READY", "BLOCKED"} : Interrupt(status)
  BY <1>1, <1>4 DEF BeginWork, StartupRecovery, Resume, Cancel, Interrupt, Unaffected
<1> QED BY <1>2, <1>3, <1>4, InvokedForm DEF Next

Kept ==
  /\ wf'.version >= wf.version
  /\ Started => plan' = plan
  /\ \A g \in Generations : gens[g].frozen # None => gens'[g].frozen = gens[g].frozen
  /\ \A g \in Generations : checks[g] # None => checks'[g] = checks[g]

LEMMA PlanKept == ASSUME Core, Next, Started PROVE plan' = plan
  BY DEF Next, Start, BeginWork, Work, Freeze, Configure, BeginAttempt, BeginRun, Serve,
         Observe, AssertAssets, Launch, EndCheck, Recheck, ReassertAssets, Reobserve,
         FinalReading, CommitRun, Executing, RecordSet, Evaluate, Close, Repair,
         FailIntegrity, StartupRecovery, Interrupt, Cancel, Resume, Unaffected, Crash,
         ChangeAssets, ChangeSource, rows

LEMMA VersionStep ==
  ASSUME Core, Next PROVE UNCHANGED wf \/ wf'.version = wf.version + 1
<1> USE DEF Core
<1>1. ASSUME NEW status \in Statuses, SetStatus(status) PROVE wf'.version = wf.version + 1
  BY <1>1, StatusType
<1>2. ASSUME NEW p \in Procs,
             \/ \E proposed \in SUBSET Criteria, inspected \in Contents :
                  Start(p, proposed, inspected)
             \/ Work(p) \/ BeginAttempt(p) \/ FailIntegrity(p)
      PROVE  wf'.version = wf.version + 1
  BY <1>1, <1>2 DEF Start, Work, BeginAttempt, FailIntegrity, Statuses
<1>3. CASE BeginWork \/ Cancel \/ \E status \in {"READY", "BLOCKED"} : Interrupt(status)
  BY <1>1, <1>3 DEF BeginWork, Cancel, Interrupt, Statuses
<1>4. ASSUME NEW c \in Calls, Serve(c) PROVE UNCHANGED wf \/ wf'.version = wf.version + 1
  <2>1. CASE RecordOutcome(c)
    <3>1. calls[c].failure \in Failures \union {None}
      BY <1>4, ServeMoves, CallType DEF Moves, Call
    <3> QED BY <1>1, <2>1, <3>1 DEF RecordOutcome, Statuses, Failures
  <2> QED BY <1>4, <2>1, InvokedForm DEF Invoked, CommitRun, rows
<1>5. ASSUME NEW d \in Digests, Freeze(d) PROVE wf'.version = wf.version + 1
  BY <1>5 DEF Freeze, Advance, TypeOK, Workflow
<1>6. CASE RecordSet
  BY <1>6 DEF RecordSet, Advance, TypeOK, Workflow
<1>7. ASSUME NEW p \in Procs, Close(p) \/ Repair(p) PROVE wf'.version = wf.version + 1
  BY <1>7 DEF Close, Repair, Advance, TypeOK, Workflow
<1>8. CASE StartupRecovery \/ Resume
  BY <1>8 DEF StartupRecovery, Resume, Advance, TypeOK, Workflow
<1>9. ASSUME NEW p \in Procs,
             \/ Configure(p) \/ Evaluate(p) \/ Crash(p)
             \/ \E c \in Calls, k \in Criteria : BeginRun(c, p, k)
      PROVE  UNCHANGED wf
  BY <1>9 DEF Configure, Evaluate, Crash, BeginRun, rows
<1>10. CASE (\E a \in Contents : ChangeAssets(a)) \/ (\E d \in Digests : ChangeSource(d))
  BY <1>10 DEF ChangeAssets, ChangeSource, rows
<1> QED BY <1>2, <1>3, <1>4, <1>5, <1>6, <1>7, <1>8, <1>9, <1>10 DEF Next

(* The steps on the generations, and on which of them is the present one. *)
GensForm ==
  \/ UNCHANGED gens /\ wf'.gen = wf.gen
  \/ /\ Frozen /\ wf'.gen = wf.gen
     /\ \E state \in {"INVALIDATED", "ACCEPTED"} :
          gens' = [gens EXCEPT ![wf.gen].state = state]
  \/ /\ gens[wf.gen].state = "MUTABLE" /\ wf'.gen = wf.gen
     /\ \E d \in Digests :
          gens' = [gens EXCEPT ![wf.gen] = [state |-> "FROZEN", frozen |-> d]]
  \/ /\ Frozen /\ wf.gen + 1 \in Generations /\ wf'.gen = wf.gen + 1
     /\ gens' = [gens EXCEPT ![wf.gen].state = "REJECTED", ![wf.gen + 1].state = "MUTABLE"]

LEMMA GensStep == ASSUME Core, Next PROVE GensForm
<1> USE DEF Core
<1>1. ASSUME UNCHANGED gens, UNCHANGED wf PROVE GensForm
  BY <1>1 DEF GensForm
<1>2. ASSUME UNCHANGED gens, NEW status \in Statuses, SetStatus(status) PROVE GensForm
  BY <1>2, StatusType DEF GensForm
<1>3. ASSUME Frozen, Invalidate(wf.gen), SetStatus("FAILED") PROVE GensForm
  BY <1>3, StatusType DEF GensForm, Invalidate, Statuses
<1>4. ASSUME NEW p \in Procs,
             \/ \E proposed \in SUBSET Criteria, inspected \in Contents :
                  Start(p, proposed, inspected)
             \/ Work(p) \/ BeginAttempt(p)
      PROVE  GensForm
  BY <1>2, <1>4 DEF Start, Work, BeginAttempt, Statuses
<1>5. CASE BeginWork \/ Cancel \/ \E status \in {"READY", "BLOCKED"} : Interrupt(status)
  BY <1>2, <1>5 DEF BeginWork, Cancel, Interrupt, Unaffected, Statuses
<1>6. ASSUME NEW c \in Calls, Serve(c) PROVE GensForm
  <2>1. CASE RecordOutcome(c) /\ RequestCurrent(c)
    <3>1. calls[c].failure \in Failures \union {None}
      BY <1>6, ServeMoves, CallType DEF Moves, Call
    <3>2. Frozen
      BY <2>1 DEF RequestCurrent
    <3> QED BY <1>2, <1>3, <2>1, <3>1, <3>2 DEF RecordOutcome, Failures, Statuses
  <2> QED BY <1>1, <1>6, <2>1, InvokedForm DEF Invoked, CommitRun, rows
<1>7. ASSUME NEW p \in Procs, FailIntegrity(p) PROVE GensForm
  BY <1>3, <1>7 DEF FailIntegrity
<1>8. ASSUME NEW d \in Digests, Freeze(d) PROVE GensForm
  <2>1. wf'.gen = wf.gen
    BY <1>8 DEF Freeze, Advance, TypeOK, Workflow
  <2>2. /\ gens[wf.gen].state = "MUTABLE"
        /\ gens' = [gens EXCEPT ![wf.gen] = [state |-> "FROZEN", frozen |-> d]]
    BY <1>8 DEF Freeze
  <2> QED BY <2>1, <2>2 DEF GensForm
<1>9. CASE RecordSet
  BY <1>9 DEF RecordSet, Advance, TypeOK, Workflow, GensForm
<1>10. ASSUME NEW p \in Procs, Close(p) PROVE GensForm
  <2>1. wf'.gen = wf.gen
    BY <1>10 DEF Close, Advance, TypeOK, Workflow
  <2>2. Frozen /\ gens' = [gens EXCEPT ![wf.gen].state = "ACCEPTED"]
    BY <1>10 DEF Close, Accepting
  <2> QED BY <2>1, <2>2 DEF GensForm
<1>11. ASSUME NEW p \in Procs, Repair(p) PROVE GensForm
  <2>1. wf'.gen = wf.gen + 1
    BY <1>11 DEF Repair, Advance, TypeOK, Workflow
  <2>2. /\ Frozen /\ wf.gen + 1 \in Generations
        /\ gens' = [gens EXCEPT ![wf.gen].state = "REJECTED", ![wf.gen + 1].state = "MUTABLE"]
    BY <1>11 DEF Repair, Accepting
  <2> QED BY <2>1, <2>2 DEF GensForm
<1>12. CASE StartupRecovery \/ Resume
  <2>1. UNCHANGED gens
    BY <1>12 DEF StartupRecovery, Resume, Unaffected
  <2>2. wf'.gen = wf.gen
    BY <1>12 DEF StartupRecovery, Resume, Advance, TypeOK, Workflow
  <2> QED BY <2>1, <2>2 DEF GensForm
<1>13. ASSUME NEW p \in Procs,
             \/ Configure(p) \/ Evaluate(p) \/ Crash(p)
             \/ \E c \in Calls, k \in Criteria : BeginRun(c, p, k)
      PROVE  GensForm
  BY <1>1, <1>13 DEF Configure, Evaluate, Crash, BeginRun, rows
<1>14. CASE (\E a \in Contents : ChangeAssets(a)) \/ (\E d \in Digests : ChangeSource(d))
  BY <1>1, <1>14 DEF ChangeAssets, ChangeSource, rows
<1> QED BY <1>4, <1>5, <1>6, <1>7, <1>8, <1>9, <1>10, <1>11, <1>12, <1>13, <1>14 DEF Next

LEMMA IdentifiedStep ==
  ASSUME Core, Next
  PROVE  /\ Identified'
         /\ \A g \in Generations : gens[g].frozen # None => gens'[g].frozen = gens[g].frozen
<1> USE DEF Core
<1>1. wf.gen \in Generations /\ gens \in [Generations -> Generation]
  BY DEF TypeOK, Workflow
<1>2. CASE UNCHANGED gens /\ wf'.gen = wf.gen
  BY <1>2 DEF Identified
<1>3. ASSUME NEW state \in {"INVALIDATED", "ACCEPTED"}, Frozen, wf'.gen = wf.gen,
             gens' = [gens EXCEPT ![wf.gen].state = state]
      PROVE  /\ Identified'
             /\ \A g \in Generations : gens'[g].frozen = gens[g].frozen
  <2>1. /\ \A g \in Generations : gens'[g].frozen = gens[g].frozen
        /\ gens'[wf.gen].state = state
        /\ \A g \in Generations \ {wf.gen} : gens'[g].state = gens[g].state
    BY <1>1, <1>3 DEF Generation
  <2> QED BY <1>1, <1>3, <2>1 DEF Identified, Frozen
<1>4. ASSUME NEW d \in Digests, gens[wf.gen].state = "MUTABLE", wf'.gen = wf.gen,
             gens' = [gens EXCEPT ![wf.gen] = [state |-> "FROZEN", frozen |-> d]]
      PROVE  /\ Identified'
             /\ \A g \in Generations : gens[g].frozen # None => gens'[g].frozen = gens[g].frozen
  BY <1>1, <1>4 DEF Identified
<1>5. ASSUME Frozen, wf.gen + 1 \in Generations, wf'.gen = wf.gen + 1,
             gens' = [gens EXCEPT ![wf.gen].state = "REJECTED", ![wf.gen + 1].state = "MUTABLE"]
      PROVE  /\ Identified'
             /\ \A g \in Generations : gens'[g].frozen = gens[g].frozen
  <2>1. /\ \A g \in Generations : gens'[g].frozen = gens[g].frozen
        /\ gens'[wf.gen].state = "REJECTED" /\ gens'[wf.gen + 1].state = "MUTABLE"
        /\ \A g \in Generations \ {wf.gen, wf.gen + 1} : gens'[g].state = gens[g].state
    BY <1>1, <1>5 DEF Generation
  <2>2. gens[wf.gen + 1].state = "NONE" /\ wf.gen # wf.gen + 1
    BY <1>1, <1>5 DEF Identified
  <2>3. gens[wf.gen].frozen # None /\ gens[wf.gen + 1].frozen = None
    BY <1>1, <1>5, <2>2 DEF Identified, Frozen
  <2>4. \A g \in Generations : gens'[g].frozen = None <=> gens'[g].state \in {"NONE", "MUTABLE"}
    BY <2>1, <2>3 DEF Identified
  <2>5. \A g \in Generations : g > wf'.gen => gens'[g].state = "NONE"
    BY <1>1, <1>5, <2>1 DEF Identified
  <2> QED BY <2>1, <2>4, <2>5 DEF Identified
<1> QED BY <1>2, <1>3, <1>4, <1>5, GensStep DEF GensForm

LEMMA KeptStep == ASSUME Core, Next PROVE Kept
<1>1. wf'.version >= wf.version
  BY VersionStep DEF Core, TypeOK, Workflow
<1>2. ASSUME NEW g \in Generations, checks[g] # None PROVE checks'[g] = checks[g]
  BY <1>2, QuietForm
     DEF Quiet, RecordSet, Configure, StoreCheck, Crash, BeginRun, Invoked, CommitRun,
         ChangeAssets, ChangeSource, rows, Core, TypeOK
<1> QED BY <1>1, <1>2, PlanKept, IdentifiedStep DEF Kept

(* Who writes what the plan is bound to. *)
LEMMA Writers ==
  ASSUME Core, Next
  PROVE  /\ \/ UNCHANGED <<plan, contexts>>
            \/ BeginWork
            \/ \E p \in Procs, proposed \in SUBSET Criteria, inspected \in Contents :
                 Start(p, proposed, inspected)
         /\ UNCHANGED decisions \/ \E p \in Procs : Evaluate(p)
         /\ UNCHANGED checks \/ \E p \in Procs : Configure(p)
  BY DEF Next, Start, BeginWork, Work, Freeze, Configure, BeginAttempt, BeginRun, Serve,
         Observe, AssertAssets, Launch, EndCheck, Recheck, ReassertAssets, Reobserve,
         FinalReading, CommitRun, Executing, RecordSet, Evaluate, Close, Repair,
         FailIntegrity, StartupRecovery, Interrupt, Cancel, Resume, Unaffected, Crash,
         ChangeAssets, ChangeSource, rows

LEMMA StartedKept == ASSUME Core, Next, Started PROVE Started'
  BY VersionStep DEF Started, Core, TypeOK, Workflow

LEMMA UnstartedStep == ASSUME Core, Next PROVE Unstarted'
<1> USE DEF Core
<1> SUFFICES ASSUME ~Started' PROVE Unstarted'
  BY DEF Unstarted
<1>1. ~Started /\ UNCHANGED wf
  BY StartedKept, VersionStep DEF Started, TypeOK, Workflow
<1>2. UNCHANGED decisions /\ UNCHANGED checks
  BY <1>1, Writers DEF Evaluate, Accepting, Configure, Ready
<1>3. ASSUME SetStatus("RUNNING") PROVE FALSE
  BY <1>1, <1>3, StatusType DEF TypeOK, Workflow, Statuses
<1>4. UNCHANGED <<plan, contexts>>
  BY <1>3, Writers DEF Start, BeginWork
<1> QED BY <1>1, <1>2, <1>4 DEF Unstarted

LEMMA HasCheck ==
  ASSUME Core, NEW g \in Generations, checks[g] # None
  PROVE  Started /\ gens[g].frozen # None /\ checks[g] = CheckOf(g)
  BY DEF Core, Unstarted, Configured

LEMMA ConfiguredStep == ASSUME Core, Next PROVE Configured'
<1> USE DEF Core
<1> SUFFICES ASSUME NEW g \in Generations, checks'[g] # None
             PROVE  gens'[g].frozen # None /\ checks'[g] = CheckOf(g)'
  BY DEF Configured
<1>1. Started /\ gens[g].frozen # None /\ checks'[g] = CheckOf(g)
  <2>1. CASE checks[g] # None
    BY <2>1, HasCheck, KeptStep DEF Kept
  <2>2. CASE checks[g] = None
    <3>1. PICK p \in Procs : Configure(p)
      BY <2>2, Writers
    <3> QED BY <2>2, <3>1, ConfiguredType DEF Configure, StoreCheck, Ready, TypeOK
  <2> QED BY <2>1, <2>2
<1>2. plan' = plan /\ gens'[g].frozen = gens[g].frozen
  BY <1>1, KeptStep DEF Kept
<1> QED BY <1>1, <1>2 DEF CheckOf, ReadLease

(* Who holds a lease after a step. *)
LEMMA SessionStep ==
  ASSUME Core, Next, NEW p \in Procs, NEW g \in Generations, g \in session'[p]
  PROVE  g \in session[p] \/ (g = wf.gen /\ Configure(p))
<1> USE DEF Core
<1>1. session \in [Procs -> SUBSET Generations]
  BY DEF TypeOK
<1>2. CASE UNCHANGED session
  BY <1>2
<1>3. ASSUME NEW q \in Procs, NEW h \in Generations, session' = [session EXCEPT ![q] = @ \ {h}]
      PROVE  g \in session[p]
  BY <1>1, <1>3
<1>4. ASSUME NEW c \in Calls, Invoked(c), ~UNCHANGED session PROVE g \in session[p]
  <2>1. calls[c] # None /\ session' = [session EXCEPT ![calls[c].proc] = @ \ {Gen(c)}]
    BY <1>4, ServeMoves DEF Invoked, CommitRun, EndPlainSession, Moves
  <2> QED BY <1>3, <2>1, CallType
<1>5. ASSUME NEW q \in Procs, NEW c \in Calls, NEW k \in Criteria, BeginRun(c, q, k)
      PROVE  g \in session[p]
  <2>1. wf.gen \in Generations
    BY DEF TypeOK, Workflow
  <2> QED BY <1>2, <1>3, <1>5, <2>1 DEF BeginRun, ConsumeSession
<1>6. ASSUME NEW q \in Procs, Crash(q) PROVE g \in session[p]
  BY <1>1, <1>6 DEF Crash
<1>7. ASSUME NEW q \in Procs, Configure(q) PROVE g \in session[p] \/ (g = wf.gen /\ q = p)
  BY <1>1, <1>7 DEF Configure, StoreCheck
<1> QED BY <1>2, <1>4, <1>5, <1>6, <1>7, QuietForm DEF Quiet, RecordSet, ChangeAssets, ChangeSource

LEMMA RunCheck ==
  ASSUME Core, NEW p \in Procs, SessionCurrent(p)
  PROVE  /\ wf.gen \in Generations /\ checks[wf.gen] # None /\ checks[wf.gen] \in Check
         /\ checks[wf.gen].gen = wf.gen /\ Started
<1>1. wf.gen \in Generations /\ checks[wf.gen] # None
  BY DEF SessionCurrent, Core, OfChecks, TypeOK, Workflow
<1> QED BY <1>1, HasCheck, CheckType DEF Core, TypeOK

LEMMA CallsStep ==
  ASSUME Core, Next, NEW c \in Calls, calls'[c] # None
  PROVE  \/ /\ calls[c] # None /\ calls'[c].check = calls[c].check
            /\ calls'[c].proc = calls[c].proc
         \/ \E p \in Procs, k \in Criteria :
              /\ BeginRun(c, p, k) /\ calls[c] = None
              /\ calls'[c].check = checks[wf.gen] /\ calls'[c].step = "OBSERVE"
<1> USE DEF Core
<1>1. calls \in [Calls -> Call \union {None}]
  BY DEF TypeOK
<1>2. CASE UNCHANGED calls
  BY <1>2
<1>3. ASSUME NEW d \in Calls, Invoked(d)
      PROVE  calls[c] # None /\ calls'[c].check = calls[c].check /\ calls'[c].proc = calls[c].proc
  BY <1>3, ServeMoves DEF Invoked, Moves
<1>4. ASSUME NEW p \in Procs, NEW d \in Calls, NEW k \in Criteria, BeginRun(d, p, k), d # c
      PROVE  calls'[c] = calls[c]
  BY <1>1, <1>4 DEF BeginRun
<1>5. ASSUME NEW p \in Procs, NEW k \in Criteria, BeginRun(c, p, k)
      PROVE  calls[c] = None /\ calls'[c].check = checks[wf.gen] /\ calls'[c].step = "OBSERVE"
  BY <1>1, <1>5 DEF BeginRun
<1>6. ASSUME NEW p \in Procs, Crash(p) PROVE calls'[c] = calls[c]
  BY <1>6 DEF Crash
<1>7. CASE (\E a \in Contents : ChangeAssets(a)) \/ (\E d \in Digests : ChangeSource(d))
  BY <1>7, AssetsType, SourceType DEF Changed
<1> QED BY <1>2, <1>3, <1>4, <1>5, <1>6, <1>7, QuietForm DEF Quiet, RecordSet, Configure

LEMMA LaunchesStep ==
  ASSUME Core, Next
  PROVE  \/ UNCHANGED launches
         \/ \E c \in Calls : /\ Launch(c) /\ LeasesCurrent(c)
                             /\ launches' = [launches EXCEPT ![Gen(c)] = @ + 1]
<1>1. ASSUME NEW c \in Calls, Invoked(c)
      PROVE  UNCHANGED launches \/ (Launch(c) /\ LeasesCurrent(c)
                                    /\ launches' = [launches EXCEPT ![Gen(c)] = @ + 1])
  BY <1>1 DEF Invoked, Serve, Observe, AssertAssets, Launch, EndCheck, Recheck,
       ReassertAssets, Reobserve, FinalReading, CommitRun
<1> QED BY <1>1, QuietForm DEF Quiet, RecordSet, Configure, Crash, BeginRun, ChangeAssets, ChangeSource

LEMMA ResultsStep ==
  ASSUME Core, Next
  PROVE  /\ \/ UNCHANGED evidence
            \/ \E c \in Calls : /\ CommitRun(c) /\ calls[c].failure = None
                                /\ evidence' = evidence \union {NewEvidence(c)}
         /\ UNCHANGED sets \/ RecordSet
<1>1. ASSUME NEW c \in Calls, Invoked(c), ~UNCHANGED evidence
      PROVE  CommitRun(c) /\ calls[c].failure = None /\ evidence' = evidence \union {NewEvidence(c)}
  <2>1. CommitRun(c) /\ RecordOutcome(c)
    BY <1>1 DEF Invoked, CommitRun, rows
  <2>2. calls[c].failure \in Failures \union {None}
    BY <1>1, ServeMoves, CallType DEF Core, Invoked, Moves, Call
  <2> QED BY <1>1, <2>1, <2>2 DEF RecordOutcome, Failures
<1>2. ASSUME NEW c \in Calls, Invoked(c) PROVE UNCHANGED sets
  BY <1>2 DEF Invoked, CommitRun, rows
<1> QED BY <1>1, <1>2, QuietForm
        DEF Quiet, RecordSet, Configure, Crash, BeginRun, ChangeAssets, ChangeSource, rows

LEMMA OfChecksStep == ASSUME Core, Next PROVE OfChecks'
<1> USE DEF Core
<1>1. \A g \in Generations : checks[g] # None => checks'[g] = checks[g]
  BY KeptStep DEF Kept
<1>2. ASSUME NEW p \in Procs, NEW g \in session'[p] PROVE checks'[g] # None
  <2>1. g \in Generations
    BY <1>2, TypeStep DEF TypeOK
  <2>2. CASE g \in session[p]
    BY <1>1, <2>1, <2>2 DEF OfChecks
  <2>3. CASE g = wf.gen /\ Configure(p)
    <3>1. Frozen /\ StoreCheck(p)
      BY <2>3 DEF Configure
    <3> QED BY <2>1, <2>3, <3>1, ConfiguredType, CheckType DEF StoreCheck, TypeOK
  <2> QED BY <1>2, <2>1, <2>2, <2>3, SessionStep
<1>3. ASSUME NEW c \in Calls, calls'[c] # None PROVE checks'[calls'[c].check.gen] = calls'[c].check
  <2>1. CASE calls[c] # None /\ calls'[c].check = calls[c].check
    BY <1>1, <2>1, CallType, CallBinds DEF OfChecks, Gen, Check
  <2>2. ASSUME NEW p \in Procs, NEW k \in Criteria, BeginRun(c, p, k),
               calls'[c].check = checks[wf.gen]
        PROVE  checks'[calls'[c].check.gen] = calls'[c].check
    BY <1>1, <2>2, RunCheck DEF BeginRun
  <2> QED BY <1>3, <2>1, <2>2, CallsStep
<1>4. ASSUME NEW g \in Generations, launches'[g] > 0 PROVE checks'[g] # None
  <2>1. ASSUME NEW c \in Calls, Launch(c), launches' = [launches EXCEPT ![Gen(c)] = @ + 1]
        PROVE  checks[g] # None
    <3>1. calls[c] # None
      BY <2>1 DEF Launch, At
    <3>2. Gen(c) \in Generations /\ checks[Gen(c)] # None
      BY <3>1, CallType, CallBinds, CheckType
    <3> QED BY <1>4, <2>1, <3>2 DEF OfChecks, TypeOK
  <2>2. checks[g] # None
    BY <1>4, <2>1, LaunchesStep DEF OfChecks
  <2> QED BY <1>1, <2>2
<1>5. ASSUME NEW e \in evidence' PROVE checks'[e.check.gen] = e.check
  <2>1. CASE e \in evidence
    <3>1. e.check \in Check /\ e.check.gen \in Generations
      BY <2>1 DEF TypeOK, Evidence, Check
    <3>2. checks[e.check.gen] = e.check /\ e.check # None
      BY <2>1, <3>1 DEF OfChecks
    <3> QED BY <1>1, <3>1, <3>2
  <2>2. ASSUME NEW c \in Calls, CommitRun(c), e = NewEvidence(c) PROVE checks'[e.check.gen] = e.check
    <3>1. calls[c] # None /\ e.check = calls[c].check
      BY <2>2 DEF CommitRun, At, NewEvidence
    <3>2. Gen(c) \in Generations /\ calls[c].check \in Check
      BY <3>1, CallType
    <3>3. checks[Gen(c)] = calls[c].check /\ calls[c].check # None
      BY <3>1, <3>2 DEF OfChecks
    <3> QED BY <1>1, <3>1, <3>2, <3>3 DEF Gen
  <2> QED BY <1>5, <2>1, <2>2, ResultsStep
<1>6. ASSUME NEW g \in Generations PROVE sets'[g] \subseteq EvidenceOf(g)'
  <2>1. evidence \subseteq evidence' \/ RecordSet
    BY ResultsStep
  <2>2. CASE RecordSet
    BY <2>2 DEF RecordSet, EvidenceOf, OfChecks, TypeOK
  <2>3. CASE UNCHANGED sets /\ evidence \subseteq evidence'
    BY <2>3 DEF EvidenceOf, OfChecks
  <2> QED BY <2>1, <2>2, <2>3, ResultsStep
<1> QED BY <1>2, <1>3, <1>4, <1>5, <1>6 DEF OfChecks, Gen

(* The steps of one invocation, in their order. *)
NextStep ==
  {<<"OBSERVE", "ASSERT">>, <<"ASSERT", "LAUNCH">>, <<"RECHECK", "REASSERT">>,
   <<"REASSERT", "REOBSERVE">>, <<"REOBSERVE", "FINAL">>, <<"FINAL", "COMMIT">>}

ServeForm(c) ==
  \/ calls'[c] = None
  \/ \E failure \in Failures :
       calls'[c] = [calls[c] EXCEPT !.failure = failure, !.step = "FINAL"]
  \/ \E s \in NextStep :
       /\ calls[c].step = s[1] /\ calls'[c] = [calls[c] EXCEPT !.step = s[2]]
       /\ s[1] = "RECHECK" => LeasesCurrent(c)
       /\ s[1] = "REOBSERVE" => calls[c].result # "INVOCATION_FAILED"
  \/ /\ calls[c].step = "LAUNCH" /\ LeasesCurrent(c)
     /\ calls'[c] = [calls[c] EXCEPT !.step = "CHECK", !.sawAssets = {assets},
                                     !.sawSource = {source[Gen(c)]}]
     /\ launches' = [launches EXCEPT ![Gen(c)] = @ + 1]
  \/ /\ calls[c].step \in {"LAUNCH", "CHECK", "RECHECK"}
     /\ calls'[c] = [calls[c] EXCEPT !.result = "INVOCATION_FAILED", !.step = "REASSERT"]
  \/ /\ calls[c].step = "CHECK"
     /\ \E result \in Verdicts(c) :
          calls'[c] = [calls[c] EXCEPT !.result = result, !.step = "RECHECK"]

LEMMA ServeSteps == ASSUME Core, NEW c \in Calls, Serve(c) PROVE ServeForm(c)
<1> USE DEF Core
<1>1. calls[c] # None /\ calls[c] \in Call
  BY ServeMoves, CallType DEF Moves
<1>2. calls \in [Calls -> Call \union {None}]
  BY DEF TypeOK
<1>3. ASSUME NEW from, NEW to \in Steps, <<from, to>> \in NextStep, At(c, from), Goto(c, to),
             from = "RECHECK" => LeasesCurrent(c),
             from = "REOBSERVE" => calls[c].result # "INVOCATION_FAILED"
      PROVE  ServeForm(c)
  <2> DEFINE s == <<from, to>>
  <2>1. s \in NextStep /\ s[1] = from /\ s[2] = to
    BY <1>3
  <2>2. calls'[c] = [calls[c] EXCEPT !.step = s[2]] /\ calls[c].step = s[1]
    BY <1>1, <1>3, GotoMoves DEF At
  <2> QED BY <1>3, <2>1, <2>2 DEF ServeForm
<1>4. ASSUME NEW failure \in Failures, Fail(c, failure, "FINAL") PROVE ServeForm(c)
  <2>1. calls'[c] = [calls[c] EXCEPT !.failure = failure, !.step = "FINAL"]
    BY <1>1, <1>4, FailMoves DEF Steps
  <2> QED BY <1>4, <2>1 DEF ServeForm
<1>5. ASSUME NotInvoked(c), calls[c].step \in {"LAUNCH", "CHECK", "RECHECK"} PROVE ServeForm(c)
  BY <1>1, <1>5, NotInvokedMoves DEF ServeForm
<1>6. CASE Observe(c)
  BY <1>3, <1>4, <1>6 DEF Observe, ReadSource, NextStep, Steps, Failures
<1>7. CASE AssertAssets(c)
  BY <1>3, <1>4, <1>7 DEF AssertAssets, ReadAssets, NextStep, Steps, Failures
<1>8. CASE ReassertAssets(c)
  BY <1>3, <1>4, <1>8 DEF ReassertAssets, ReadAssets, NextStep, Steps, Failures
<1>9. CASE Reobserve(c)
  BY <1>3, <1>4, <1>9 DEF Reobserve, ReadSource, NextStep, Steps, Failures
<1>10. CASE Launch(c)
  <2>1. CASE LeasesCurrent(c)
    <3>1. /\ calls' = [calls EXCEPT ![c] = [@ EXCEPT !.step = "CHECK",
                             !.sawAssets = {assets}, !.sawSource = {source[Gen(c)]}]]
          /\ launches' = [launches EXCEPT ![Gen(c)] = @ + 1] /\ calls[c].step = "LAUNCH"
      BY <1>10, <2>1 DEF Launch, At
    <3> QED BY <1>2, <2>1, <3>1 DEF ServeForm
  <2> QED BY <1>5, <1>10, <2>1 DEF Launch, At
<1>11. CASE EndCheck(c)
  <2>1. ASSUME NEW result \in Verdicts(c),
               calls' = [calls EXCEPT ![c] = [@ EXCEPT !.result = result, !.step = "RECHECK"]]
        PROVE  ServeForm(c)
    BY <1>2, <1>11, <2>1 DEF EndCheck, At, ServeForm
  <2> QED BY <1>5, <1>11, <2>1 DEF EndCheck, At
<1>12. CASE Recheck(c)
  BY <1>3, <1>5, <1>12 DEF Recheck, NextStep, Steps, At
<1>13. CASE FinalReading(c)
  <2>1. CASE calls' = [calls EXCEPT ![c] = None]
    BY <1>2, <2>1 DEF ServeForm
  <2> QED BY <1>3, <1>13, <2>1 DEF FinalReading, NextStep, Steps
<1>14. CASE CommitRun(c)
  BY <1>2, <1>14 DEF CommitRun, ServeForm
<1> QED BY <1>6, <1>7, <1>8, <1>9, <1>10, <1>11, <1>12, <1>13, <1>14 DEF Serve

(* What any step does to one call. *)
LEMMA OneCall ==
  ASSUME Core, Next, NEW c \in Calls, calls'[c] # None
  PROVE  \/ calls'[c] = calls[c]
         \/ Serve(c) /\ ServeForm(c)
         \/ calls'[c].step = "OBSERVE"
         \/ Changed(c) /\ ((\E a \in Contents : ChangeAssets(a)) \/ (\E d \in Digests : ChangeSource(d)))
<1> USE DEF Core
<1>1. ASSUME NEW d \in Calls, Invoked(d), d # c PROVE calls'[c] = calls[c]
  BY <1>1, ServeMoves DEF Invoked, Moves
<1>2. ASSUME Invoked(c) PROVE Serve(c) /\ ServeForm(c)
  BY <1>2, ServeSteps DEF Invoked
<1>3. ASSUME NEW p \in Procs, NEW d \in Calls, NEW k \in Criteria, BeginRun(d, p, k)
      PROVE  calls'[c] = calls[c] \/ calls'[c].step = "OBSERVE"
  BY <1>3 DEF BeginRun, TypeOK
<1>4. ASSUME NEW p \in Procs, Crash(p) PROVE calls'[c] = calls[c]
  BY <1>4 DEF Crash
<1>5. CASE (\E a \in Contents : ChangeAssets(a)) \/ (\E d \in Digests : ChangeSource(d))
  BY <1>5, AssetsType, SourceType
<1> QED BY <1>1, <1>2, <1>3, <1>4, <1>5, QuietForm DEF Quiet, RecordSet, Configure

LEMMA SteppedStep == ASSUME Core, Next PROVE Stepped'
<1> USE DEF Core
<1> DEFINE Good(call) ==
      /\ call.step = "RECHECK" => call.result \in Results
      /\ call.step \in {"REASSERT", "REOBSERVE"} => call.result \in Results \union {"INVOCATION_FAILED"}
      /\ call.step \in {"FINAL", "COMMIT"} => call.failure # None \/ call.result \in Results
<1>1. ASSUME NEW c \in Calls, calls[c] # None PROVE Good(calls[c])
  BY <1>1 DEF Stepped, At
<1>2. ASSUME NEW c \in Calls, calls'[c] # None PROVE Good(calls'[c])
  <2>1. CASE Serve(c) /\ ServeForm(c)
    <3>1. calls[c] # None /\ calls[c] \in Call /\ Verdicts(c) \subseteq Results
      BY <2>1, ServeMoves, CallType, VerdictsType DEF Moves
    <3>2. Good(calls[c])
      BY <1>1, <3>1
    <3>3. ASSUME NEW failure \in Failures,
                 calls'[c] = [calls[c] EXCEPT !.failure = failure, !.step = "FINAL"]
          PROVE  Good(calls'[c])
      BY <3>1, <3>3 DEF Call, Failures
    <3>4. ASSUME NEW s \in NextStep, calls[c].step = s[1],
                 calls'[c] = [calls[c] EXCEPT !.step = s[2]],
                 s[1] = "REOBSERVE" => calls[c].result # "INVOCATION_FAILED"
          PROVE  Good(calls'[c])
      BY <3>1, <3>2, <3>4 DEF Call, NextStep
    <3>5. CASE calls'[c] = [calls[c] EXCEPT !.step = "CHECK", !.sawAssets = {assets},
                                            !.sawSource = {source[Gen(c)]}]
      BY <3>1, <3>5 DEF Call
    <3>6. CASE calls'[c] = [calls[c] EXCEPT !.result = "INVOCATION_FAILED", !.step = "REASSERT"]
      BY <3>1, <3>6 DEF Call
    <3>7. ASSUME NEW result \in Results,
                 calls'[c] = [calls[c] EXCEPT !.result = result, !.step = "RECHECK"]
          PROVE  Good(calls'[c])
      BY <3>1, <3>7 DEF Call
    <3> HIDE DEF Good
    <3> QED BY <1>2, <2>1, <3>1, <3>3, <3>4, <3>5, <3>6, <3>7 DEF ServeForm
  <2>2. CASE calls'[c] = calls[c]
    BY <1>1, <1>2, <2>2
  <2>3. CASE calls'[c].step = "OBSERVE"
    BY <2>3
  <2>4. CASE Changed(c)
    BY <1>1, <1>2, <2>4 DEF Changed
  <2> QED BY <1>2, <2>1, <2>2, <2>3, <2>4, OneCall
<1> QED BY <1>2 DEF Stepped, At

LEMMA CoreStep == ASSUME Core, Next PROVE Core'
  BY TypeStep, IdentifiedStep, UnstartedStep, ConfiguredStep, OfChecksStep, SteppedStep DEF Core

-----------------------------------------------------------------------------
(* A lease is in one place *)

\* Nothing but a stored Check has a session, a call or a launch.
LEMMA NoCheckNothing ==
  ASSUME Core, NEW g \in Generations, checks[g] = None
  PROVE  /\ launches[g] = 0 /\ \A p \in Procs : g \notin session[p]
         /\ \A c \in Calls : calls[c] # None => Gen(c) # g
<1>1. launches[g] \in Nat
  BY DEF Core, TypeOK
<1>2. \A c \in Calls : calls[c] # None => checks[Gen(c)] # None
  BY CallType DEF Core, OfChecks
<1> QED BY <1>1, <1>2 DEF Core, OfChecks

LEMMA PlanStarts ==
  ASSUME Core, Next, plan' # None
  PROVE  plan' = plan \/ (~Started /\ Quiet /\ \A g \in Generations : checks[g] = None)
<1>1. ASSUME ~Started PROVE \A g \in Generations : checks[g] = None
  BY <1>1 DEF Core, Unstarted
<1>2. CASE ~Started
  <2>1. ASSUME NEW p \in Procs, NEW proposed \in SUBSET Criteria, NEW inspected \in Contents,
               Start(p, proposed, inspected)
        PROVE  Quiet
    BY <2>1 DEF Start, Quiet, files
  <2> QED BY <1>1, <1>2, <2>1, Writers DEF BeginWork, Ready
<1> QED BY <1>2, PlanKept

\* A step after which there are no more sessions, calls and launches of a
\* generation than before, and no call that is unlaunched again.
LEMMA FewerPlaced ==
  ASSUME NEW g \in Generations, Placed(g), launches'[g] = launches[g],
         \A p \in Procs : g \in session'[p] => g \in session[p],
         \A c \in Calls : calls'[c] # None /\ Gen(c)' = g =>
           /\ calls[c] # None /\ Gen(c) = g
           /\ Unlaunched(c)' => Unlaunched(c)
  PROVE  Placed(g)'
  BY DEF Placed

LEMMA OnePlaceStep == ASSUME Core, OnePlace, Next PROVE OnePlace'
<1> USE DEF Core
<1> SUFFICES ASSUME plan' # None, NEW g \in Generations PROVE Placed(g)'
  BY DEF OnePlace
<1>1. ASSUME checks[g] = None PROVE Placed(g)
  BY <1>1, NoCheckNothing DEF Placed
<1>2. Placed(g) /\ (plan # None \/ Quiet)
  BY <1>1, PlanStarts DEF OnePlace
<1>3. ASSUME UNCHANGED <<session, calls, launches>> PROVE Placed(g)'
  BY <1>2, <1>3 DEF Placed, Unlaunched, Gen
<1>4. ASSUME NEW p \in Procs, Crash(p) PROVE Placed(g)'
  <2>1. \A q \in Procs : session'[q] \subseteq session[q]
    BY <1>4 DEF Crash, TypeOK
  <2>2. \A c \in Calls : calls'[c] # None => calls'[c] = calls[c]
    BY <1>4 DEF Crash
  <2> QED BY <1>2, <1>4, <2>1, <2>2, FewerPlaced DEF Crash, Gen, Unlaunched
<1>5. ASSUME NEW p \in Procs, Configure(p) PROVE Placed(g)'
  <2>1. UNCHANGED <<calls, launches>> /\ session' = [session EXCEPT ![p] = @ \union {wf.gen}]
        /\ checks[wf.gen] = None
    BY <1>5 DEF Configure, StoreCheck
  <2>2. CASE g = wf.gen
    <3>1. /\ launches[g] = 0 /\ \A q \in Procs : g \notin session[q]
          /\ \A c \in Calls : calls[c] # None => Gen(c) # g
      BY <2>1, <2>2, NoCheckNothing
    <3>2. \A q \in Procs : g \in session'[q] => q = p
      BY <2>1, <3>1 DEF TypeOK
    <3> QED BY <2>1, <3>1, <3>2 DEF Placed, Gen
  <2>3. CASE g # wf.gen
    <3>1. \A q \in Procs : g \in session'[q] => g \in session[q]
      BY <2>1, <2>3 DEF TypeOK
    <3> QED BY <1>2, <2>1, <3>1, FewerPlaced DEF Gen, Unlaunched
  <2> QED BY <2>2, <2>3
<1>6. ASSUME NEW p \in Procs, NEW c \in Calls, NEW k \in Criteria, BeginRun(c, p, k),
             plan # None
      PROVE  Placed(g)'
  <2>1. wf.gen \in Generations /\ wf.gen \in session[p] /\ checks[wf.gen].gen = wf.gen
    BY <1>6, RunCheck DEF BeginRun, SessionCurrent
  <2>2. session' = [session EXCEPT ![p] = @ \ {wf.gen}] /\ UNCHANGED launches
    BY <1>6, <2>1, RunCheck, HasCheck, CheckType DEF BeginRun, ConsumeSession
  <2>3. /\ \A d \in Calls \ {c} : calls'[d] = calls[d]
        /\ calls[c] = None /\ calls'[c].check = checks[wf.gen]
    BY <1>6 DEF BeginRun, TypeOK
  <2>4. \A q \in Procs : session'[q] \subseteq session[q] /\ wf.gen \notin session'[p]
    BY <2>2 DEF TypeOK
  <2>5. CASE g = wf.gen
    <3>1. /\ launches[g] = 0 /\ \A q \in Procs : g \in session[q] => q = p
          /\ \A d \in Calls : calls[d] # None => Gen(d) # g
      BY <1>2, <2>1, <2>5 DEF Placed
    <3>2. \A q \in Procs : g \notin session'[q]
      BY <2>4, <2>5, <3>1
    <3>3. \A d \in Calls : calls'[d] # None /\ Gen(d)' = g => d = c
      BY <2>3, <3>1 DEF Gen
    <3> QED BY <2>2, <3>1, <3>2, <3>3 DEF Placed
  <2>6. CASE g # wf.gen
    <3>1. Gen(c)' # g
      BY <2>1, <2>3, <2>6 DEF Gen
    <3> QED BY <1>2, <2>2, <2>3, <2>4, <3>1, FewerPlaced DEF Gen, Unlaunched
  <2> QED BY <2>5, <2>6
<1>7. ASSUME NEW c \in Calls, Invoked(c), plan # None PROVE Placed(g)'
  <2>1. Moves(c) /\ ServeForm(c) /\ calls[c] # None /\ calls[c] \in Call /\ OfPlan(c)
    BY <1>7, ServeMoves, ServeSteps, CallType, CallBinds DEF Invoked, Moves
  <2>2. UNCHANGED session
    BY <1>7, <2>1 DEF Invoked, CommitRun, EndPlainSession
  <2>3. \A d \in Calls \ {c} : calls'[d] = calls[d]
    BY <2>1 DEF Moves
  <2>4. calls'[c] # None => Gen(c)' = Gen(c)
    BY <2>1 DEF Moves, Gen
  <2>5. CASE UNCHANGED launches
    <3>1. ASSUME calls'[c] # None, Unlaunched(c)' PROVE Unlaunched(c)
      <4>1. calls'[c].step \in {"OBSERVE", "ASSERT", "LAUNCH"}
        BY <3>1 DEF Unlaunched
      <4>2. PICK s \in NextStep : calls[c].step = s[1] /\ calls'[c].step = s[2]
        BY <2>1, <3>1, <4>1 DEF ServeForm, Call
      <4> QED BY <4>1, <4>2 DEF NextStep, Unlaunched
    <3>2. \A d \in Calls : calls'[d] # None /\ Gen(d)' = g =>
            /\ calls[d] # None /\ Gen(d) = g
            /\ Unlaunched(d)' => Unlaunched(d)
      BY <2>1, <2>3, <2>4, <3>1 DEF Gen, Unlaunched
    <3> QED BY <1>2, <2>2, <2>5, <3>2, FewerPlaced
  <2>6. CASE ~UNCHANGED launches
    <3>1. Launch(c) /\ LeasesCurrent(c) /\ launches' = [launches EXCEPT ![Gen(c)] = @ + 1]
      BY <1>7, <2>6 DEF Invoked, Serve, Observe, AssertAssets, Launch, EndCheck, Recheck,
           ReassertAssets, Reobserve, FinalReading, CommitRun
    <3>2. calls[c].step = "LAUNCH" /\ calls'[c].step = "CHECK" /\ Gen(c) \in Generations
      <4>1. /\ calls[c].step = "LAUNCH"
            /\ calls' = [calls EXCEPT ![c] = [@ EXCEPT !.step = "CHECK",
                                !.sawAssets = {assets}, !.sawSource = {source[Gen(c)]}]]
        BY <3>1 DEF Launch, At
      <4>2. calls'[c] = [calls[c] EXCEPT !.step = "CHECK",
                                !.sawAssets = {assets}, !.sawSource = {source[Gen(c)]}]
        BY <4>1 DEF TypeOK
      <4> QED BY <2>1, <4>1, <4>2, CallType DEF Call
    <3>3. CASE Gen(c) = g
      <4>1. launches[g] = 0 /\ \A p \in Procs : g \notin session[p]
        BY <1>2, <2>1, <3>2, <3>3 DEF Placed, Unlaunched
      <4>2. launches'[g] = 1
        BY <3>1, <3>3, <4>1 DEF TypeOK
      <4>3. \A d \in Calls : calls'[d] # None /\ Gen(d)' = g => d = c
        BY <1>2, <2>1, <2>3, <3>3 DEF Placed, Gen
      <4> QED BY <2>2, <3>2, <4>1, <4>2, <4>3 DEF Placed, Unlaunched
    <3>4. CASE Gen(c) # g
      <4>1. launches'[g] = launches[g]
        BY <3>1, <3>4 DEF TypeOK
      <4> QED BY <1>2, <2>2, <2>3, <2>4, <3>4, <4>1, FewerPlaced DEF Gen, Unlaunched
    <3> QED BY <3>3, <3>4
  <2> QED BY <2>5, <2>6
<1>8. CASE (\E a \in Contents : ChangeAssets(a)) \/ (\E d \in Digests : ChangeSource(d))
  <2>1. \A c \in Calls : Changed(c)
    BY <1>8, AssetsType, SourceType
  <2>2. UNCHANGED <<session, launches>>
    BY <1>8 DEF ChangeAssets, ChangeSource
  <2> QED BY <1>2, <2>1, <2>2, FewerPlaced DEF Changed, Gen, Unlaunched
<1> QED BY <1>2, <1>3, <1>4, <1>5, <1>6, <1>7, <1>8, QuietForm DEF Quiet, RecordSet, Configure

-----------------------------------------------------------------------------
(* What a check may have read *)

LEMMA FilesStep ==
  ASSUME Core, Next
  PROVE  \/ \E a \in Contents : ChangeAssets(a)
         \/ \E d \in Digests : ChangeSource(d)
         \/ /\ assets' = assets
            /\ \A g \in Generations : gens[g].frozen # None => source'[g] = source[g]
<1>1. ASSUME NEW c \in Calls, Invoked(c) PROVE UNCHANGED files
  BY <1>1 DEF Invoked, CommitRun
<1> QED BY <1>1, QuietForm DEF Quiet, RecordSet, Configure, Crash, BeginRun, files

\* A call of a protected Check finds the plan of its lease in the next state.
LEMMA CallOfPlan ==
  ASSUME Core, Next, NEW c \in Calls, calls[c] # None, OfPlan(c)
  PROVE  /\ plan # None /\ plan' = plan /\ Gen(c) \in Generations
         /\ gens[Gen(c)].frozen # None /\ gens[Gen(c)].frozen = calls[c].check.digest
<1>1. Gen(c) \in Generations /\ checks[Gen(c)] # None
  BY CallType, CallBinds, CheckType DEF Core
<1> QED BY <1>1, HasCheck, CallBinds, KeptStep DEF Kept

LEMMA WatchedStep == ASSUME Core, Watched, Next PROVE Watched'
<1> USE DEF Core
<1> SUFFICES ASSUME NEW c \in Calls, Running(c)', OfPlan(c)' PROVE Watching(c)'
  BY DEF Watched
<1>1. calls'[c] # None /\ calls'[c].step \in {"CHECK", "RECHECK"}
  BY DEF Running, At
<1>2. calls[c] # None /\ calls'[c].check = calls[c].check
  BY <1>1, CallsStep
<1>3. OfPlan(c) /\ Gen(c)' = Gen(c) /\ calls[c] \in Call
  BY <1>2, CallType DEF OfPlan, Gen
<1>4. /\ plan # None /\ plan' = plan /\ Gen(c) \in Generations
      /\ gens[Gen(c)].frozen # None /\ gens[Gen(c)].frozen = calls[c].check.digest
  BY <1>2, <1>3, CallOfPlan
<1>5. Running(c) => Watching(c)
  BY <1>3 DEF Watched
<1>6. ASSUME NEW a \in Contents, ChangeAssets(a) PROVE Watching(c)'
  <2>1. Running(c)
    BY <1>1, <1>2, <1>6, AssetsType DEF Changed, Running, At
  <2> DEFINE back == calls[c].restored \/ a \in calls[c].sawAssets
  <2> DEFINE seen == calls[c].sawAssets \union {a}
  <2>2. calls'[c] = [calls[c] EXCEPT !.sawAssets = seen, !.restored = back]
    BY <1>6, <2>1 DEF ChangeAssets
  <2>3. calls'[c].sawAssets = seen /\ calls'[c].restored = back
    BY <1>3, <2>2 DEF Call
  <2>4. /\ calls'[c].sawSource = calls[c].sawSource /\ calls'[c].step = calls[c].step
        /\ calls'[c].result = calls[c].result
    BY <1>3, <2>2 DEF Call
  <2>5. assets' = a /\ UNCHANGED source
    BY <1>6 DEF ChangeAssets
  <2>6. plan.assets \in calls'[c].sawAssets /\ calls'[c].check.digest \in calls'[c].sawSource
    BY <1>2, <1>5, <2>1, <2>3, <2>4 DEF Watching
  <2>7. calls'[c].restored \/
          /\ assets' = plan.assets => calls'[c].sawAssets = {plan.assets}
          /\ source'[Gen(c)] = calls'[c].check.digest =>
               calls'[c].sawSource = {calls'[c].check.digest}
    BY <1>2, <1>5, <2>1, <2>3, <2>4, <2>5 DEF Watching
  <2>8. calls'[c].step = "RECHECK" => calls'[c].result \in Verdicts(c)'
    BY <1>5, <2>1, <2>3, <2>4 DEF Watching, Verdicts
  <2> HIDE DEF back, seen
  <2> QED BY <1>3, <1>4, <2>6, <2>7, <2>8 DEF Watching
<1>7. ASSUME NEW d \in Digests, ChangeSource(d), Gen(c) = wf.gen PROVE Watching(c)'
  <2>1. Running(c)
    BY <1>1, <1>2, <1>7, SourceType DEF Changed, Running, At
  <2> DEFINE back == calls[c].restored \/ d \in calls[c].sawSource
  <2> DEFINE seen == calls[c].sawSource \union {d}
  <2>2. calls'[c] = [calls[c] EXCEPT !.sawSource = seen, !.restored = back]
    BY <1>7, <2>1 DEF ChangeSource
  <2>3. calls'[c].sawSource = seen /\ calls'[c].restored = back
    BY <1>3, <2>2 DEF Call
  <2>4. /\ calls'[c].sawAssets = calls[c].sawAssets /\ calls'[c].step = calls[c].step
        /\ calls'[c].result = calls[c].result
    BY <1>3, <2>2 DEF Call
  <2>5. source'[Gen(c)] = d /\ UNCHANGED assets
    BY <1>4, <1>7 DEF ChangeSource, TypeOK
  <2>6. plan.assets \in calls'[c].sawAssets /\ calls'[c].check.digest \in calls'[c].sawSource
    BY <1>2, <1>5, <2>1, <2>3, <2>4 DEF Watching
  <2>7. calls'[c].restored \/
          /\ assets' = plan.assets => calls'[c].sawAssets = {plan.assets}
          /\ source'[Gen(c)] = calls'[c].check.digest =>
               calls'[c].sawSource = {calls'[c].check.digest}
    BY <1>2, <1>5, <2>1, <2>3, <2>4, <2>5 DEF Watching
  <2>8. calls'[c].step = "RECHECK" => calls'[c].result \in Verdicts(c)'
    BY <1>5, <2>1, <2>3, <2>4 DEF Watching, Verdicts
  <2> HIDE DEF back, seen
  <2> QED BY <1>3, <1>4, <2>6, <2>7, <2>8 DEF Watching
<1>8. ASSUME calls'[c] = calls[c], assets' = assets, source'[Gen(c)] = source[Gen(c)]
      PROVE  Watching(c)'
  BY <1>1, <1>2, <1>3, <1>4, <1>5, <1>8 DEF Watching, Running, At, Verdicts
<1>9. ASSUME NEW d \in Digests, ChangeSource(d), Gen(c) # wf.gen PROVE Watching(c)'
  <2>1. calls'[c] = calls[c] /\ assets' = assets /\ source'[Gen(c)] = source[Gen(c)]
    BY <1>4, <1>9 DEF ChangeSource, TypeOK
  <2> QED BY <1>8, <2>1
<1>10. CASE Serve(c) /\ ServeForm(c) /\ assets' = assets /\ source'[Gen(c)] = source[Gen(c)]
  <2>1. CASE /\ calls[c].step = "LAUNCH" /\ LeasesCurrent(c)
             /\ calls'[c] = [calls[c] EXCEPT !.step = "CHECK", !.sawAssets = {assets},
                                             !.sawSource = {source[Gen(c)]}]
    <3>1. assets = plan.assets /\ source[Gen(c)] = calls[c].check.digest
      BY <1>3, <1>4, <2>1 DEF LeasesCurrent, SourceCurrent, AssetsCurrent
    <3>2. /\ calls'[c].step = "CHECK" /\ calls'[c].sawAssets = {assets}
          /\ calls'[c].sawSource = {source[Gen(c)]}
      BY <1>3, <2>1 DEF Call
    <3> QED BY <1>2, <1>3, <1>4, <3>1, <3>2 DEF Watching
  <2>2. ASSUME calls[c].step = "CHECK", NEW result \in Verdicts(c),
               calls'[c] = [calls[c] EXCEPT !.result = result, !.step = "RECHECK"]
        PROVE  Watching(c)'
    <3>1. Running(c)
      BY <1>2, <2>2 DEF Running, At
    <3>2. /\ calls'[c].result = result /\ calls'[c].sawAssets = calls[c].sawAssets
          /\ calls'[c].sawSource = calls[c].sawSource /\ calls'[c].restored = calls[c].restored
      BY <1>3, <2>2 DEF Call
    <3>3. Verdicts(c)' = Verdicts(c)
      BY <3>2 DEF Verdicts
    <3> QED BY <1>2, <1>3, <1>4, <1>5, <1>10, <2>2, <3>1, <3>2, <3>3 DEF Watching
  <2>3. ASSUME NEW s \in NextStep, calls'[c] = [calls[c] EXCEPT !.step = s[2]] PROVE FALSE
    <3>1. calls'[c].step = s[2]
      BY <1>3, <2>3 DEF Call
    <3> QED BY <1>1, <3>1 DEF NextStep
  <2>4. CASE \/ \E failure \in Failures :
                  calls'[c] = [calls[c] EXCEPT !.failure = failure, !.step = "FINAL"]
             \/ calls'[c] = [calls[c] EXCEPT !.result = "INVOCATION_FAILED", !.step = "REASSERT"]
    BY <1>1, <1>3, <2>4 DEF Call
  <2> QED BY <1>1, <1>10, <2>1, <2>2, <2>3, <2>4 DEF ServeForm
<1>11. CASE assets' = assets /\ source'[Gen(c)] = source[Gen(c)]
           /\ ~(\E a \in Contents : ChangeAssets(a)) /\ ~(\E d \in Digests : ChangeSource(d))
  BY <1>1, <1>8, <1>10, <1>11, OneCall
<1> QED BY <1>4, <1>6, <1>7, <1>9, <1>11, FilesStep

LEMMA Decided ==
  ASSUME Core, Watched, NEW c \in Calls, At(c, "RECHECK"), OfPlan(c), LeasesCurrent(c)
  PROVE  Verdict(c)
<1>1. Running(c) /\ calls[c] # None /\ calls[c].step = "RECHECK"
  BY DEF Running, At
<1>2. Watching(c) /\ plan # None /\ gens[Gen(c)].frozen = calls[c].check.digest
  BY <1>1, CallBinds DEF Watched
<1>3. assets = plan.assets /\ source[Gen(c)] = calls[c].check.digest
  BY <1>2 DEF LeasesCurrent, SourceCurrent, AssetsCurrent
<1>4. CASE ~calls[c].restored
  <2>1. calls[c].sawAssets = {plan.assets} /\ calls[c].sawSource = {calls[c].check.digest}
    BY <1>2, <1>3, <1>4 DEF Watching
  <2>2. calls[c].result \in Verdicts(c)
    BY <1>1, <1>2 DEF Watching
  <2> QED BY <2>1, <2>2 DEF Verdicts, Verdict
<1> QED BY <1>4 DEF Verdict

LEMMA JudgedStep == ASSUME Core, Watched, Judged, Next PROVE Judged'
<1> USE DEF Core
<1> SUFFICES ASSUME NEW c \in Calls, calls'[c] # None, Judging(c)' PROVE Verdict(c)'
  BY DEF Judged
<1>1. calls[c] # None /\ calls'[c].check = calls[c].check
  BY CallsStep DEF Judging
<1>2. OfPlan(c) /\ calls[c] \in Call
  BY <1>1, CallType DEF OfPlan, Judging
<1>3. plan' = plan
  BY <1>1, <1>2, CallOfPlan
<1>4. CASE calls'[c] = calls[c]
  BY <1>1, <1>2, <1>3, <1>4 DEF Judged, Judging, Verdict
<1>5. CASE Serve(c) /\ ServeForm(c)
  <2>1. ASSUME NEW failure \in Failures,
               calls'[c] = [calls[c] EXCEPT !.failure = failure, !.step = "FINAL"]
        PROVE  Verdict(c)'
    BY <1>2, <2>1 DEF Call, Judging, Failures
  <2>2. ASSUME NEW s \in NextStep, calls[c].step = s[1],
               calls'[c] = [calls[c] EXCEPT !.step = s[2]],
               s[1] = "RECHECK" => LeasesCurrent(c)
        PROVE  Verdict(c)'
    <3>1. /\ calls'[c].step = s[2] /\ calls'[c].failure = calls[c].failure
          /\ calls'[c].result = calls[c].result /\ calls'[c].restored = calls[c].restored
      BY <1>2, <2>2 DEF Call
    <3>2. s[1] \in {"RECHECK", "REASSERT", "REOBSERVE", "FINAL"}
      BY <3>1 DEF NextStep, Judging
    <3>3. ASSUME calls[c].step = "RECHECK" PROVE Verdict(c)
      <4>1. At(c, "RECHECK") /\ LeasesCurrent(c)
        BY <1>1, <2>2, <3>3 DEF At
      <4> QED BY <1>2, <4>1, Decided
    <3>4. ASSUME calls[c].step \in {"REASSERT", "REOBSERVE", "FINAL"} PROVE Verdict(c)
      <4>1. calls[c].failure = None
        BY <3>1 DEF Judging
      <4>2. Judging(c)
        BY <1>2, <3>4, <4>1 DEF Judging
      <4> QED BY <1>1, <4>2 DEF Judged
    <3>5. Verdict(c)
      BY <2>2, <3>2, <3>3, <3>4
    <3> QED BY <1>1, <1>3, <3>1, <3>5 DEF Verdict
  <2>3. CASE calls'[c].step \in {"CHECK", "RECHECK"}
    BY <2>3 DEF Judging
  <2>4. CASE calls'[c] = [calls[c] EXCEPT !.result = "INVOCATION_FAILED", !.step = "REASSERT"]
    BY <1>2, <2>4 DEF Call, Verdict
  <2>5. CASE \/ calls'[c] = [calls[c] EXCEPT !.step = "CHECK", !.sawAssets = {assets},
                                             !.sawSource = {source[Gen(c)]}]
             \/ \E result \in Verdicts(c) :
                  calls'[c] = [calls[c] EXCEPT !.result = result, !.step = "RECHECK"]
    BY <1>2, <2>3, <2>5 DEF Call
  <2> QED BY <1>5, <2>1, <2>2, <2>4, <2>5 DEF ServeForm
<1>6. CASE (\E a \in Contents : ChangeAssets(a)) \/ (\E d \in Digests : ChangeSource(d))
  <2>1. calls'[c].step = calls[c].step
    BY <1>1, <1>6, AssetsType, SourceType DEF Changed
  <2>2. ~Running(c)
    BY <2>1 DEF Judging, Running, At
  <2>3. calls'[c] = calls[c]
    BY <1>6, <2>2 DEF ChangeAssets, ChangeSource
  <2> QED BY <1>4, <2>3
<1> QED BY <1>4, <1>5, <1>6, OneCall DEF Judging

-----------------------------------------------------------------------------
(* What is recorded, and what closes the Goal *)

LEMMA EvidenceBinds ==
  ASSUME Core, NEW e \in evidence
  PROVE  /\ e.check \in Check /\ e.check.gen \in Generations /\ checks[e.check.gen] = e.check
         /\ Started /\ gens[e.check.gen].frozen = e.check.digest /\ e.check.digest # None
         /\ plan # None => e.check.lease = ReadLease(e.check.gen)
         /\ e.check.lease # None <=> plan # None
<1>1. e.check \in Check /\ e.check.gen \in Generations /\ checks[e.check.gen] = e.check
  BY DEF Core, OfChecks, TypeOK, Evidence, Check
<1>2. checks[e.check.gen] # None
  BY <1>1
<1> QED BY <1>1, <1>2, HasCheck, CheckType DEF Core

LEMMA OraclesStep == ASSUME Core, Judged, Oracles, Next PROVE Oracles'
<1> USE DEF Core
<1> DEFINE Right(e) ==
      e.check.lease # None /\ ~e.restored /\ e.result # "RUNNER_ERROR" =>
        e.result = Oracle[plan.assets][e.check.digest]
<1>1. ASSUME NEW e \in evidence PROVE Right(e) /\ (e.check.lease # None => plan' = plan)
  BY <1>1, EvidenceBinds, KeptStep DEF Oracles, Kept
<1>2. ASSUME NEW c \in Calls, CommitRun(c), calls[c].failure = None
      PROVE  Right(NewEvidence(c)) /\ (calls[c].check.lease # None => plan' = plan)
  <2> SUFFICES ASSUME calls[c].check.lease # None PROVE Right(NewEvidence(c)) /\ plan' = plan
    BY DEF NewEvidence
  <2>1. calls[c] # None /\ calls[c].step = "COMMIT" /\ OfPlan(c)
    BY <1>2 DEF CommitRun, At, OfPlan
  <2>2. Verdict(c)
    BY <1>2, <2>1 DEF Judged, Judging
  <2>3. calls[c].result \in Results
    BY <1>2, <2>1 DEF Stepped, At
  <2>4. /\ NewEvidence(c).result = calls[c].result /\ NewEvidence(c).check = calls[c].check
        /\ NewEvidence(c).restored = calls[c].restored
    BY DEF NewEvidence
  <2>5. Right(NewEvidence(c))
    BY <2>2, <2>3, <2>4 DEF Verdict, Results
  <2> QED BY <2>1, <2>5, CallOfPlan
<1>3. ASSUME NEW e \in evidence' PROVE Right(e) /\ (e.check.lease # None => plan' = plan)
  <2>1. CASE UNCHANGED evidence
    BY <1>1, <1>3, <2>1
  <2>2. ASSUME NEW c \in Calls, CommitRun(c), calls[c].failure = None,
               evidence' = evidence \union {NewEvidence(c)}
        PROVE  Right(e) /\ (e.check.lease # None => plan' = plan)
    <3>1. NewEvidence(c).check = calls[c].check
      BY DEF NewEvidence
    <3> HIDE DEF Right
    <3> QED BY <1>1, <1>2, <1>3, <2>2, <3>1
  <2> HIDE DEF Right
  <2> QED BY <2>1, <2>2, ResultsStep
<1> QED BY <1>3 DEF Oracles

(* The steps of the Workflow's phase, status and present generation. *)
LEMMA WorkflowStep ==
  ASSUME Core, Next
  PROVE  \/ UNCHANGED wf
         \/ wf'.phase = wf.phase /\ wf'.gen = wf.gen /\ wf'.status # "CLOSED"
         \/ wf'.phase \in {"WORK", "EVIDENCE_BUILD"} /\ wf'.status # "CLOSED"
         \/ RecordSet /\ wf'.gen = wf.gen /\ wf'.status # "CLOSED"
         \/ \E p \in Procs : Close(p) /\ wf'.gen = wf.gen /\ wf'.phase = "CLOSEOUT"
<1> USE DEF Core
<1> DEFINE Stays == wf'.phase = wf.phase /\ wf'.gen = wf.gen /\ wf'.status # "CLOSED"
<1>1. ASSUME NEW status \in Statuses \ {"CLOSED"}, SetStatus(status) PROVE Stays
  BY <1>1, StatusType
<1>2. ASSUME NEW p \in Procs,
             \/ \E proposed \in SUBSET Criteria, inspected \in Contents :
                  Start(p, proposed, inspected)
             \/ Work(p) \/ BeginAttempt(p) \/ FailIntegrity(p)
      PROVE  Stays
  BY <1>1, <1>2 DEF Start, Work, BeginAttempt, FailIntegrity, Statuses
<1>3. CASE BeginWork \/ Cancel \/ \E status \in {"READY", "BLOCKED"} : Interrupt(status)
  BY <1>1, <1>3 DEF BeginWork, Cancel, Interrupt, Statuses
<1>4. ASSUME NEW c \in Calls, Serve(c) PROVE UNCHANGED wf \/ Stays
  <2>1. CASE RecordOutcome(c)
    <3>1. calls[c].failure \in Failures \union {None}
      BY <1>4, ServeMoves, CallType DEF Moves, Call
    <3> QED BY <1>1, <2>1, <3>1 DEF RecordOutcome, Statuses, Failures
  <2> QED BY <1>4, <2>1, InvokedForm DEF Invoked, CommitRun, rows
<1>5. ASSUME NEW d \in Digests, Freeze(d)
      PROVE  wf'.phase \in {"WORK", "EVIDENCE_BUILD"} /\ wf'.status # "CLOSED"
  BY <1>5 DEF Freeze, Ready, Advance, TypeOK, Workflow
<1>6. CASE RecordSet
  <2>1. wf'.gen = wf.gen /\ wf'.status # "CLOSED"
    BY <1>6 DEF RecordSet, Ready, Advance, TypeOK, Workflow
  <2> QED BY <1>6, <2>1
<1>7. ASSUME NEW p \in Procs, Close(p) PROVE wf'.gen = wf.gen /\ wf'.phase = "CLOSEOUT"
  BY <1>7 DEF Close, Advance, TypeOK, Workflow
<1>8. ASSUME NEW p \in Procs, Repair(p)
      PROVE  wf'.phase \in {"WORK", "EVIDENCE_BUILD"} /\ wf'.status # "CLOSED"
  BY <1>8 DEF Repair, Accepting, Ready, Advance, TypeOK, Workflow
<1>9. CASE StartupRecovery \/ Resume
  BY <1>9 DEF StartupRecovery, Resume, Advance, TypeOK, Workflow
<1>10. ASSUME NEW p \in Procs,
             \/ Configure(p) \/ Evaluate(p) \/ Crash(p)
             \/ \E c \in Calls, k \in Criteria : BeginRun(c, p, k)
      PROVE  UNCHANGED wf
  BY <1>10 DEF Configure, Evaluate, Crash, BeginRun, rows
<1>11. CASE (\E a \in Contents : ChangeAssets(a)) \/ (\E d \in Digests : ChangeSource(d))
  BY <1>11 DEF ChangeAssets, ChangeSource, rows
<1> HIDE DEF Stays
<1>12. \/ UNCHANGED wf \/ Stays \/ RecordSet \/ (\E p \in Procs : Close(p))
       \/ (wf'.phase \in {"WORK", "EVIDENCE_BUILD"} /\ wf'.status # "CLOSED")
  BY <1>2, <1>3, <1>4, <1>5, <1>8, <1>9, <1>10, <1>11 DEF Next, Stays
<1>13. RecordSet => wf'.gen = wf.gen /\ wf'.status # "CLOSED"
  BY DEF RecordSet, Ready, Advance, TypeOK, Workflow
<1> QED BY <1>7, <1>12, <1>13 DEF Stays

LEMMA CollectedStep == ASSUME Core, Collected, Next PROVE Collected'
<1> USE DEF Core
<1>1. wf.gen \in Generations
  BY DEF TypeOK, Workflow
<1>2. CASE RecordSet /\ wf'.gen = wf.gen
  <2>1. sets'[wf.gen] = EvidenceOf(wf.gen) /\ CriteriaCovered
    BY <1>1, <1>2 DEF RecordSet, TypeOK
  <2> QED BY <1>2, <2>1 DEF Collected, CriteriaCovered, Covered
<1>3. CASE UNCHANGED <<sets, wf>> \/ (UNCHANGED sets /\ wf'.phase = wf.phase /\ wf'.gen = wf.gen)
  BY <1>3 DEF Collected
<1>4. ASSUME NEW p \in Procs, Close(p), wf'.gen = wf.gen PROVE Collected'
  <2>1. wf.phase = "FINAL_VERIFY" /\ UNCHANGED sets
    BY <1>4 DEF Close, Accepting, Ready
  <2> QED BY <1>4, <2>1 DEF Collected
<1>5. CASE wf'.phase \in {"WORK", "EVIDENCE_BUILD"}
  BY <1>5 DEF Collected
<1>6. RecordSet => wf'.version = wf.version + 1 /\ wf'.gen = wf.gen
  BY DEF RecordSet, Advance, TypeOK, Workflow
<1> QED BY <1>2, <1>3, <1>4, <1>5, <1>6, WorkflowStep, ResultsStep

LEMMA PassedStep == ASSUME Core, Passed, Next PROVE Passed'
<1> USE DEF Core
<1> SUFFICES ASSUME wf'.status = "CLOSED"
             PROVE  wf'.phase = "CLOSEOUT" /\ \A e \in sets'[wf'.gen] : e.result = "PASS"
  BY DEF Passed
<1>1. wf.gen \in Generations
  BY DEF TypeOK, Workflow
<1>2. CASE UNCHANGED wf
  <2>1. RecordSet => wf'.version = wf.version + 1
    BY DEF RecordSet, Advance, TypeOK, Workflow
  <2>2. wf.version # wf.version + 1 /\ wf'.version = wf.version
    BY <1>2 DEF TypeOK, Workflow
  <2>3. UNCHANGED sets
    BY <2>1, <2>2, ResultsStep
  <2> QED BY <1>2, <2>3 DEF Passed
<1>3. ASSUME NEW p \in Procs, Close(p), wf'.gen = wf.gen
      PROVE  \A e \in sets'[wf'.gen] : e.result = "PASS"
  <2>1. Outcome(wf.gen) = "ACCEPT" /\ UNCHANGED sets
    BY <1>3 DEF Close, Consumed, CurrentDecision
  <2>2. \A e \in sets[wf.gen] : e.result \notin {"RUNNER_ERROR", "FAIL"}
    BY <2>1 DEF Outcome
  <2>3. \A e \in sets[wf.gen] : e.result \in Results
    BY <1>1 DEF TypeOK, Evidence
  <2> QED BY <1>3, <2>1, <2>2, <2>3 DEF Results
<1> QED BY <1>2, <1>3, WorkflowStep

LEMMA BindingStep == ASSUME Core, Binding, Next PROVE Binding'
<1> USE DEF Core
<1>1. wf.version \in 1..MaxVersion /\ plan \in Plan \union {None} /\ contexts \subseteq Context
  BY DEF TypeOK, Workflow
<1>2. wf'.version \in Nat /\ wf'.version >= wf.version
  BY VersionStep, <1>1
<1>3. ASSUME UNCHANGED <<plan, contexts>> PROVE RetainedPlan' /\ RetainedContexts'
  <2>1. plan # None => plan.version \in Nat /\ plan.version <= wf.version
    BY <1>1 DEF Plan, Binding, RetainedPlan
  <2>2. plan # None => plan.version <= wf'.version
    BY <1>1, <1>2, <2>1
  <2> QED BY <1>3, <2>2 DEF Binding, RetainedPlan, RetainedContexts
<1>4. ASSUME CompileContext(plan), UNCHANGED plan PROVE RetainedPlan' /\ RetainedContexts'
  <2>1. contexts' = contexts \union {[version |-> wf'.version, plan |-> plan]}
    BY <1>4 DEF CompileContext
  <2>2. plan # None => plan.version \in Nat /\ plan.version <= wf.version
    BY <1>1 DEF Plan, Binding, RetainedPlan
  <2>3. plan # None => plan.version <= wf'.version
    BY <1>1, <1>2, <2>2
  <2>4. RetainedPlan'
    BY <1>4, <2>1, <2>3 DEF Binding, RetainedPlan
  <2>5. RetainedContexts'
    BY <1>4, <2>1 DEF Binding, RetainedContexts
  <2> QED BY <2>4, <2>5
<1>5. ASSUME NEW p \in Procs, NEW proposed \in SUBSET Criteria, NEW inspected \in Contents,
             Start(p, proposed, inspected)
      PROVE  RetainedPlan' /\ RetainedContexts'
  <2>1. plan = None /\ contexts = {} /\ CompileContext(plan')
    BY <1>5 DEF Start, Unstarted
  <2>2. contexts' = {[version |-> wf'.version, plan |-> plan']}
    BY <2>1 DEF CompileContext
  <2>3. plan' # None => plan'.version = wf'.version /\ plan'.criteria = Criteria
    BY <1>5, <2>1 DEF Start, LockPlan, ProposalCovers
  <2>4. RetainedPlan'
    BY <1>2, <2>2, <2>3 DEF RetainedPlan
  <2>5. RetainedContexts'
    BY <2>2 DEF RetainedContexts
  <2> QED BY <2>4, <2>5
<1>6. RetainedPlan' /\ RetainedContexts'
  BY <1>3, <1>4, <1>5, Writers DEF Binding, BeginWork
<1>7. RetainedDecisions'
  <2>1. CASE Started
    BY <2>1, PlanKept, Writers DEF Binding, RetainedDecisions, Evaluate, CurrentDecision
  <2>2. CASE ~Started
    BY <2>2, Writers DEF Unstarted, RetainedDecisions, Evaluate, Accepting, Ready
  <2> QED BY <2>1, <2>2
<1> QED BY <1>6, <1>7 DEF Binding

-----------------------------------------------------------------------------
(* The theorems *)

LEMMA InvInit == ASSUME Init PROVE Inv
<1>1. wf \in Workflow /\ wf.gen = 1 /\ wf.version = 1 /\ wf.phase = "WORK" /\ wf.status = "READY"
  BY DEF Init, Workflow, Statuses
<1>2. gens \in [Generations -> Generation]
  BY DEF Init, Generation
<1>3. calls = [c \in Calls |-> None] /\ plan = None /\ evidence = {}
  BY DEF Init
<1>4. TypeOK
  <2>1. /\ contexts \subseteq Context /\ evidence \subseteq Evidence /\ decisions \subseteq Decision
        /\ checks \in [Generations -> Check \union {None}]
        /\ sets \in [Generations -> SUBSET Evidence]
    BY DEF Init
  <2>2. assets \in Contents /\ source \in [Generations -> Digests \union {None}]
    BY DEF Init
  <2>3. /\ session \in [Procs -> SUBSET Generations] /\ calls \in [Calls -> Call \union {None}]
        /\ launches \in [Generations -> Nat] /\ disturbances \in 0..MaxDisturbances
    BY DEF Init
  <2> QED BY <1>1, <1>2, <1>3, <2>1, <2>2, <2>3 DEF TypeOK
<1>5. Identified
  BY <1>1 DEF Init, Identified
<1>6. Unstarted /\ Configured /\ OfChecks
  BY DEF Init, Unstarted, Configured, OfChecks, EvidenceOf
<1>7. Stepped /\ Watched /\ Judged
  BY <1>3 DEF Stepped, Watched, Judged, Running, At
<1>8. OnePlace /\ Oracles /\ Collected /\ Passed
  BY <1>1, <1>3 DEF OnePlace, Oracles, Collected, Passed
<1>9. Binding
  BY DEF Init, Binding, RetainedPlan, RetainedContexts, RetainedDecisions
<1> QED BY <1>4, <1>5, <1>6, <1>7, <1>8, <1>9 DEF Inv, Core

LEMMA InvStep == ASSUME Inv, [Next]_vars PROVE Inv'
<1>1. CASE Next
  BY <1>1, CoreStep, OnePlaceStep, WatchedStep, JudgedStep, OraclesStep, CollectedStep,
     PassedStep, BindingStep DEF Inv
<1>2. CASE UNCHANGED vars
  <2>1. /\ UNCHANGED <<wf, gens, plan, contexts, checks, evidence, sets, decisions>>
        /\ UNCHANGED <<assets, source, session, calls, launches, disturbances>>
    BY <1>2 DEF vars, rows, files
  <2>2. TypeOK' /\ Identified' /\ Unstarted' /\ Configured' /\ OfChecks' /\ Stepped'
    BY <2>1 DEF Inv, Core, TypeOK, Identified, Unstarted, Configured, OfChecks, Stepped,
         Started, CheckOf, ReadLease, EvidenceOf, Gen, At
  <2>3. OnePlace' /\ Watched' /\ Judged'
    BY <2>1 DEF Inv, OnePlace, Placed, Watched, Watching, Judged, Judging, Verdict,
         Verdicts, Running, OfPlan, Unlaunched, Gen, At
  <2>4. Oracles' /\ Collected' /\ Passed' /\ Binding'
    BY <2>1 DEF Inv, Oracles, Collected, Passed, Binding, RetainedPlan, RetainedContexts,
         RetainedDecisions
  <2> QED BY <2>2, <2>3, <2>4 DEF Inv, Core
<1> QED BY <1>1, <1>2

LEMMA InvInvariant == Spec => []Inv
BY InvInit, InvStep, PTL DEF Spec

(* Rows, sessions and calls keep the shape the code gives them. *)
THEOREM TypeCorrect == Spec => []TypeOK
<1>1. Inv => TypeOK
  BY DEF Inv, Core
<1> QED BY <1>1, InvInvariant, PTL

(* The lease of a protected generation is good for one execution, however     *)
(* many kernels, requests and crashes contend for it, and while a session     *)
(* holds it no one else does.                                                 *)
THEOREM LeaseUsedOnce == Spec => []SingleInvocation
<1>1. Inv => SingleInvocation
  BY DEF Inv, OnePlace, Placed, SingleInvocation
<1> QED BY <1>1, InvInvariant, PTL

(* What is recorded of a protected Check, and what closes the Goal, is what   *)
(* the contents locked at Start say of the frozen tree, whenever the files    *)
(* were changed, unless they were changed and changed back under the runner.  *)
THEOREM LockedContentsDecide == Spec => []OracleDecides
<1>1. ASSUME Inv PROVE OracleDecides
  <2>0. Core /\ Oracles /\ Collected /\ Passed
    BY <1>1 DEF Inv
  <2>1. ASSUME NEW e \in evidence, e.check.lease # None, ~e.restored,
               e.result # "RUNNER_ERROR"
        PROVE  e.result = Oracle[e.check.lease.plan.assets][e.check.digest]
    <3>1. e.check.lease.plan = plan
      <4>1. e.check.lease = ReadLease(e.check.gen)
        BY <2>0, <2>1, EvidenceBinds
      <4> QED BY <4>1 DEF ReadLease
    <3> QED BY <2>0, <2>1, <3>1 DEF Oracles
  <2>2. ASSUME wf.status = "CLOSED", plan # None, NEW k \in Criteria
        PROVE  \E e \in sets[wf.gen] :
                 /\ e.criterion = k /\ e.result = "PASS" /\ e.check.lease = ReadLease(wf.gen)
                 /\ e.restored \/ Oracle[plan.assets][gens[wf.gen].frozen] = "PASS"
    <3>1. PICK e \in sets[wf.gen] : e.criterion = k /\ e.result = "PASS"
      BY <2>0, <2>2 DEF Collected, Passed
    <3>2. e \in evidence /\ e.check.gen = wf.gen
      BY <2>0, <3>1 DEF Core, TypeOK, Workflow, OfChecks, EvidenceOf
    <3>3. /\ e.check.lease = ReadLease(wf.gen) /\ e.check.lease # None
          /\ gens[wf.gen].frozen = e.check.digest
      BY <2>0, <2>2, <3>2, EvidenceBinds DEF ReadLease
    <3>4. e.restored \/ Oracle[plan.assets][gens[wf.gen].frozen] = "PASS"
      <4>1. e.check.lease.plan = plan
        BY <3>3 DEF ReadLease
      <4> QED BY <2>0, <3>1, <3>2, <3>3, <4>1 DEF Oracles
    <3> QED BY <3>1, <3>3, <3>4
  <2> QED BY <2>1, <2>2 DEF OracleDecides
<1> QED BY <1>1, InvInvariant, PTL

(* Whatever kernels with and without the protected composition do to one      *)
(* Workflow in turn, the audit of its plan, contexts, Checks, results, sets   *)
(* and decisions accepts what they leave.                                     *)
THEOREM ReopeningAccepts == Spec => []ProtectedAuditAccepts
<1>1. ASSUME Inv PROVE ProtectedAuditAccepts
  <2>0. Core /\ Binding
    BY <1>1 DEF Inv
  <2>1. RetainedChecks
    BY <2>0, HasCheck, CheckType DEF Core, RetainedChecks
  <2>2. RetainedEvidence
    BY <2>0, EvidenceBinds DEF RetainedEvidence
  <2>3. RetainedSets
    <3> SUFFICES ASSUME plan # None, NEW g \in Generations, NEW e \in sets[g]
                 PROVE  e.check.lease # None /\ e.check.lease.plan = plan
      BY DEF RetainedSets
    <3>1. e \in evidence
      BY <2>0 DEF Core, OfChecks, EvidenceOf
    <3>2. e.check.lease = ReadLease(e.check.gen) /\ e.check.lease # None
      BY <2>0, <3>1, EvidenceBinds
    <3> QED BY <3>2 DEF ReadLease
  <2> QED BY <2>0, <2>1, <2>2, <2>3 DEF ProtectedAuditAccepts, Binding
<1> QED BY <1>1, InvInvariant, PTL
=============================================================================
