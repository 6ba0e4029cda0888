--------------------------- MODULE WorkflowDrive ---------------------------
(***************************************************************************)
(* The Workflow driver: the loop that carries a Goal from one command of   *)
(* the kernel to the next until there is nothing it may do.  Each process  *)
(* of Procs is one invocation of the product at a time: it opens the data  *)
(* home, which reconciles the RUNNING workflow it finds, issues one Goal   *)
(* command, drives the Goal, and exits; its kernel, with the Attempts it   *)
(* owns and its verification session, dies with it.                        *)
(*                                                                         *)
(* A turn of the loop loads the authority and then acts on what it loaded, *)
(* and other processes move in between: the kernel refuses a command whose *)
(* expected version is no longer the Workflow's.                           *)
(***************************************************************************)
EXTENDS CandidateWorkspace

CONSTANTS
  Base,            \* what the project's tree holds when a Candidate is prepared
  MaxOperations,   \* the driver's operation limit (128 unless composed otherwise)
  MaxInvocations,  \* bound: how many times the product is started
  MaxTampers,      \* bound: changes of a tree nobody holds a lease to write
  MaxFailures      \* bound: Attempts whose worker fails

ASSUME DriveAssumption == /\ Base \in Digests /\ MaxOperations \in Nat \ {0}
                          /\ MaxInvocations \in Nat /\ MaxTampers \in Nat
                          /\ MaxFailures \in Nat

ASSUME NoneIsNoStatus == None \notin RunStatuses   \* a drive that need not stop has no reason to

VARIABLES
  drive,        \* per process, its drive
  contextGen,   \* the generation the Context Manifest of each Attempt binds
  invocations,  \* how many processes were started
  tampers       \* how many trees were changed behind the workspace's back

driveVars == <<drive, contextGen, invocations, tampers>>
allVars == <<vars, records, driveVars>>

\* OUT: no process; OPEN: composed; LOOP: about to load; ACT: authority loaded;
\* DISPATCH: an owned worker-backed Attempt loaded; COMMAND, REPAIR: in a command
\* that observes; REFUSED: it committed nothing;
\* WORKER: a stream is read; DRAIN: its terminal event was admitted.
\* own: the next active Attempt loaded is this drive's; owned: the latest such;
\* prepared: the Attempt whose worker request the kernel has kept; tree: the
\* generation its worker may write; loaded, next: the version it acts on and the
\* operation it chose there.
Out == [at |-> "OUT", own |-> FALSE, owned |-> None, prepared |-> None,
        tree |-> None, operations |-> 0, loaded |-> 0, next |-> None]

At(p, place) == drive[p].at = place
Set(p, d) == drive' = [drive EXCEPT ![p] = d]
Goto(p, place) == Set(p, [drive[p] EXCEPT !.at = place])
\* One more operation is done; its drive loads the authority again.
Again(p, d) == Set(p, [d EXCEPT !.at = "LOOP", !.loaded = 0, !.next = None, !.operations = @ + 1])

Fresh(p) == drive[p].loaded = wf.version
Owns(p) == wf.status = "RUNNING" /\ wf.attempt = drive[p].owned

KeepControl == UNCHANGED <<vars, records, contextGen, invocations, tampers>>
KeepRest == UNCHANGED <<contextGen, invocations, tampers>>

-----------------------------------------------------------------------------
(* What the driver reads *)

\* lifecycleStop and acceptanceStop.
LifecycleStop == wf.status \in {"CLOSED", "CANCELLED", "BLOCKED", "FAILED"}
VersionDecision == {d \in decisions : d.version = wf.version /\ d.gen = wf.gen}
AcceptanceStop ==
  wf.phase = "FINAL_VERIFY" /\ \E d \in VersionDecision : d.outcome # "ACCEPT"
AuthoritativeStop ==
  IF LifecycleStop THEN wf.status
  ELSE IF AcceptanceStop THEN (CHOOSE d \in VersionDecision : TRUE).outcome
  ELSE None

PhaseAttempts == {a \in Attempts : attempts[a].status # "NONE"
                                   /\ attempts[a].phase = wf.phase}
\* Mutant: the Attempt of the rejected generation counts for its repair.
AnyPhaseAttemptCompleted ==
  \E a \in PhaseAttempts : /\ \A b \in PhaseAttempts : b <= a
                           /\ attempts[a].status = "RESULT_RECORDED"

PhaseAttemptCompleted ==
  \E a \in PhaseAttempts :
    /\ \A b \in PhaseAttempts : b <= a
    /\ attempts[a].status = "RESULT_RECORDED"
    /\ wf.phase = "IMPLEMENT" => contextGen[a] = wf.gen

NextUncoveredObligation(o) == ~Covered(o)

\* Mutant: the driver does not notice that no Check is configured.
NeverConfigures == FALSE

NeedsConfiguration == LocalCommand /\ wf.gen \notin checks

\* The session of this kernel, with a lease that still holds.
SessionCurrent(p) ==
  LocalCommand => /\ wf.gen \in checks /\ wf.gen \in session[p]
                  /\ ReaderCurrent(wf.gen)

\* The operation that executeReadyOperation picks.
ReadyOperation ==
  CASE wf.phase \in {"DISCOVERY", "PLAN", "IMPLEMENT"} ->
         IF PhaseAttemptCompleted THEN "TRANSITION" ELSE "BEGIN"
    [] wf.phase = "SOURCE_FREEZE" ->
         IF ActiveState("FROZEN") THEN "TRANSITION" ELSE "BEGIN"
    [] wf.phase = "EVIDENCE_BUILD" ->
         IF NeedsConfiguration THEN "CONFIGURE"
         ELSE IF ObligationsAccounted THEN "EVIDENCE_SET" ELSE "BEGIN"
    [] wf.phase = "FINAL_VERIFY" ->
         IF VersionDecision = {} THEN "EVALUATE" ELSE "CLOSE"
    [] OTHER -> "NONE"

\* A current command that the kernel or the workspace refuses nevertheless.
KernelRefuses(p) ==
  IF wf.status = "RUNNING"
  THEN \/ wf.phase = "EVIDENCE_BUILD" /\ ~SessionCurrent(p)
  ELSE LET next == drive[p].next IN
       \/ next = "BEGIN" /\ (\/ wf.phase = "EVIDENCE_BUILD" /\ ~SessionCurrent(p)
                            \/ ~RepairContextCurrent)
       \/ next = "CONFIGURE" /\ (wf.gen \in checks \/ ~MayRead(wf.gen))
       \/ next \in {"EVIDENCE_SET", "EVALUATE", "CLOSE"} /\ ~Observable(wf.gen)

-----------------------------------------------------------------------------
(* A process, its command and its end *)

OpenProcess(p) ==
  /\ At(p, "OUT") /\ invocations < MaxInvocations
  /\ \A q \in Procs : q < p => ~At(q, "OUT")  \* the names of processes are reused
  /\ invocations' = invocations + 1
  /\ Set(p, [Out EXCEPT !.at = "OPEN"])
  /\ IF wf.status = "RUNNING" THEN StartupRecovery ELSE UNCHANGED vars
  /\ UNCHANGED <<records, contextGen, tampers>>

\* The Attempt just begun binds the active generation in its Context Manifest.
BindContext(a) ==
  /\ contextGen' = [contextGen EXCEPT ![a] = wf.gen]
  /\ UNCHANGED <<invocations, tampers>>

StartCommand(p) ==
  /\ At(p, "OPEN")
  /\ \E a \in Attempts :
       /\ StartGoal(a) /\ BindContext(a)
       /\ Set(p, [drive[p] EXCEPT !.at = "LOOP", !.own = TRUE, !.prepared = a])
  /\ UNCHANGED records

\* The start command again: nothing is applied, and nothing is owned.
ReplayStart(p) ==
  At(p, "OPEN") /\ Started /\ Goto(p, "LOOP") /\ KeepControl

\* The inspector vouches for the tree without reading it, or finds no project.
ResumeCommand(p) ==
  /\ At(p, "OPEN") /\ RecoverableBlocker
  /\ \E available \in BOOLEAN :
       Advance([wf EXCEPT !.status =
         IF available /\ InspectablePhase /\ ~ContinuityBarrier THEN "READY" ELSE "BLOCKED"])
  /\ reconciled' = wf.version + 1
  /\ Goto(p, "LOOP")
  /\ UNCHANGED <<attempts, gens, checks, evidence, eligible, sets, decisions, closeout,
                 repairs, source, session, plan, records>>
  /\ KeepRest

RepairCommand(p) ==
  /\ At(p, "OPEN")
  /\ \E d \in decisions : ObserveConsumed(p, "REPAIR", d)
  /\ Goto(p, "REPAIR") /\ KeepRest

CommitRepair(p) ==
  /\ At(p, "REPAIR")
  /\ \/ CommitIntegrityFailure(p) /\ UNCHANGED records
     \/ \E g \in Generations : RepairWorkspace(p, g)
  /\ Goto(p, "LOOP") /\ KeepRest

\* The repair was refused: another version, or a parent with a lease still out.
RefuseRepair(p) ==
  /\ At(p, "REPAIR")
  /\ ~VersionCurrent(p) \/ ~Repairable(wf.gen)
  /\ AbandonCommand(p) /\ Set(p, Out) /\ KeepRest /\ UNCHANGED records

CancelCommand(p) ==
  /\ At(p, "OPEN") /\ CancelGoal /\ Set(p, Out) /\ KeepRest /\ UNCHANGED records

\* The drive returns and its process exits.
Stop(p) ==
  /\ Set(p, Out)
  /\ session' = [session EXCEPT ![p] = {}]
  /\ UNCHANGED <<store, source, plan, records>> /\ KeepRest

\* A process dies wherever it is; what it was told by the workspace stays out.
Die(p) ==
  /\ ~At(p, "OUT")
  /\ plan' = [plan EXCEPT ![p] = Idle]
  /\ session' = [session EXCEPT ![p] = {}]
  /\ Set(p, Out)
  /\ UNCHANGED <<store, source, records>> /\ KeepRest

-----------------------------------------------------------------------------
(* One turn of the loop *)

\* The reason a drive returns for instead of acting, None if there is none.
StopReason(p) ==
  LET d == drive[p] IN
  IF d.operations >= MaxOperations
  THEN IF AuthoritativeStop # None THEN AuthoritativeStop ELSE "OPERATION_LIMIT"
  ELSE IF d.own /\ wf.attempt = None THEN "INFRASTRUCTURE"
  ELSE IF LifecycleStop THEN wf.status
  ELSE IF wf.status = "RUNNING" /\ ~d.own /\ wf.attempt # d.owned THEN "ACTIVE_ATTEMPT"
  ELSE IF wf.status = "READY" /\ AcceptanceStop THEN AuthoritativeStop
  ELSE None

\* loadAuthority; the active Attempt it finds after beginning one is its own.
Load(p) ==
  /\ At(p, "LOOP")
  /\ IF StopReason(p) # None THEN Stop(p)
     ELSE /\ Set(p, [drive[p] EXCEPT
               !.own = FALSE, !.owned = IF drive[p].own THEN wf.attempt ELSE @,
               !.loaded = wf.version,
               !.next = IF wf.status = "READY" THEN ReadyOperation ELSE None,
               !.at = IF wf.status = "RUNNING" /\ WorkerPhase THEN "DISPATCH" ELSE "ACT"])
          /\ KeepControl

\* Mutant: a refused command is not counted and the loop goes on.
RetryRefused(p) ==
  At(p, "ACT") /\ (~Fresh(p) \/ KernelRefuses(p)) /\ Goto(p, "LOOP") /\ KeepControl

\* rejectedOperationSummary: a refused command ends the drive.
StopRefused(p) ==
  /\ At(p, "REFUSED") \/ (At(p, "ACT") /\ (~Fresh(p) \/ KernelRefuses(p)))
  /\ Stop(p)

Acting(p, operation) ==
  At(p, "ACT") /\ Fresh(p) /\ wf.status = "READY" /\ drive[p].next = operation

TransitionPhase(p) ==
  /\ Acting(p, "TRANSITION")
  /\ \/ (BeginPlanning \/ BeginCandidateFreeze \/ BeginEvidenceBuild) /\ UNCHANGED records
     \/ \E g \in Generations : PrepareWorkspace(g, Base)
  /\ Again(p, drive[p]) /\ KeepRest

BeginOwnAttempt(p) ==
  /\ Acting(p, "BEGIN") /\ ~KernelRefuses(p)
  /\ \E a \in Attempts :
       /\ BeginAttempt(p, a) /\ BindContext(a)
       /\ Again(p, [drive[p] EXCEPT !.own = TRUE, !.prepared = a])
  /\ UNCHANGED records

Configure(p) ==
  /\ Acting(p, "CONFIGURE") /\ ConfigureWorkspace(p)
  /\ Again(p, drive[p]) /\ KeepRest

\* The process dies between the lease it was issued and the commit of its Check.
DieConfiguring(p) ==
  /\ Acting(p, "CONFIGURE") /\ MayRead(wf.gen) /\ IssueReader(wf.gen)
  /\ session' = [session EXCEPT ![p] = {}]
  /\ Set(p, Out)
  /\ UNCHANGED <<store, source, plan>> /\ KeepRest

ObserveCandidate(p) ==
  /\ \/ \E cmd \in {"EVIDENCE_SET", "EVALUATE"} : Acting(p, cmd) /\ ObserveFrozen(p, cmd)
     \/ Acting(p, "CLOSE") /\ \E d \in VersionDecision : ObserveConsumed(p, "CLOSE", d)
  /\ Goto(p, "COMMAND") /\ KeepRest

CompleteSpecialAttempt(p) ==
  /\ At(p, "ACT") /\ Fresh(p) /\ Owns(p)
  /\ \/ ObserveFreeze(p)
     \/ /\ SessionCurrent(p)
        /\ \E o \in Obligations : NextUncoveredObligation(o) /\ VerifyWorkspace(p, o)
  /\ Goto(p, "COMMAND") /\ KeepRest

Proceed(p) ==
  /\ At(p, "COMMAND")
  /\ FreezeVerdict(p) \/ RecheckWorkspace(p)
  /\ UNCHANGED driveVars

CommitCommand(p) ==
  /\ At(p, "COMMAND")
  /\ \/ CompleteVerification(p)
     \/ /\ \/ CompleteSourceFreeze(p) \/ CommitEvidenceSet(p) \/ EvaluateAcceptance(p)
           \/ CloseAcceptedGoal(p) \/ CommitIntegrityFailure(p)
        /\ UNCHANGED records
  /\ Again(p, drive[p]) /\ KeepRest

RefuseCommand(p) ==
  /\ At(p, "COMMAND") /\ ~VersionCurrent(p)
  /\ AbandonCommand(p) /\ UNCHANGED records
  /\ Goto(p, "REFUSED") /\ KeepRest

-----------------------------------------------------------------------------
(* dispatchOwnedAttempt: a worker-backed Attempt *)

\* recordWorkerPortFailure, for an Attempt that is still the current one.
RecordPortFailure(p, failure) ==
  IF Owns(p) THEN RecordAttemptFailure(failure) ELSE UNCHANGED vars

\* The request is taken once from the kernel that began the Attempt, and the
\* claim needs the Attempt to be the current one.  In IMPLEMENT the leased worker
\* throws before its first event unless the workspace grants it the tree.
DispatchOwnedAttempt(p) ==
  LET d == [drive[p] EXCEPT !.prepared = None] IN
  /\ At(p, "DISPATCH")
  /\ IF drive[p].prepared # drive[p].owned \/ ~Owns(p) THEN Stop(p)
     ELSE /\ IF wf.phase # "IMPLEMENT"
             THEN Set(p, [d EXCEPT !.at = "WORKER"]) /\ UNCHANGED <<vars, records>>
             ELSE IF MayWrite(wf.gen)
             THEN /\ Set(p, [d EXCEPT !.at = "WORKER", !.tree = wf.gen])
                  /\ IssueWriter(wf.gen, d.owned) /\ UNCHANGED vars
             ELSE /\ RecordAttemptFailure("RECONCILE_FIRST")
                  /\ Again(p, d) /\ UNCHANGED records
          /\ KeepRest

\* The worker writes the tree for as long as its stream lives, lease or not;
\* what a freeze made read-only it cannot write.
WorkerWrites(p, content) ==
  /\ drive[p].tree # None /\ drive[p].tree = wf.gen
  /\ records[wf.gen].phase = "MUTABLE"
  /\ SourceChange(content)
  /\ UNCHANGED <<records, driveVars>>

MayFail == Cardinality({a \in Attempts : attempts[a].failure # None}) < MaxFailures

\* The admission of the worker's terminal event, while its Attempt is current.
AdmitTerminal(p) ==
  /\ At(p, "WORKER") /\ Owns(p)
  /\ RecordAttemptResult \/ (MayFail /\ RecordAttemptFailure("TRANSIENT"))
  /\ Goto(p, "DRAIN") /\ UNCHANGED records /\ KeepRest

LeaseGone(p) ==
  LET d == drive[p] IN d.tree # None /\ d.owned \notin records[d.tree].writers

\* The stream ends or throws, and its lease is given back; that throws too when
\* the lease was revoked.  An Attempt that has its result is done.
StreamEnds(p) ==
  /\ \/ At(p, "DRAIN") /\ UNCHANGED vars
     \/ /\ At(p, "WORKER") /\ (MayFail \/ ~Owns(p))
        /\ \/ ~LeaseGone(p) /\ RecordPortFailure(p, "NON_RETRYABLE")
           \/ RecordPortFailure(p, "RECONCILE_FIRST")
  /\ IF drive[p].tree = None THEN UNCHANGED records
                             ELSE ReleaseWriter(drive[p].tree, drive[p].owned)
  /\ Again(p, [drive[p] EXCEPT !.tree = None]) /\ KeepRest

-----------------------------------------------------------------------------
\* Somebody else writes a tree that no worker holds.
Tamper(content) ==
  /\ tampers < MaxTampers
  /\ SourceChange(content) /\ records[wf.gen].phase = "FROZEN"
  /\ tampers' = tampers + 1
  /\ UNCHANGED <<records, drive, contextGen, invocations>>

DriveInit ==
  /\ Init /\ RecordsInit
  /\ drive = [p \in Procs |-> Out]
  /\ contextGen = [a \in Attempts |-> None]
  /\ invocations = 0 /\ tampers = 0

\* What a process does by itself once it has its command.
Turn(p) ==
  \/ Load(p) \/ StopRefused(p) \/ TransitionPhase(p) \/ BeginOwnAttempt(p)
  \/ Configure(p) \/ ObserveCandidate(p) \/ CompleteSpecialAttempt(p)
  \/ Proceed(p) \/ CommitCommand(p) \/ RefuseCommand(p)
  \/ CommitRepair(p) \/ RefuseRepair(p)
  \/ DispatchOwnedAttempt(p) \/ AdmitTerminal(p) \/ StreamEnds(p)

DriveNext ==
  \/ \E p \in Procs :
       \/ OpenProcess(p)
       \/ StartCommand(p) \/ ReplayStart(p) \/ ResumeCommand(p) \/ RepairCommand(p)
       \/ CancelCommand(p)
       \/ Turn(p)
       \/ \E content \in Digests : WorkerWrites(p, content)
       \/ Die(p) \/ DieConfiguring(p)
  \/ \E content \in Digests : Tamper(content)

(* The loop of a live process goes on, and a worker's stream ends: the worker  *)
(* ports bound their turns in time.  Nobody has to start a process or a command*)
DriveSpec == DriveInit /\ [][DriveNext]_allVars /\ \A p \in Procs : WF_allVars(Turn(p))
-----------------------------------------------------------------------------
(* Properties *)

(* What the rows and the records agree on, whatever crashes and conflicts left *)
(* between the write of one and the commit of the other: a mutable row has an  *)
(* open tree; a row that was frozen has a closed one; only an open tree has    *)
(* writers and only a closed one readers.  And the record of a frozen row has  *)
(* the very manifest the row was frozen with, unless somebody else wrote a     *)
(* frozen tree: a freeze rewrites the record it read first, so one of a third  *)
(* process may end after the commit of another and vouch for what it scanned.  *)
RecordBindsAuthority ==
  \A g \in Generations :
    /\ gens[g].state = "MUTABLE" => records[g].phase = "MUTABLE"
    /\ gens[g].state \in {"FROZEN", "REJECTED", "ACCEPTED"} =>
         /\ records[g].phase \in {"FROZEN", "UNSAFE"}
         /\ records[g].phase = "FROZEN" /\ tampers = 0 =>
              records[g].manifest = gens[g].frozen
    /\ records[g].writers # {} => records[g].phase = "MUTABLE"
    /\ records[g].readers > 0 => records[g].phase \in {"FROZEN", "UNSAFE"}

(* No generation leaves IMPLEMENT on the strength of another generation's      *)
(* work: whatever was interrupted, resumed or repaired, a frozen tree is one   *)
(* that an IMPLEMENT Attempt given exactly that generation completed.          *)
FrozenAfterImplementation ==
  \A g \in Generations :
    gens[g].state \notin {"NONE", "MUTABLE"} =>
      \E a \in Attempts : /\ attempts[a].phase = "IMPLEMENT"
                          /\ attempts[a].status = "RESULT_RECORDED"
                          /\ contextGen[a] = g

(* Two processes never run workers in the same tree, although a process cannot *)
(* tell whether the one whose Attempt it interrupted is still running: the     *)
(* lease the first one holds keeps the second one's worker out.                *)
WritersExclusive ==
  \A p, q \in Procs : p # q /\ drive[p].tree = drive[q].tree => drive[p].tree = None

(* The driver never issues a command that the authority it loaded refuses: a   *)
(* drive that ends on a refusal was overtaken by another process, or stands    *)
(* before a verification session that died with its kernel, before a tree its  *)
(* record does not vouch for, or before a repair whose one Attempt was lost.   *)
MidVerification ==
  wf.phase = "EVIDENCE_BUILD" /\ wf.gen \in checks /\ ~ObligationsAccounted
RefusedOnlyWhenLost ==
  [][\A p \in Procs :
       StopRefused(p) /\ AuthoritativeStop = None =>
         ~Fresh(p) \/ MidVerification \/ ~MayRead(wf.gen) \/ ~RepairContextCurrent]_allVars

(* A drive ends: whenever its process may die it could also take a turn, and   *)
(* every turn counts an operation against the limit, comes nearer to the next  *)
(* one or returns.  With the fairness above it may leave the Goal anywhere but *)
(* never keeps its process.                                                    *)
Stage == [LOOP |-> 0, ACT |-> 1, REPAIR |-> 1, DISPATCH |-> 1, COMMAND |-> 2, WORKER |-> 2,
          REFUSED |-> 3, DRAIN |-> 3]
Live(p) == drive[p].at \in DOMAIN Stage
Advances(p) ==
  \/ drive'[p].at = drive[p].at
  \/ drive'[p].operations > drive[p].operations
  \/ Stage[drive'[p].at] > Stage[drive[p].at]
  \/ At(p, "REPAIR")  \* before the loop
DriveEnds ==
  [][\A p \in Procs :
       Live(p) => IF Live(p)' THEN Advances(p) ELSE ENABLED Turn(p)]_allVars
=============================================================================
