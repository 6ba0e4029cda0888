------------------------ MODULE WorkflowDriveProofs ------------------------
(* Theorems about WorkflowDrive: what the ownership records say of the rows,  *)
(* whose work a frozen tree holds, who may write a tree, and why a drive is   *)
(* refused, for any number of processes, generations and failures.            *)
EXTENDS WorkflowDrive, WorkflowControlProofs

USE DriveAssumption

Places == {"OUT", "OPEN", "LOOP", "ACT", "DISPATCH", "COMMAND", "REPAIR", "REFUSED",
           "WORKER", "DRAIN"}
Operations == {"TRANSITION", "BEGIN", "CONFIGURE", "EVIDENCE_SET", "EVALUATE", "CLOSE", "NONE"}
Drive == [at : Places, own : BOOLEAN, owned : Attempts \union {None},
          prepared : Attempts \union {None}, tree : Generations \union {None},
          operations : Nat, loaded : 0..MaxVersion, next : Operations \union {None}]

DriveType ==
  /\ records \in [Generations -> Record]
  /\ drive \in [Procs -> Drive]
  /\ contextGen \in [Attempts -> Generations \union {None}]
  /\ tampers \in Nat

-----------------------------------------------------------------------------
(* The invariant *)

Unmade == {"NONE", "MUTABLE"}
Closed == {"FROZEN", "UNSAFE"}

(* What row, record and tree of a generation have in common.  A tree that     *)
(* nobody tampered with is the one its record vouches for, and the one its    *)
(* row was frozen with.                                                       *)
Fits(g) ==
  LET r == records[g] IN
  /\ gens[g].state = "MUTABLE" => r.phase = "MUTABLE"
  /\ gens[g].state \in FrozenStates => r.phase \in Closed
  /\ r.writers # {} => r.phase = "MUTABLE"
  /\ r.readers > 0 => r.phase \in Closed
  /\ tampers = 0 =>
       /\ gens[g].state \in FrozenStates => source[g] = gens[g].frozen
       /\ r.phase = "FROZEN" => r.manifest = source[g]

(* A command in progress is about the generation of the version it read, and  *)
(* a freeze that ended stable has closed the record of the tree it scanned.   *)
Judged(p) == plan[p].cmd = "FREEZE" /\ plan[p].result # None /\ plan[p].first = plan[p].second
Planning(p) ==
  LET c == plan[p] IN
  /\ c.cmd # "NONE" => /\ c.version <= wf.version
                       /\ c.version = wf.version => c.gen = wf.gen
  /\ c.cmd = "FREEZE" => gens[c.gen].state \notin Unmade
  /\ Judged(p) => /\ records[c.gen].phase \in Closed
                  /\ tampers = 0 => source[c.gen] = c.second

(* The generation has a completed IMPLEMENT Attempt of its own.               *)
ImplementedBy(a, g) ==
  /\ attempts[a].phase = "IMPLEMENT" /\ attempts[a].status = "RESULT_RECORDED"
  /\ contextGen[a] = g
Implemented(g) == \E a \in Attempts : ImplementedBy(a, g)

(* A drive has loaded no later version than the present one; if it decided at *)
(* this very version to leave IMPLEMENT, the work is done.  A drive that may  *)
(* write an open tree holds the lease for it.                                 *)
Loaded(p) ==
  /\ drive[p].loaded <= wf.version
  /\ drive[p].loaded = wf.version /\ drive[p].next = "TRANSITION" /\ wf.status = "READY"
     /\ wf.phase = "IMPLEMENT" => Implemented(wf.gen)
Leased(p) ==
  LET g == drive[p].tree IN
  g # None =>
    /\ drive[p].at \in {"WORKER", "DRAIN"} /\ gens[g].state # "NONE"
    /\ gens[g].state = "MUTABLE" => drive[p].owned \in records[g].writers

Inventory == \A g \in Generations : Fits(g)
Commanding == \A p \in Procs : Planning(p)
Driving == \A p \in Procs : Loaded(p) /\ Leased(p)
DriveInvariant ==
  /\ Core /\ CandidateLineage /\ DriveType
  /\ Inventory /\ Commanding /\ Driving
  /\ FrozenAfterImplementation /\ WritersExclusive

(* What only the reasons of a refusal need: a verification Attempt runs only  *)
(* for a configured Check that still lacks a result, and so does a drive that *)
(* chose to begin one; a drive in a command acts on the version it loaded.    *)
Unverified == wf.gen \in checks /\ ~ObligationsAccounted
ChecksFirst ==
  LocalCommand =>
    /\ \A e \in evidence : e.kind = "TEST_RESULT" => e.gen \in checks
    /\ wf.status = "RUNNING" /\ wf.phase = "EVIDENCE_BUILD" => Unverified
Opening == wf.version = 1 => wf.phase = "DISCOVERY"
Choice(next) ==
  /\ next = "BEGIN" /\ wf.phase = "EVIDENCE_BUILD" /\ LocalCommand => Unverified
  /\ next = "CONFIGURE" =>
       LocalCommand /\ wf.phase = "EVIDENCE_BUILD" /\ ~ObligationsAccounted
Chosen(p) ==
  LET d == drive[p] IN
  /\ d.at = "COMMAND" => plan[p].version = d.loaded
  /\ d.at = "REFUSED" => d.loaded < wf.version
  /\ d.at = "ACT" /\ Fresh(p) /\ wf.status = "READY" => Choice(d.next)
RefusalInvariant == ChecksFirst /\ Opening /\ \A p \in Procs : Chosen(p)

-----------------------------------------------------------------------------
(* What a step of a drive does to the control rows: it is a step of a kernel, *)
(* or it changes what a process remembers, or it is a resumption without an   *)
(* inspection of the tree.                                                    *)

Forgets(p) ==
  /\ UNCHANGED <<store, source>>
  /\ session' \in [Procs -> SUBSET Generations]
  /\ UNCHANGED plan \/ Done(p)

Late(p) ==
  /\ ActiveState("FREEZING")
  /\ Begin(p, [Planned("FREEZE", source[wf.gen]) EXCEPT !.result = "PASS"])
  /\ Observed

Resumes ==
  /\ wf.status = "BLOCKED"
  /\ \E status \in {"READY", "BLOCKED"} : Advance([wf EXCEPT !.status = status])
  /\ reconciled' = wf.version + 1
  /\ UNCHANGED <<attempts, gens, checks, evidence, eligible, sets, decisions, closeout,
                 repairs, source, session, plan>>

Remembers == \E p \in Procs : Forgets(p) \/ Late(p)

LEMMA SessionEnds ==
  ASSUME TypeOK, NEW p \in Procs, session' = [session EXCEPT ![p] = {}]
  PROVE  session' \in [Procs -> SUBSET Generations]
  BY DEF TypeOK

LEMMA StopForgets == ASSUME TypeOK, NEW p \in Procs, Stop(p) PROVE Forgets(p)
  BY SessionEnds DEF Stop, Forgets

LEMMA ControlMoves ==
  ASSUME Core, DriveNext
  PROVE  Next \/ UNCHANGED vars \/ Remembers \/ Resumes
<1> USE DEF Core
<1>1. ASSUME NEW p \in Procs, OpenProcess(p) PROVE Next \/ UNCHANGED vars
  BY <1>1 DEF OpenProcess, Next
<1>2. ASSUME NEW p \in Procs, StartCommand(p) PROVE Next
  BY <1>2 DEF StartCommand, Next
<1>3. ASSUME NEW p \in Procs, ReplayStart(p) PROVE UNCHANGED vars
  BY <1>3 DEF ReplayStart, KeepControl
<1>4. ASSUME NEW p \in Procs, ResumeCommand(p) PROVE Resumes
  <2>1. PICK available \in BOOLEAN :
          Advance([wf EXCEPT !.status =
            IF available /\ InspectablePhase /\ ~ContinuityBarrier THEN "READY" ELSE "BLOCKED"])
    BY <1>4 DEF ResumeCommand
  <2>2. \E status \in {"READY", "BLOCKED"} : Advance([wf EXCEPT !.status = status])
    BY <2>1
  <2> QED BY <1>4, <2>2 DEF ResumeCommand, RecoverableBlocker, Resumes
<1>5. ASSUME NEW p \in Procs, RepairCommand(p) PROVE Next
  BY <1>5 DEF RepairCommand, ObserveConsumed, Next
<1>6. ASSUME NEW p \in Procs, CancelCommand(p) PROVE Next
  BY <1>6 DEF CancelCommand, Next
<1>7. ASSUME NEW p \in Procs, Die(p) PROVE Remembers
  BY <1>7, SessionEnds DEF Die, Forgets, Remembers, Done
<1>8. ASSUME NEW p \in Procs, DieConfiguring(p) PROVE Remembers
  BY <1>8, SessionEnds DEF DieConfiguring, Forgets, Remembers
<1>9. ASSUME NEW p \in Procs, Stop(p) PROVE Remembers
  BY <1>9, StopForgets DEF Remembers
<1>10. ASSUME NEW p \in Procs, Load(p) PROVE Remembers \/ UNCHANGED vars
  BY <1>9, <1>10 DEF Load, KeepControl
<1>11. ASSUME NEW p \in Procs, StopRefused(p) PROVE Remembers
  BY <1>9, <1>11 DEF StopRefused
<1>12. ASSUME NEW p \in Procs, TransitionPhase(p) PROVE Next
  BY <1>12 DEF TransitionPhase, PrepareWorkspace, Next
<1>13. ASSUME NEW p \in Procs, BeginOwnAttempt(p) PROVE Next
  BY <1>13 DEF BeginOwnAttempt, Next
<1>14. ASSUME NEW p \in Procs, Configure(p) PROVE Next
  BY <1>14 DEF Configure, ConfigureWorkspace, Next
<1>15. ASSUME NEW p \in Procs, ObserveCandidate(p) PROVE Next
  <2>1. CASE \E cmd \in {"EVIDENCE_SET", "EVALUATE"} : BeginObservation(p, cmd)
    BY <2>1 DEF Next
  <2>2. CASE \E d \in VersionDecision : BeginConsumption(p, "CLOSE", d)
    BY <2>2 DEF VersionDecision, Next
  <2> QED BY <1>15, <2>1, <2>2 DEF ObserveCandidate, ObserveFrozen, ObserveConsumed
<1>16. ASSUME NEW p \in Procs, CompleteSpecialAttempt(p) PROVE Next \/ Remembers
  <2>1. CASE ObserveFreeze(p)
    BY <2>1 DEF ObserveFreeze, Late, Remembers, Next
  <2>2. CASE \E o \in Obligations : VerifyWorkspace(p, o)
    BY <2>2 DEF VerifyWorkspace, Next
  <2> QED BY <1>16, <2>1, <2>2 DEF CompleteSpecialAttempt
<1>17. ASSUME NEW p \in Procs, Proceed(p) PROVE Next
  BY <1>17 DEF Proceed, FreezeVerdict, RecheckWorkspace, Next
<1>18. ASSUME NEW p \in Procs, CommitCommand(p) PROVE Next
  BY <1>18 DEF CommitCommand, CompleteVerification, Next
<1>19. ASSUME NEW p \in Procs, RefuseCommand(p) \/ RefuseRepair(p) PROVE Next
  BY <1>19 DEF RefuseCommand, RefuseRepair, Next
<1>20. ASSUME NEW p \in Procs, CommitRepair(p) PROVE Next
  BY <1>20 DEF CommitRepair, RepairWorkspace, Next
<1>21. ASSUME NEW p \in Procs, DispatchOwnedAttempt(p) PROVE Next \/ Remembers \/ UNCHANGED vars
  BY <1>9, <1>21 DEF DispatchOwnedAttempt, FailureClasses, Next
<1>22. ASSUME NEW p \in Procs, AdmitTerminal(p) PROVE Next
  BY <1>22 DEF AdmitTerminal, FailureClasses, Next
<1>23. ASSUME NEW p \in Procs, StreamEnds(p) PROVE Next \/ UNCHANGED vars
  BY <1>23 DEF StreamEnds, RecordPortFailure, FailureClasses, Next
<1>24. ASSUME NEW content \in Digests,
              Tamper(content) \/ \E p \in Procs : WorkerWrites(p, content)
       PROVE  Next
  BY <1>24 DEF Tamper, WorkerWrites, Next
<1> QED
  BY <1>1, <1>2, <1>3, <1>4, <1>5, <1>6, <1>7, <1>8, <1>10, <1>11, <1>12, <1>13, <1>14,
     <1>15, <1>16, <1>17, <1>18, <1>19, <1>20, <1>21, <1>22, <1>23, <1>24
     DEF DriveNext, Turn

LEMMA RemembersStep ==
  ASSUME Core, Remembers
  PROVE  Core' /\ UNCHANGED <<store, source>>
<1> USE DEF Core
<1>1. UNCHANGED <<store, source>>
  BY DEF Remembers, Forgets, Late, Observed
<1>2. session' \in [Procs -> SUBSET Generations]
  BY DEF Remembers, Forgets, Late, Observed, TypeOK
<1>3. PICK p \in Procs : Forgets(p) \/ Late(p)
  BY DEF Remembers
<1>4. CASE UNCHANGED plan \/ Done(p)
  <2>1. plan' \in [Procs -> Plan]
    BY <1>4, PlanType DEF TypeOK
  <2>2. PlanBinding'
    BY <1>4 DEF Done, Idle, PlanBinding, TypeOK
  <2> QED
    BY <1>1, <1>2, <2>1, <2>2 DEF store, TypeOK, AuthorityCoherent, FrozenIdentity
<1>5. CASE Late(p)
  <2> DEFINE late == [Planned("FREEZE", source[wf.gen]) EXCEPT !.result = "PASS"]
  <2>1. wf.gen \in Generations /\ source[wf.gen] \in Digests
    BY <1>5, Active DEF Late
  <2>2. Planned("FREEZE", source[wf.gen]) \in Plan
    BY <2>1, PlannedType DEF Commands
  <2>3. late \in Plan
    BY <2>2, PlanUpdates DEF Results
  <2>4. plan' = [plan EXCEPT ![p] = late] /\ plan' \in [Procs -> Plan]
    BY <1>5, <2>3, PlanType DEF Late, Begin
  <2>5. late.first = source[wf.gen] /\ late.gen = wf.gen /\ late.cmd = "FREEZE"
    BY DEF Planned, Idle
  <2> HIDE DEF late
  <2>6. PlanBinding'
    BY <1>1, <2>1, <2>4, <2>5 DEF PlanBinding, TypeOK
  <2> QED
    BY <1>1, <1>2, <2>4, <2>6 DEF store, TypeOK, AuthorityCoherent, FrozenIdentity
<1> QED BY <1>3, <1>4, <1>5 DEF Forgets

LEMMA ResumesStep ==
  ASSUME Core, CandidateLineage, Resumes
  PROVE  Core' /\ CandidateLineage' /\ wf'.version = wf.version + 1
<1> USE DEF Core
<1>1. PICK status \in {"READY", "BLOCKED"} : Advance([wf EXCEPT !.status = status])
  BY DEF Resumes
<1>2. wf' \in Workflow
  BY <1>1, AdvanceType, WorkflowUpdates DEF RunStatuses
<1>3. /\ wf'.version = wf.version + 1 /\ wf'.status = status /\ wf'.attempt = wf.attempt
      /\ wf'.phase = wf.phase /\ wf'.gen = wf.gen
  BY <1>1 DEF Advance, TypeOK, Workflow
<1>4. reconciled' \in 0..MaxVersion
  BY <1>1, NextVersion DEF Resumes
<1>5. TypeOK'
  BY <1>2, <1>4 DEF Resumes, TypeOK
<1>6. AuthorityCoherent'
  BY <1>3 DEF Resumes, AuthorityCoherent
<1>7. FrozenIdentity' /\ PlanBinding'
  BY <1>3 DEF Resumes, FrozenIdentity, PlanBinding
<1>8. CandidateLineage'
  BY <1>3 DEF Resumes, CandidateLineage, ActiveState
<1> QED BY <1>3, <1>5, <1>6, <1>7, <1>8

(* The rows move as under the kernel alone.                                   *)
LEMMA ControlStep ==
  ASSUME Core, CandidateLineage, DriveNext
  PROVE  /\ Core' /\ CandidateLineage' /\ AttemptsMove /\ GenerationsMove
         /\ wf'.version = wf.version + 1 \/ UNCHANGED Consumed
<1>1. CASE Next
  BY <1>1, CoreStep, LineageStep, AttemptStep, GenerationStep, VersionStep
<1>2. CASE UNCHANGED vars
  <2>1. Core'
    BY <1>2, CoreStep
  <2>2. CandidateLineage' /\ UNCHANGED Consumed
    BY <1>2 DEF vars, Consumed, CandidateLineage, ActiveState
  <2>3. AttemptsMove /\ GenerationsMove
    BY <1>2 DEF vars, AttemptsMove, AttemptMove, GenerationsMove, GenerationMove
  <2> QED BY <2>1, <2>2, <2>3
<1>3. CASE Remembers
  <2>1. Core' /\ UNCHANGED <<store, source>>
    BY <1>3, RemembersStep
  <2>2. CandidateLineage' /\ UNCHANGED Consumed
    BY <2>1 DEF store, Consumed, CandidateLineage, ActiveState
  <2>3. AttemptsMove /\ GenerationsMove
    BY <2>1 DEF store, AttemptsMove, AttemptMove, GenerationsMove, GenerationMove
  <2> QED BY <2>1, <2>2, <2>3
<1>4. CASE Resumes
  BY <1>4, ResumesStep
     DEF Resumes, AttemptsMove, AttemptMove, GenerationsMove, GenerationMove
<1> QED BY <1>1, <1>2, <1>3, <1>4, ControlMoves

-----------------------------------------------------------------------------
(* The shapes of records and drives *)

LEMMA OneRecordWritten ==
  ASSUME NEW r \in Record
  PROVE  /\ NewRecord \in Record
         /\ \A w \in SUBSET Attempts : [r EXCEPT !.writers = w] \in Record
         /\ \A n \in Nat : [r EXCEPT !.readers = n] \in Record
         /\ \A n \in Nat : [r EXCEPT !.writers = {}, !.readers = n] \in Record
         /\ [r EXCEPT !.phase = "UNSAFE", !.manifest = None] \in Record
         /\ [NewRecord EXCEPT !.phase = "UNSAFE"] \in Record
         /\ \A d \in Digests \union {None} :
              [NewRecord EXCEPT !.phase = "FROZEN", !.manifest = d] \in Record
  BY DEF Record, NewRecord

\* Each write of the records, as the one record it replaces.
LEMMA RecordWritten ==
  ASSUME DriveType, NEW g \in Generations
  PROVE  /\ \A a \in Attempts : IssueWriter(g, a) =>
              records' = [records EXCEPT ![g] = [records[g] EXCEPT !.writers = records[g].writers \union {a}]]
         /\ \A a : ReleaseWriter(g, a) =>
              records' = [records EXCEPT ![g] = [records[g] EXCEPT !.writers = records[g].writers \ {a}]]
         /\ IssueReader(g) =>
              records' = [records EXCEPT ![g] = [records[g] EXCEPT !.readers = records[g].readers + 1]]
         /\ MarkObserved(g) =>
              \/ records' = records
              \/ records' = [records EXCEPT ![g] = [records[g] EXCEPT !.phase = "UNSAFE", !.manifest = None]]
         /\ Revoke(g) =>
              records' = [records EXCEPT ![g] = [records[g] EXCEPT !.writers = {}, !.readers = 0]]
<1>1. records \in [Generations -> Record] /\ records[g] \in Record
  BY DEF DriveType
<1>2. ASSUME NEW a \in Attempts, IssueWriter(g, a)
      PROVE  records' = [records EXCEPT ![g] = [records[g] EXCEPT !.writers = records[g].writers \union {a}]]
  BY <1>1, <1>2 DEF IssueWriter
<1>3. ASSUME NEW a, ReleaseWriter(g, a)
      PROVE  records' = [records EXCEPT ![g] = [records[g] EXCEPT !.writers = records[g].writers \ {a}]]
  BY <1>1, <1>3 DEF ReleaseWriter
<1>4. ASSUME IssueReader(g)
      PROVE  records' = [records EXCEPT ![g] = [records[g] EXCEPT !.readers = records[g].readers + 1]]
  BY <1>1, <1>4 DEF IssueReader
<1>5. ASSUME MarkObserved(g)
      PROVE  \/ records' = records
             \/ records' = [records EXCEPT ![g] = [records[g] EXCEPT !.phase = "UNSAFE", !.manifest = None]]
  BY <1>1, <1>5 DEF MarkObserved
<1>6. ASSUME Revoke(g)
      PROVE  records' = [records EXCEPT ![g] = [records[g] EXCEPT !.writers = {}, !.readers = 0]]
  BY <1>1, <1>6 DEF Revoke
<1> QED BY <1>2, <1>3, <1>4, <1>5, <1>6

-----------------------------------------------------------------------------
(* One step of one drive *)

LEMMA NoVersion == MaxVersion \in Nat /\ 0 \in 0..MaxVersion
<1>1. MaxVersion \in Nat
  BY ConstantsAssumption
<1> QED BY <1>1

LEMMA OutType == Out \in Drive
  BY NoVersion DEF Out, Drive, Places

LEMMA DriveUpdates ==
  ASSUME NEW d \in Drive
  PROVE  /\ \A place \in Places : [d EXCEPT !.at = place] \in Drive
         /\ \A place \in Places : \A a \in Attempts :
              [d EXCEPT !.at = place, !.own = TRUE, !.prepared = a] \in Drive
         /\ \A a \in Attempts : [d EXCEPT !.own = TRUE, !.prepared = a] \in Drive
         /\ [d EXCEPT !.tree = None] \in Drive
         /\ [d EXCEPT !.prepared = None] \in Drive
         /\ \A place \in Places : \A g \in Generations :
              [d EXCEPT !.at = place, !.tree = g] \in Drive
  BY DEF Drive

LEMMA AgainType ==
  ASSUME NEW d \in Drive
  PROVE  LET e == [d EXCEPT !.at = "LOOP", !.loaded = 0, !.next = None, !.operations = @ + 1]
         IN  e \in Drive /\ e.loaded = 0 /\ e.at = "LOOP" /\ e.tree = d.tree /\ e.owned = d.owned
<1> DEFINE n == d.operations + 1
<1>1. n \in Nat
  <2>1. d.operations \in Nat
    BY DEF Drive
  <2> QED BY <2>1
<1>2. "LOOP" \in Places
  BY DEF Places
<1> DEFINE e == [d EXCEPT !.at = "LOOP", !.loaded = 0, !.next = None, !.operations = n]
<1>3. e.loaded = 0 /\ e.at = "LOOP" /\ e.tree = d.tree /\ e.owned = d.owned
  BY DEF Drive
<1> HIDE DEF n
<1>4. e \in Drive
  BY <1>1, <1>2, NoVersion DEF Drive
<1> QED BY <1>3, <1>4 DEF n

(* What a step makes of the drive that takes it: it forgets what it loaded,   *)
(* keeps it or loads the authority; and it comes to hold a tree only when it  *)
(* is granted one.                                                            *)
Loads(p, d) ==
  /\ At(p, "LOOP") /\ d.at \in {"DISPATCH", "ACT"} /\ UNCHANGED vars
  /\ d.loaded = wf.version
  /\ d.next = IF wf.status = "READY" THEN ReadyOperation ELSE None
Granted(p, d) ==
  /\ At(p, "DISPATCH") /\ Owns(p) /\ wf.phase = "IMPLEMENT" /\ MayWrite(wf.gen)
  /\ d.at = "WORKER" /\ d.tree = wf.gen /\ d.owned = drive[p].owned
  /\ IssueWriter(wf.gen, d.owned) /\ UNCHANGED vars
Unleased(p) == drive[p].at \notin {"WORKER", "DRAIN"}
Acts(p) ==
  \/ OpenProcess(p) \/ StartCommand(p) \/ ReplayStart(p) \/ ResumeCommand(p)
  \/ RepairCommand(p) \/ CancelCommand(p) \/ Turn(p) \/ Die(p) \/ DieConfiguring(p)
Moves(p, d) ==
  /\ Set(p, d)
  /\ \/ d.loaded = 0
     \/ d.loaded = drive[p].loaded /\ d.next = drive[p].next
     \/ Loads(p, d)
  /\ \/ d.tree = None
     \/ Unleased(p) /\ d.tree = drive[p].tree
     \/ AdmitTerminal(p) /\ d = [drive[p] EXCEPT !.at = "DRAIN"]
     \/ Granted(p, d)

LEMMA MovesOut == ASSUME NEW p \in Procs, Set(p, Out) PROVE \E d \in Drive : Moves(p, d)
  BY OutType DEF Moves, Out

LEMMA MovesOn ==
  ASSUME DriveType, NEW p \in Procs, NEW place \in Places, Goto(p, place), Unleased(p)
  PROVE  \E d \in Drive : Moves(p, d)
<1> DEFINE d == [drive[p] EXCEPT !.at = place]
<1>1. drive[p] \in Drive /\ d \in Drive
  BY DriveUpdates DEF DriveType
<1>2. d.loaded = drive[p].loaded /\ d.next = drive[p].next /\ d.tree = drive[p].tree
  BY <1>1 DEF Drive
<1>3. Set(p, d)
  BY DEF Goto
<1> QED BY <1>1, <1>2, <1>3 DEF Moves

LEMMA MovesAgain ==
  ASSUME DriveType, NEW p \in Procs, NEW e \in Drive, Again(p, e),
         e.tree = None \/ (Unleased(p) /\ e.tree = drive[p].tree)
  PROVE  \E d \in Drive : Moves(p, d)
<1> DEFINE d == [e EXCEPT !.at = "LOOP", !.loaded = 0, !.next = None, !.operations = @ + 1]
<1>1. d \in Drive /\ d.loaded = 0 /\ d.tree = e.tree
  BY AgainType
<1>2. Set(p, d)
  BY DEF Again
<1> QED BY <1>1, <1>2 DEF Moves

LEMMA OperationType == ReadyOperation \in Operations
  BY DEF ReadyOperation, Operations

LEMMA LoadMoves ==
  ASSUME TypeOK, DriveType, NEW p \in Procs, Load(p)
  PROVE  \E d \in Drive : Moves(p, d) /\ (d = Out \/ Loads(p, d))
<1>1. CASE StopReason(p) # None
  BY <1>1, OutType DEF Load, Stop, Moves, Out
<1>2. CASE StopReason(p) = None
  <2> DEFINE owned == IF drive[p].own THEN wf.attempt ELSE drive[p].owned
             next == IF wf.status = "READY" THEN ReadyOperation ELSE None
             at == IF wf.status = "RUNNING" /\ WorkerPhase THEN "DISPATCH" ELSE "ACT"
             d == [drive[p] EXCEPT !.own = FALSE, !.owned = owned, !.loaded = wf.version,
                                   !.next = next, !.at = at]
  <2>1. Set(p, d) /\ At(p, "LOOP") /\ UNCHANGED vars
    BY <1>2 DEF Load, KeepControl
  <2>2. drive[p] \in Drive
    BY DEF DriveType
  <2>3. owned \in Attempts \union {None} /\ wf.version \in 0..MaxVersion
    BY <2>2 DEF Drive, TypeOK, Workflow
  <2>4. next \in Operations \union {None} /\ at \in Places /\ at \in {"DISPATCH", "ACT"}
    BY OperationType DEF Places
  <2>5. next = IF wf.status = "READY" THEN ReadyOperation ELSE None
    OBVIOUS
  <2> HIDE DEF owned, next, at
  <2>6. d \in Drive
    BY <2>2, <2>3, <2>4 DEF Drive
  <2>7. d.loaded = wf.version /\ d.next = next /\ d.at = at /\ d.tree = drive[p].tree
    BY <2>2 DEF Drive
  <2> QED BY <2>1, <2>4, <2>5, <2>6, <2>7 DEF Moves, Loads, Unleased, At
<1> QED BY <1>1, <1>2

LEMMA DispatchMoves ==
  ASSUME Core, CandidateLineage, DriveType, NEW p \in Procs, DispatchOwnedAttempt(p)
  PROVE  \E d \in Drive : Moves(p, d)
<1> DEFINE d == [drive[p] EXCEPT !.prepared = None]
<1>1. At(p, "DISPATCH") /\ drive[p] \in Drive /\ Unleased(p)
  BY DEF DispatchOwnedAttempt, DriveType, At, Unleased
<1>2. d \in Drive /\ d.tree = drive[p].tree /\ d.loaded = drive[p].loaded
      /\ d.next = drive[p].next /\ d.owned = drive[p].owned
  <2>1. d \in Drive
    BY <1>1, DriveUpdates
  <2> QED BY <1>1, <2>1 DEF Drive
<1>3. CASE Stop(p)
  BY <1>3, MovesOut DEF Stop
<1>4. CASE Again(p, d)
  BY <1>1, <1>2, <1>4, MovesAgain
<1>5. ASSUME Set(p, [d EXCEPT !.at = "WORKER"])
      PROVE  \E e \in Drive : Moves(p, e)
  <2> DEFINE e == [d EXCEPT !.at = "WORKER"]
  <2>1. e \in Drive
    BY <1>2, DriveUpdates DEF Places
  <2>2. e.tree = drive[p].tree /\ e.loaded = drive[p].loaded /\ e.next = drive[p].next
    BY <1>2 DEF Drive
  <2> QED BY <1>1, <1>5, <2>1, <2>2 DEF Moves
<1>6. ASSUME Set(p, [d EXCEPT !.at = "WORKER", !.tree = wf.gen]), Owns(p),
             wf.phase = "IMPLEMENT", MayWrite(wf.gen), IssueWriter(wf.gen, d.owned), UNCHANGED vars
      PROVE  \E e \in Drive : Moves(p, e)
  <2> DEFINE e == [d EXCEPT !.at = "WORKER", !.tree = wf.gen]
  <2>1. wf.gen \in Generations
    BY <1>6 DEF CandidateLineage, Core, TypeOK, Workflow
  <2>2. e \in Drive
    BY <1>2, <2>1, DriveUpdates DEF Places
  <2>3. /\ e.tree = wf.gen /\ e.at = "WORKER" /\ e.loaded = drive[p].loaded
        /\ e.next = drive[p].next /\ e.owned = drive[p].owned
    BY <1>2 DEF Drive
  <2> QED BY <1>1, <1>2, <1>6, <2>2, <2>3 DEF Moves, Granted
<1> QED BY <1>3, <1>4, <1>5, <1>6 DEF DispatchOwnedAttempt

LEMMA DriveActs ==
  ASSUME Core, CandidateLineage, DriveType, NEW p \in Procs, Acts(p)
  PROVE  UNCHANGED drive \/ \E d \in Drive : Moves(p, d)
<1> USE DEF Core
<1>1. ASSUME Set(p, Out) PROVE \E d \in Drive : Moves(p, d)
  BY <1>1, MovesOut
<1>2. ASSUME \/ CancelCommand(p) \/ RefuseRepair(p) \/ Die(p) \/ DieConfiguring(p)
             \/ StopRefused(p)
      PROVE  \E d \in Drive : Moves(p, d)
  BY <1>1, <1>2 DEF CancelCommand, RefuseRepair, Die, DieConfiguring, StopRefused, Stop
<1>3. ASSUME NEW place \in Places, Goto(p, place), Unleased(p)
      PROVE  \E d \in Drive : Moves(p, d)
  BY <1>3, MovesOn
<1>4. ASSUME \/ ReplayStart(p) \/ ResumeCommand(p) \/ RepairCommand(p) \/ CommitRepair(p)
             \/ ObserveCandidate(p) \/ CompleteSpecialAttempt(p) \/ RefuseCommand(p)
      PROVE  \E d \in Drive : Moves(p, d)
  <2>1. Unleased(p)
    BY <1>4 DEF ReplayStart, ResumeCommand, RepairCommand, CommitRepair, ObserveCandidate,
                CompleteSpecialAttempt, RefuseCommand, Acting, At, Unleased
  <2>2. \E place \in Places : Goto(p, place)
    BY <1>4 DEF ReplayStart, ResumeCommand, RepairCommand, CommitRepair, ObserveCandidate,
                CompleteSpecialAttempt, RefuseCommand, Places
  <2> QED BY <1>3, <2>1, <2>2
<1>5. ASSUME TransitionPhase(p) \/ Configure(p) \/ CommitCommand(p)
      PROVE  \E d \in Drive : Moves(p, d)
  <2>1. Unleased(p) /\ Again(p, drive[p]) /\ drive[p] \in Drive
    BY <1>5 DEF TransitionPhase, Configure, CommitCommand, Acting, At, Unleased, DriveType
  <2> QED BY <2>1, MovesAgain
<1>6. ASSUME OpenProcess(p) PROVE \E d \in Drive : Moves(p, d)
  <2> DEFINE d == [Out EXCEPT !.at = "OPEN"]
  <2>1. d \in Drive
    BY OutType, DriveUpdates DEF Places
  <2>2. d.loaded = 0 /\ d.tree = None
    BY DEF Out
  <2>3. Set(p, d)
    BY <1>6 DEF OpenProcess
  <2> QED BY <2>1, <2>2, <2>3 DEF Moves
<1>7. ASSUME StartCommand(p) PROVE \E d \in Drive : Moves(p, d)
  <2>1. PICK a \in Attempts : Set(p, [drive[p] EXCEPT !.at = "LOOP", !.own = TRUE, !.prepared = a])
    BY <1>7 DEF StartCommand
  <2> DEFINE d == [drive[p] EXCEPT !.at = "LOOP", !.own = TRUE, !.prepared = a]
  <2>2. drive[p] \in Drive /\ d \in Drive
    BY DriveUpdates DEF DriveType, Places
  <2>3. d.loaded = drive[p].loaded /\ d.next = drive[p].next /\ d.tree = drive[p].tree
    BY <2>2 DEF Drive
  <2>4. Unleased(p)
    BY <1>7 DEF StartCommand, At, Unleased
  <2> QED BY <2>1, <2>2, <2>3, <2>4 DEF Moves
<1>8. ASSUME BeginOwnAttempt(p) PROVE \E d \in Drive : Moves(p, d)
  <2>1. PICK a \in Attempts : Again(p, [drive[p] EXCEPT !.own = TRUE, !.prepared = a])
    BY <1>8 DEF BeginOwnAttempt
  <2> DEFINE e == [drive[p] EXCEPT !.own = TRUE, !.prepared = a]
  <2>2. drive[p] \in Drive /\ e \in Drive
    BY DriveUpdates DEF DriveType
  <2>3. e.tree = drive[p].tree
    BY <2>2 DEF Drive
  <2>4. Unleased(p)
    BY <1>8 DEF BeginOwnAttempt, Acting, At, Unleased
  <2> QED BY <2>1, <2>2, <2>3, <2>4, MovesAgain
<1>9. ASSUME AdmitTerminal(p) PROVE \E d \in Drive : Moves(p, d)
  <2> DEFINE d == [drive[p] EXCEPT !.at = "DRAIN"]
  <2>1. drive[p] \in Drive /\ d \in Drive
    BY DriveUpdates DEF DriveType, Places
  <2>2. d.loaded = drive[p].loaded /\ d.next = drive[p].next
    BY <2>1 DEF Drive
  <2>3. Set(p, d)
    BY <1>9 DEF AdmitTerminal, Goto
  <2> QED BY <1>9, <2>1, <2>2, <2>3 DEF Moves
<1>10. ASSUME StreamEnds(p) PROVE \E d \in Drive : Moves(p, d)
  <2> DEFINE e == [drive[p] EXCEPT !.tree = None]
  <2>1. drive[p] \in Drive /\ e \in Drive
    BY DriveUpdates DEF DriveType
  <2>2. e.tree = None /\ Again(p, e)
    BY <1>10, <2>1 DEF StreamEnds, Drive
  <2> QED BY <2>1, <2>2, MovesAgain
<1>11. CASE Proceed(p)
  BY <1>11 DEF Proceed, driveVars
<1> QED
  BY <1>2, <1>4, <1>5, <1>6, <1>7, <1>8, <1>9, <1>10, <1>11, LoadMoves, DispatchMoves
     DEF Acts, Turn

LEMMA WritesMove ==
  ASSUME NEW content \in Digests,
         Tamper(content) \/ \E p \in Procs : WorkerWrites(p, content)
  PROVE  UNCHANGED <<plan, wf, drive, checks, evidence, eligible, attempts, contextGen>>
  BY DEF Tamper, WorkerWrites, SourceChange, store, driveVars

LEMMA Actor ==
  ASSUME DriveNext
  PROVE  \/ \E p \in Procs : Acts(p)
         \/ \E content \in Digests :
              Tamper(content) \/ \E p \in Procs : WorkerWrites(p, content)
  BY DEF DriveNext, Acts

LEMMA DriveMoves ==
  ASSUME Core, CandidateLineage, DriveType, DriveNext
  PROVE  UNCHANGED drive \/ \E p \in Procs : \E d \in Drive : Moves(p, d)
  BY Actor, DriveActs, WritesMove

-----------------------------------------------------------------------------
(* What a step does to rows, records and trees *)

RowKept(g) ==
  LET r == gens[g]  s == gens'[g] IN
  \/ s = r
  \/ s.state = "INVALIDATED"
  \/ r.state = "FROZEN" /\ s.state \in {"REJECTED", "ACCEPTED"} /\ s.frozen = r.frozen

RecordMove(r, s) ==
  /\ \/ s.phase = r.phase /\ s.manifest = r.manifest
     \/ r.phase = "FROZEN" /\ s.phase = "UNSAFE"
  /\ s.writers # {} => s.phase = "MUTABLE"
  /\ s.readers > 0 => s.phase \in Closed

Returns(p) ==
  /\ StreamEnds(p) /\ drive[p].tree \in Generations
  /\ ReleaseWriter(drive[p].tree, drive[p].owned)

LeasesKept ==
  \/ \A g \in Generations :
       gens[g].state = "MUTABLE" => records[g].writers \subseteq records'[g].writers
  \/ \E p \in Procs : Returns(p)

RecordsKept ==
  /\ records' \in [Generations -> Record]
  /\ \A g \in Generations : RecordMove(records[g], records'[g])

TreesKept ==
  /\ \A g \in Generations : RowKept(g)
  /\ UNCHANGED <<source, tampers>>
  /\ RecordsKept /\ LeasesKept

TreeMade(g) ==
  /\ gens[g].state = "NONE" /\ gens'[g].state = "MUTABLE"
  /\ records' = [records EXCEPT ![g] = NewRecord]
  /\ \A h \in Generations \ {g} : RowKept(h) /\ source'[h] = source[h]
  /\ UNCHANGED tampers

TreeLeft(p) == Acting(p, "TRANSITION") /\ BeginCandidateFreeze /\ UNCHANGED <<records, tampers>>
TreeJudged(p) == FreezeVerdict(p) /\ UNCHANGED <<gens, source, tampers>>
TreeFrozen(p) == CompleteSourceFreeze(p) /\ ~Unstable(p) /\ UNCHANGED <<records, source, tampers>>

LEMMA RecordsStay ==
  ASSUME DriveType, Inventory, UNCHANGED records PROVE RecordsKept /\ LeasesKept
  BY DEF DriveType, Inventory, Fits, RecordsKept, RecordMove, LeasesKept

LEMMA RecordMoves ==
  ASSUME DriveType, Inventory, NEW g \in Generations, NEW r \in Record,
         records' = [records EXCEPT ![g] = r], RecordMove(records[g], r)
  PROVE  RecordsKept
<1>1. records' \in [Generations -> Record]
  BY DEF DriveType
<1>2. \A h \in Generations : h # g => RecordMove(records[h], records'[h])
  BY DEF DriveType, Inventory, Fits, RecordMove
<1>3. records'[g] = r
  BY DEF DriveType
<1> QED BY <1>1, <1>2, <1>3 DEF RecordsKept

LEMMA RecordMovesHere ==
  ASSUME DriveType, Inventory, NEW g \in Generations
  PROVE  /\ \A a \in Attempts : records[g].phase = "MUTABLE" /\ IssueWriter(g, a) =>
              RecordsKept /\ LeasesKept
         /\ \A a : ReleaseWriter(g, a) => RecordsKept
         /\ records[g].phase = "FROZEN" /\ IssueReader(g) => RecordsKept /\ LeasesKept
         /\ records[g].phase = "FROZEN" /\ MarkObserved(g) => RecordsKept /\ LeasesKept
         /\ gens[g].state # "MUTABLE" /\ Revoke(g) => RecordsKept /\ LeasesKept
         /\ records' = [records EXCEPT ![g].readers = @ - 1] /\ records[g].readers > 0 =>
              RecordsKept /\ LeasesKept
<1> DEFINE r == records[g]
<1>1. r \in Record /\ records \in [Generations -> Record] /\ Fits(g)
      /\ r.writers \in SUBSET Attempts /\ r.readers \in Nat
  BY DEF DriveType, Inventory, Record
<1>2. ASSUME NEW a \in Attempts, r.phase = "MUTABLE", IssueWriter(g, a)
      PROVE  RecordsKept /\ LeasesKept
  <2> DEFINE s == [r EXCEPT !.writers = r.writers \union {a}]
  <2>1. records' = [records EXCEPT ![g] = s]
    BY <1>2, RecordWritten
  <2>2. s \in Record
    BY <1>1 DEF Record
  <2>3. /\ s.phase = r.phase /\ s.manifest = r.manifest /\ s.readers = r.readers
        /\ r.writers \subseteq s.writers
    BY <1>1 DEF Record
  <2>4. RecordMove(r, s)
    BY <1>1, <1>2, <2>3 DEF RecordMove, Fits, Closed
  <2>5. LeasesKept
    BY <1>1, <2>1, <2>3 DEF LeasesKept
  <2> QED BY <2>1, <2>2, <2>4, <2>5, RecordMoves
<1>3. ASSUME NEW a, ReleaseWriter(g, a) PROVE RecordsKept
  <2> DEFINE s == [r EXCEPT !.writers = r.writers \ {a}]
  <2>1. records' = [records EXCEPT ![g] = s]
    BY <1>3, RecordWritten
  <2>2. s \in Record
    BY <1>1 DEF Record
  <2>3. /\ s.phase = r.phase /\ s.manifest = r.manifest /\ s.readers = r.readers
        /\ s.writers \subseteq r.writers
    BY <1>1 DEF Record
  <2>4. RecordMove(r, s)
    BY <1>1, <2>3 DEF RecordMove, Fits, Closed
  <2> QED BY <2>1, <2>2, <2>4, RecordMoves
<1>4. ASSUME r.phase = "FROZEN", IssueReader(g) PROVE RecordsKept /\ LeasesKept
  <2> DEFINE s == [r EXCEPT !.readers = r.readers + 1]
  <2>1. records' = [records EXCEPT ![g] = s]
    BY <1>4, RecordWritten
  <2>2. s \in Record
    BY <1>1 DEF Record
  <2>3. s.phase = r.phase /\ s.manifest = r.manifest /\ s.writers = r.writers
    BY <1>1 DEF Record
  <2>4. RecordMove(r, s)
    BY <1>1, <1>4, <2>3 DEF RecordMove, Fits, Closed
  <2>5. LeasesKept
    BY <1>1, <2>1, <2>3 DEF LeasesKept
  <2> QED BY <2>1, <2>2, <2>4, <2>5, RecordMoves
<1>5. ASSUME r.phase = "FROZEN", MarkObserved(g) PROVE RecordsKept /\ LeasesKept
  <2> DEFINE s == [r EXCEPT !.phase = "UNSAFE", !.manifest = None]
  <2>1. CASE records' = records
    BY <2>1, RecordsStay
  <2>2. CASE records' = [records EXCEPT ![g] = s]
    <3>1. s \in Record
      BY <1>1 DEF Record
    <3>2. s.phase = "UNSAFE" /\ s.writers = r.writers
      BY <1>1 DEF Record
    <3>3. RecordMove(r, s)
      BY <1>1, <1>5, <3>2 DEF RecordMove, Fits, Closed
    <3>4. LeasesKept
      BY <1>1, <2>2, <3>2 DEF LeasesKept
    <3> QED BY <2>2, <3>1, <3>3, <3>4, RecordMoves
  <2> QED BY <1>5, <2>1, <2>2, RecordWritten
<1>6. ASSUME gens[g].state # "MUTABLE", Revoke(g) PROVE RecordsKept /\ LeasesKept
  <2> DEFINE s == [r EXCEPT !.writers = {}, !.readers = 0]
  <2>1. records' = [records EXCEPT ![g] = s]
    BY <1>6, RecordWritten
  <2>2. s \in Record
    BY <1>1 DEF Record
  <2>3. s.phase = r.phase /\ s.manifest = r.manifest /\ s.writers = {} /\ s.readers = 0
    BY <1>1 DEF Record
  <2>4. RecordMove(r, s)
    BY <2>3 DEF RecordMove
  <2>5. LeasesKept
    BY <1>1, <1>6, <2>1 DEF LeasesKept
  <2> QED BY <2>1, <2>2, <2>4, <2>5, RecordMoves
<1>7. ASSUME records' = [records EXCEPT ![g].readers = @ - 1], r.readers > 0
      PROVE  RecordsKept /\ LeasesKept
  <2> DEFINE n == r.readers - 1  s == [r EXCEPT !.readers = n]
  <2>1. n \in Nat
    BY <1>1, <1>7
  <2>2. records' = [records EXCEPT ![g] = s]
    BY <1>1, <1>7
  <2> HIDE DEF n
  <2>3. s \in Record
    BY <1>1, <2>1 DEF Record
  <2>4. s.phase = r.phase /\ s.manifest = r.manifest /\ s.writers = r.writers
    BY <1>1 DEF Record
  <2>5. RecordMove(r, s)
    BY <1>1, <1>7, <2>4 DEF RecordMove, Fits, Closed
  <2>6. LeasesKept
    BY <1>1, <2>2, <2>4 DEF LeasesKept
  <2> QED BY <2>2, <2>3, <2>5, <2>6, RecordMoves
<1> QED BY <1>2, <1>3, <1>4, <1>5, <1>6, <1>7

LEMMA RowsStay ==
  ASSUME DriveType, Inventory, UNCHANGED <<gens, source, tampers>>, RecordsKept /\ LeasesKept
  PROVE  TreesKept
  BY DEF TreesKept, RowKept

LEMMA RowStopped ==
  ASSUME Core, NEW g \in Generations, Invalidate(g)
  PROVE  \A h \in Generations : RowKept(h)
<1>1. gens' = [gens EXCEPT ![g].state = "INVALIDATED"]
  BY DEF Invalidate
<1>2. gens[g] \in Generation
  BY DEF Core, TypeOK
<1>3. gens'[g].state = "INVALIDATED"
  BY <1>1, <1>2 DEF Core, TypeOK, Generation
<1>4. \A h \in Generations : h # g => gens'[h] = gens[h]
  BY <1>1 DEF Core, TypeOK
<1> QED BY <1>3, <1>4 DEF RowKept

LEMMA NextNumber ==
  /\ \A g \in Generations : FreshGeneration(g) => gens[g].state = "NONE"
  /\ \A a \in Attempts : FreshAttempt(a) => attempts[a].status = "NONE"
<1>1. /\ \A g \in Generations : g \in Nat /\ g >= g
      /\ \A a \in Attempts : a \in Nat /\ a >= a
  BY ConstantsAssumption
<1> QED BY <1>1 DEF FreshGeneration, FreshAttempt

\* The steps of a drive that leave trees, rows and records as they are.
LEMMA NoTreeTouched ==
  ASSUME Core, NEW p \in Procs,
         \/ OpenProcess(p) \/ StartCommand(p) \/ ReplayStart(p) \/ ResumeCommand(p)
         \/ CancelCommand(p) \/ RefuseRepair(p) \/ StopRefused(p) \/ Load(p) \/ Die(p)
         \/ BeginOwnAttempt(p) \/ RefuseCommand(p) \/ AdmitTerminal(p)
  PROVE  UNCHANGED <<gens, source, tampers, records>>
<1>1. CASE OpenProcess(p)
  BY <1>1 DEF OpenProcess, StartupRecovery, vars
<1>2. CASE StartCommand(p) \/ BeginOwnAttempt(p)
  BY <1>2 DEF StartCommand, BeginOwnAttempt, StartGoal, BeginAttempt, BindContext
<1>3. CASE ReplayStart(p)
  BY <1>3 DEF ReplayStart, KeepControl, vars
<1>4. CASE ResumeCommand(p) \/ CancelCommand(p)
  BY <1>4 DEF ResumeCommand, CancelCommand, CancelGoal, KeepRest
<1>5. CASE RefuseRepair(p) \/ RefuseCommand(p)
  BY <1>5 DEF RefuseRepair, RefuseCommand, AbandonCommand, KeepRest, store
<1>6. CASE Stop(p) \/ Die(p) \/ StopRefused(p) \/ Load(p)
  BY <1>6 DEF Stop, Die, StopRefused, Load, KeepControl, KeepRest, store, vars
<1>7. CASE AdmitTerminal(p)
  BY <1>7 DEF AdmitTerminal, RecordAttemptResult, RecordAttemptFailure, KeepRest
<1> QED BY <1>1, <1>2, <1>3, <1>4, <1>5, <1>6, <1>7

LEMMA ObservedFrozen ==
  ASSUME Core, DriveType, Inventory, NEW p \in Procs,
         RepairCommand(p) \/ ObserveCandidate(p)
  PROVE  TreesKept
<1>1. PICK cmd, d : \/ BeginObservation(p, cmd) /\ Observable(wf.gen) /\ MarkObserved(wf.gen)
                    \/ BeginConsumption(p, cmd, d) /\ Observable(wf.gen) /\ MarkObserved(wf.gen)
  BY DEF RepairCommand, ObserveCandidate, ObserveFrozen, ObserveConsumed
<1>2. ActiveState("FROZEN") /\ Observed /\ UNCHANGED tampers
  BY <1>1 DEF BeginObservation, BeginConsumption, RepairCommand, ObserveCandidate, KeepRest
<1>3. wf.gen \in Generations /\ records[wf.gen].phase = "FROZEN"
  BY <1>1, <1>2, Active DEF Observable
<1>4. RecordsKept /\ LeasesKept
  BY <1>1, <1>3, RecordMovesHere
<1> QED BY <1>2, <1>4, RowsStay DEF Observed, store

LEMMA RepairTrees ==
  ASSUME Core, DriveType, Inventory, NEW p \in Procs, CommitRepair(p)
  PROVE  TreesKept \/ \E g \in Generations : TreeMade(g)
<1>1. CASE CommitIntegrityFailure(p) /\ UNCHANGED records
  <2>1. Invalidate(wf.gen) /\ ActiveState("FROZEN") /\ UNCHANGED <<source, tampers>>
    BY <1>1 DEF CommitIntegrityFailure, Committable, CommitRepair, KeepRest
  <2>2. wf.gen \in Generations
    BY <2>1, Active
  <2> QED BY <1>1, <2>1, <2>2, RowStopped, RecordsStay DEF TreesKept
<1>2. ASSUME NEW g \in Generations, RepairWorkspace(p, g) PROVE TreeMade(g)
  <2>1. /\ wf.gen \in Generations /\ gens[wf.gen].state = "FROZEN" /\ gens[g].state = "NONE"
        /\ gens' = [gens EXCEPT ![wf.gen].state = "REJECTED",
                                ![g] = PrepareGeneration(wf.gen, plan[p].first)]
        /\ source' = [source EXCEPT ![g] = plan[p].first]
        /\ records' = [records EXCEPT ![g] = NewRecord]
    BY <1>2, Active, NextNumber
       DEF RepairWorkspace, BeginAcceptanceRepair, Commit, Committable, ActiveState
  <2>2. gens'[g].state = "MUTABLE"
    BY <2>1 DEF Core, TypeOK, PrepareGeneration
  <2>3. RowKept(wf.gen)
    BY <2>1 DEF Core, TypeOK, Generation, RowKept
  <2>4. \A h \in Generations : h \notin {g, wf.gen} => gens'[h] = gens[h]
    BY <2>1 DEF Core, TypeOK
  <2>5. \A h \in Generations : h # g => source'[h] = source[h]
    BY <2>1 DEF Core, TypeOK
  <2>6. UNCHANGED tampers
    BY DEF CommitRepair, KeepRest
  <2> QED BY <2>1, <2>2, <2>3, <2>4, <2>5, <2>6 DEF TreeMade, RowKept
<1> QED BY <1>1, <1>2 DEF CommitRepair

LEMMA TransitionTrees ==
  ASSUME Core, DriveType, Inventory, NEW p \in Procs, TransitionPhase(p)
  PROVE  TreesKept \/ TreeLeft(p) \/ \E g \in Generations : TreeMade(g)
<1>1. UNCHANGED tampers /\ Acting(p, "TRANSITION")
  BY DEF TransitionPhase, KeepRest
<1>2. CASE (BeginPlanning \/ BeginEvidenceBuild) /\ UNCHANGED records
  BY <1>1, <1>2, RowsStay, RecordsStay DEF BeginPlanning, BeginEvidenceBuild
<1>3. CASE BeginCandidateFreeze /\ UNCHANGED records
  BY <1>1, <1>3 DEF TreeLeft
<1>4. ASSUME NEW g \in Generations, PrepareWorkspace(g, Base) PROVE TreeMade(g)
  <2>1. /\ gens[g].state = "NONE"
        /\ gens' = [gens EXCEPT ![g] = PrepareGeneration(wf.gen, Base)]
        /\ source' = [source EXCEPT ![g] = Base]
        /\ records' = [records EXCEPT ![g] = NewRecord]
    BY <1>4, NextNumber DEF PrepareWorkspace, PrepareCandidate
  <2>2. gens'[g].state = "MUTABLE"
    BY <2>1 DEF Core, TypeOK, PrepareGeneration
  <2>3. \A h \in Generations : h # g => gens'[h] = gens[h] /\ source'[h] = source[h]
    BY <2>1 DEF Core, TypeOK
  <2> QED BY <1>1, <2>1, <2>2, <2>3 DEF TreeMade, RowKept
<1> QED BY <1>2, <1>3, <1>4 DEF TransitionPhase

LEMMA ConfigureTrees ==
  ASSUME Core, DriveType, Inventory, NEW p \in Procs, Configure(p) \/ DieConfiguring(p)
  PROVE  TreesKept
<1>1. UNCHANGED <<gens, source, tampers>> /\ MayRead(wf.gen) /\ IssueReader(wf.gen)
  BY DEF Configure, DieConfiguring, ConfigureWorkspace, ConfigureLocalVerification, KeepRest, store
<1>2. wf.gen \in Generations \/ wf.gen = None
  BY DEF Core, TypeOK, Workflow
<1>3. CASE wf.gen \in Generations
  <2>1. records[wf.gen].phase = "FROZEN"
    BY <1>1 DEF MayRead
  <2> QED BY <1>1, <1>3, <2>1, RecordMovesHere, RowsStay
<1>4. CASE wf.gen = None
  <2>1. records' = records
    BY <1>1, <1>4, ConstantsAssumption DEF IssueReader, DriveType
  <2> QED BY <1>1, <2>1, RecordsStay, RowsStay
<1> QED BY <1>2, <1>3, <1>4

LEMMA SpecialTrees ==
  ASSUME Core, DriveType, Inventory, NEW p \in Procs, CompleteSpecialAttempt(p)
  PROVE  TreesKept
<1>1. UNCHANGED tampers
  BY DEF CompleteSpecialAttempt, KeepRest
<1>2. CASE UNCHANGED records /\ Observed
  BY <1>1, <1>2, RecordsStay, RowsStay DEF Observed, store
<1>3. CASE BeginFreeze(p) /\ Revoke(wf.gen)
  <2>1. wf.gen \in Generations /\ gens[wf.gen].state = "FREEZING" /\ Observed
    BY <1>3, Active DEF BeginFreeze, ActiveState
  <2> QED BY <1>1, <1>3, <2>1, RecordMovesHere, RowsStay DEF Observed, store
<1> QED
  BY <1>2, <1>3
     DEF CompleteSpecialAttempt, ObserveFreeze, VerifyWorkspace, BeginVerification

LEMMA ProceedTrees ==
  ASSUME Core, DriveType, Inventory, NEW p \in Procs, Proceed(p)
  PROVE  TreesKept \/ TreeJudged(p)
<1>1. UNCHANGED <<drive, contextGen, invocations, tampers>>
  BY DEF Proceed, driveVars
<1>2. CASE FreezeVerdict(p)
  BY <1>1, <1>2 DEF FreezeVerdict, SecondReading, Observed, store, TreeJudged
<1>3. CASE RecheckWorkspace(p)
  <2>1. RunCheck(p) /\ UNCHANGED <<gens, source>> /\ plan[p].gen \in Generations
    BY <1>3 DEF RecheckWorkspace, RunCheck, Observed, store, Core, PlanBinding
  <2>2. CASE Observable(plan[p].gen) /\ MarkObserved(plan[p].gen)
    <3>1. records[plan[p].gen].phase = "FROZEN"
      BY <2>2 DEF Observable
    <3> QED BY <1>1, <2>1, <2>2, <3>1, RecordMovesHere, RowsStay
  <2>3. CASE UNCHANGED records
    BY <1>1, <2>1, <2>3, RecordsStay, RowsStay
  <2> QED BY <1>3, <2>2, <2>3 DEF RecheckWorkspace
<1> QED BY <1>2, <1>3 DEF Proceed

LEMMA CommitTrees ==
  ASSUME Core, DriveType, Inventory, NEW p \in Procs, CommitCommand(p)
  PROVE  TreesKept \/ TreeFrozen(p)
<1>1. UNCHANGED tampers
  BY DEF CommitCommand, KeepRest
<1>2. CASE CompleteVerification(p)
  <2>1. /\ ActiveState("FROZEN") /\ UNCHANGED source
        /\ UNCHANGED gens \/ Invalidate(wf.gen)
    BY <1>2 DEF CompleteVerification, CompleteLocalVerification
  <2>2. wf.gen \in Generations
    BY <2>1, Active
  <2>3. \A g \in Generations : RowKept(g)
    BY <2>1, <2>2, RowStopped DEF RowKept
  <2>4. \/ UNCHANGED records
        \/ records' = [records EXCEPT ![wf.gen].readers = @ - 1] /\ records[wf.gen].readers > 0
    BY <1>2 DEF CompleteVerification
  <2>5. RecordsKept /\ LeasesKept
    BY <2>2, <2>4, RecordsStay, RecordMovesHere
  <2> QED BY <1>1, <2>1, <2>3, <2>5 DEF TreesKept
<1>3. CASE CompleteSourceFreeze(p) /\ UNCHANGED records
  <2>1. ActiveState("FREEZING") /\ UNCHANGED source
    BY <1>3 DEF CompleteSourceFreeze
  <2>2. CASE Unstable(p)
    <3>1. Invalidate(wf.gen) /\ wf.gen \in Generations
      BY <1>3, <2>1, <2>2, Active DEF CompleteSourceFreeze
    <3> QED BY <1>1, <1>3, <2>1, <3>1, RowStopped, RecordsStay DEF TreesKept
  <2> QED BY <1>1, <1>3, <2>1, <2>2 DEF TreeFrozen
<1>4. CASE (CommitEvidenceSet(p) \/ EvaluateAcceptance(p)) /\ UNCHANGED records
  BY <1>1, <1>4, RowsStay, RecordsStay DEF CommitEvidenceSet, EvaluateAcceptance
<1>5. CASE CloseAcceptedGoal(p) /\ UNCHANGED records
  <2>1. /\ wf.gen \in Generations /\ gens[wf.gen].state = "FROZEN" /\ UNCHANGED source
        /\ gens' = [gens EXCEPT ![wf.gen].state = "ACCEPTED"]
    BY <1>5, Active DEF CloseAcceptedGoal, Commit, Committable, ActiveState
  <2>2. RowKept(wf.gen)
    BY <2>1 DEF Core, TypeOK, Generation, RowKept
  <2>3. \A g \in Generations : g # wf.gen => gens'[g] = gens[g]
    BY <2>1 DEF Core, TypeOK
  <2> QED BY <1>1, <1>5, <2>1, <2>2, <2>3, RecordsStay DEF TreesKept, RowKept
<1>6. CASE CommitIntegrityFailure(p) /\ UNCHANGED records
  <2>1. Invalidate(wf.gen) /\ ActiveState("FROZEN") /\ UNCHANGED source
    BY <1>6 DEF CommitIntegrityFailure, Committable
  <2>2. wf.gen \in Generations
    BY <2>1, Active
  <2> QED BY <1>1, <1>6, <2>1, <2>2, RowStopped, RecordsStay DEF TreesKept
<1> QED BY <1>2, <1>3, <1>4, <1>5, <1>6 DEF CommitCommand

LEMMA WorkerTrees ==
  ASSUME Core, CandidateLineage, DriveType, Inventory, NEW p \in Procs,
         DispatchOwnedAttempt(p) \/ StreamEnds(p)
  PROVE  TreesKept
<1>1. UNCHANGED <<gens, source, tampers>>
  BY DEF DispatchOwnedAttempt, StreamEnds, Stop, RecordAttemptFailure, RecordPortFailure,
         KeepRest, store, vars
<1>2. CASE UNCHANGED records
  BY <1>1, <1>2, RecordsStay, RowsStay
<1>3. CASE DispatchOwnedAttempt(p) /\ ~UNCHANGED records
  <2> DEFINE d == [drive[p] EXCEPT !.prepared = None]
  <2>1. /\ MayWrite(wf.gen) /\ IssueWriter(wf.gen, d.owned)
        /\ Owns(p) /\ wf.phase = "IMPLEMENT"
    BY <1>3 DEF DispatchOwnedAttempt, Stop
  <2>2. d.owned = drive[p].owned
    BY DEF DriveType, Drive
  <2>3. drive[p].owned \in Attempts
    BY <2>1, Owner DEF Owns
  <2>4. wf.gen \in Generations /\ records[wf.gen].phase = "MUTABLE"
    BY <2>1 DEF CandidateLineage, Core, TypeOK, Workflow, MayWrite
  <2> QED BY <1>1, <2>1, <2>2, <2>3, <2>4, RecordMovesHere, RowsStay
<1>4. CASE StreamEnds(p) /\ ~UNCHANGED records
  <2>1. drive[p].tree \in Generations /\ ReleaseWriter(drive[p].tree, drive[p].owned)
    BY <1>4 DEF StreamEnds, DriveType, Drive
  <2>2. LeasesKept
    BY <1>4, <2>1 DEF LeasesKept, Returns
  <2> QED BY <1>1, <2>1, <2>2, RecordMovesHere, RowsStay
<1> QED BY <1>2, <1>3, <1>4

LEMMA TreesForm ==
  ASSUME Core, CandidateLineage, DriveType, Inventory, DriveNext
  PROVE  \/ TreesKept
         \/ \E g \in Generations : TreeMade(g)
         \/ \E p \in Procs : TreeLeft(p) \/ TreeJudged(p) \/ TreeFrozen(p)
         \/ \E content \in Digests : Tamper(content) \/ \E p \in Procs : WorkerWrites(p, content)
<1>1. ASSUME NEW p \in Procs,
         \/ OpenProcess(p) \/ StartCommand(p) \/ ReplayStart(p) \/ ResumeCommand(p)
         \/ CancelCommand(p) \/ RefuseRepair(p) \/ StopRefused(p) \/ Load(p) \/ Die(p)
         \/ BeginOwnAttempt(p) \/ RefuseCommand(p) \/ AdmitTerminal(p)
      PROVE  TreesKept
  BY <1>1, NoTreeTouched, RecordsStay, RowsStay
<1> QED
  BY <1>1, ObservedFrozen, RepairTrees, TransitionTrees, ConfigureTrees, SpecialTrees,
     ProceedTrees, CommitTrees, WorkerTrees DEF DriveNext, Turn

-----------------------------------------------------------------------------
(* Rows, records and trees keep fitting *)

LEMMA NewRecordIs ==
  /\ NewRecord.phase = "MUTABLE" /\ NewRecord.manifest = None
  /\ NewRecord.writers = {} /\ NewRecord.readers = 0
  BY DEF NewRecord

\* The record that a freeze leaves, and what it says.
LEMMA Judgement ==
  ASSUME Core, DriveType, Commanding, NEW p \in Procs, TreeJudged(p)
  PROVE  LET g == plan[p].gen  r == records'[g] IN
         /\ g \in Generations /\ gens[g].state \notin Unmade
         /\ plan[p].cmd = "FREEZE" /\ plan[p].first \in Digests
         /\ \E second \in {source[g], None} :
              plan' = [plan EXCEPT ![p] = [plan[p] EXCEPT !.second = second, !.result = "PASS"]]
         /\ records' \in [Generations -> Record]
         /\ \A h \in Generations : h # g => records'[h] = records[h]
         /\ r.phase \in Closed /\ r.writers = {} /\ r.readers = 0
         /\ r.phase = "FROZEN" => r.manifest = source[g] /\ source[g] = plan'[p].second
         /\ plan[p].first = plan'[p].second => source[g] = plan'[p].second
<1> DEFINE g == plan[p].gen
<1>1. /\ plan[p].cmd = "FREEZE"
      /\ FreezeRecord(g, plan[p].first, plan'[p].second)
      /\ \E second \in {source[g], None} :
           plan' = [plan EXCEPT ![p] = [plan[p] EXCEPT !.second = second, !.result = "PASS"]]
  BY DEF TreeJudged, FreezeVerdict, SecondReading
<1>2. /\ g \in Generations /\ plan[p].first \in Digests /\ gens[g].state \notin Unmade
      /\ plan[p] \in Plan
  BY <1>1 DEF Core, TypeOK, PlanBinding, Commanding, Planning
<1>3. plan'[p].second \in {source[g], None} /\ plan'[p].second \in Digests \union {None}
  BY <1>1, <1>2 DEF Core, TypeOK, Plan
<1>4. plan[p].first # None
  BY <1>2, ConstantsAssumption
<1> DEFINE first == plan[p].first  second == plan'[p].second
           r == IF first = second THEN [NewRecord EXCEPT !.phase = "FROZEN", !.manifest = second]
                                  ELSE [NewRecord EXCEPT !.phase = "UNSAFE"]
<1>5. records' = [records EXCEPT ![g] = r]
  BY <1>1 DEF FreezeRecord
<1>6. r \in Record
  BY <1>3 DEF NewRecord, Record
<1>7. /\ r.phase \in Closed /\ r.writers = {} /\ r.readers = 0
      /\ r.phase = "FROZEN" => first = second /\ r.manifest = second
  BY DEF NewRecord, Closed
<1> HIDE DEF r
<1>8. records' \in [Generations -> Record] /\ records'[g] = r
      /\ \A h \in Generations : h # g => records'[h] = records[h]
  BY <1>2, <1>5, <1>6 DEF DriveType
<1> QED BY <1>1, <1>2, <1>3, <1>4, <1>7, <1>8

\* A tree that is closed stays so, and only somebody else writes it.
ClosedStay ==
  \A g \in Generations :
    gens[g].state # "NONE" /\ records[g].phase \in Closed =>
      /\ records'[g].phase \in Closed
      /\ tampers' = 0 => tampers = 0 /\ source'[g] = source[g]

LEMMA KeptFits ==
  ASSUME DriveType, NEW g \in Generations, Fits(g), RowKept(g),
         source'[g] = source[g], tampers' = tampers, RecordMove(records[g], records'[g])
  PROVE  Fits(g)'
  BY DEF Fits, RowKept, RecordMove, Closed, FrozenStates

LEMMA InventoryStep ==
  ASSUME Core, CandidateLineage, DriveType, Inventory, Commanding, DriveNext
  PROVE  Inventory' /\ ClosedStay /\ records' \in [Generations -> Record] /\ tampers' \in Nat
<1> USE DEF Core
<1>1. CASE TreesKept
  <2>1. Inventory'
    BY <1>1, KeptFits DEF TreesKept, RecordsKept, Inventory
  <2> QED BY <1>1, <2>1 DEF TreesKept, RecordsKept, RecordMove, ClosedStay, Closed, DriveType
<1>2. ASSUME NEW g \in Generations, TreeMade(g)
      PROVE  Inventory' /\ ClosedStay /\ records' \in [Generations -> Record] /\ tampers' \in Nat
  <2>1. records' \in [Generations -> Record] /\ records'[g] = NewRecord
        /\ \A h \in Generations : h # g => records'[h] = records[h]
    <3>1. NewRecord \in Record
      BY OneRecordWritten DEF DriveType
    <3> QED BY <1>2, <3>1 DEF TreeMade, DriveType
  <2>2. ASSUME NEW h \in Generations, h # g PROVE Fits(h)'
    <3>1. RecordMove(records[h], records'[h])
      BY <2>1, <2>2 DEF RecordMove, Inventory, Fits
    <3> QED BY <1>2, <2>2, <3>1, KeptFits DEF TreeMade, Inventory
  <2>3. Fits(g)'
    BY <1>2, <2>1, NewRecordIs DEF TreeMade, Fits, FrozenStates
  <2> QED BY <1>2, <2>1, <2>2, <2>3 DEF TreeMade, Inventory, ClosedStay, DriveType
<1>3. ASSUME NEW p \in Procs, TreeLeft(p)
      PROVE  Inventory' /\ ClosedStay /\ records' \in [Generations -> Record] /\ tampers' \in Nat
  <2>1. /\ ActiveState("MUTABLE") /\ UNCHANGED <<source, records, tampers>>
        /\ gens' = [gens EXCEPT ![wf.gen].state = "FREEZING"]
    BY <1>3 DEF TreeLeft, BeginCandidateFreeze
  <2>2. wf.gen \in Generations
    BY <2>1, Active
  <2>3. gens'[wf.gen].state = "FREEZING" /\ \A h \in Generations : h # wf.gen => gens'[h] = gens[h]
    BY <2>1, <2>2 DEF TypeOK, Generation
  <2>4. \A h \in Generations : Fits(h)'
    BY <2>1, <2>2, <2>3 DEF Inventory, Fits, FrozenStates
  <2> QED BY <2>1, <2>4 DEF Inventory, ClosedStay, DriveType
<1>4. ASSUME NEW p \in Procs, TreeJudged(p)
      PROVE  Inventory' /\ ClosedStay /\ records' \in [Generations -> Record] /\ tampers' \in Nat
  <2>1. UNCHANGED <<gens, source, tampers>>
    BY <1>4 DEF TreeJudged
  <2>2. PICK g \in Generations :
          /\ gens[g].state \notin Unmade /\ records' \in [Generations -> Record]
          /\ \A h \in Generations : h # g => records'[h] = records[h]
          /\ records'[g].phase \in Closed /\ records'[g].writers = {} /\ records'[g].readers = 0
          /\ records'[g].phase = "FROZEN" => records'[g].manifest = source[g]
    BY <1>4, Judgement
  <2>3. Fits(g)'
    BY <2>1, <2>2 DEF Fits, Inventory, Unmade
  <2>4. \A h \in Generations : h # g => Fits(h)'
    BY <2>1, <2>2 DEF Fits, Inventory
  <2>5. ClosedStay
    BY <2>1, <2>2 DEF ClosedStay
  <2> QED BY <2>1, <2>2, <2>3, <2>4, <2>5 DEF Inventory, DriveType
<1>5. ASSUME NEW p \in Procs, TreeFrozen(p)
      PROVE  Inventory' /\ ClosedStay /\ records' \in [Generations -> Record] /\ tampers' \in Nat
  <2>1. /\ plan[p].cmd = "FREEZE" /\ plan[p].result # None /\ VersionCurrent(p)
        /\ ActiveState("FREEZING") /\ plan[p].first = plan[p].second
        /\ gens' = [gens EXCEPT ![wf.gen] = [gens[wf.gen] EXCEPT !.state = "FROZEN",
                                                                !.frozen = plan[p].second]]
        /\ UNCHANGED <<records, source, tampers>>
    BY <1>5 DEF TreeFrozen, CompleteSourceFreeze, Unstable
  <2>2. wf.gen \in Generations /\ plan[p].gen = wf.gen
    BY <2>1, Active DEF Commanding, Planning, VersionCurrent
  <2>3. records[wf.gen].phase \in Closed /\ (tampers = 0 => source[wf.gen] = plan[p].second)
    BY <2>1, <2>2 DEF Commanding, Planning, Judged
  <2>4. gens[wf.gen] \in Generation
    BY <2>2 DEF TypeOK
  <2>5. gens'[wf.gen].state = "FROZEN" /\ gens'[wf.gen].frozen = plan[p].second
    BY <2>1, <2>2, <2>4 DEF TypeOK, Generation
  <2>6. \A h \in Generations : h # wf.gen => gens'[h] = gens[h]
    BY <2>1, <2>2 DEF TypeOK
  <2>7. PICK g \in Generations : g = wf.gen
    BY <2>2
  <2>8. Fits(g)'
    BY <2>1, <2>2, <2>3, <2>5, <2>7 DEF Inventory, Fits
  <2>9. \A h \in Generations : h # g => Fits(h)'
    BY <2>1, <2>6, <2>7 DEF Inventory, Fits
  <2> QED BY <2>1, <2>8, <2>9 DEF Inventory, ClosedStay, DriveType
<1>6. ASSUME NEW content \in Digests, Tamper(content)
      PROVE  Inventory' /\ ClosedStay /\ records' \in [Generations -> Record] /\ tampers' \in Nat
  <2>1. tampers' = tampers + 1 /\ tampers' \in Nat /\ tampers' # 0 /\ UNCHANGED <<gens, records>>
    BY <1>6 DEF Tamper, SourceChange, store, DriveType
  <2> QED BY <2>1 DEF Inventory, Fits, ClosedStay, DriveType
<1>7. ASSUME NEW content \in Digests, NEW p \in Procs, WorkerWrites(p, content)
      PROVE  Inventory' /\ ClosedStay /\ records' \in [Generations -> Record] /\ tampers' \in Nat
  <2>1. /\ UNCHANGED <<gens, records, tampers>> /\ records[wf.gen].phase = "MUTABLE"
        /\ source' = [source EXCEPT ![wf.gen] = content]
    BY <1>7 DEF WorkerWrites, SourceChange, store, driveVars
  <2>2. \A h \in Generations : h # wf.gen => source'[h] = source[h]
    BY <2>1 DEF TypeOK
  <2>3. \A h \in Generations : h = wf.gen => records[h].phase \notin Closed
    BY <2>1 DEF Closed
  <2>4. Inventory'
    BY <2>1, <2>2, <2>3 DEF Inventory, Fits, Closed
  <2> QED BY <2>1, <2>2, <2>3, <2>4 DEF ClosedStay, DriveType
<1> QED BY <1>1, <1>2, <1>3, <1>4, <1>5, <1>6, <1>7, TreesForm

-----------------------------------------------------------------------------
(* Commands keep to the authority they read *)

Begun(p) ==
  LET c == plan'[p] IN
  /\ UNCHANGED <<store, source>> /\ c.version = wf.version /\ c.gen = wf.gen
  /\ c.cmd \in {"FREEZE", "VERIFY", "EVIDENCE_SET", "EVALUATE", "CLOSE", "REPAIR"}
  /\ c.cmd = "FREEZE" => ActiveState("FREEZING") /\ (c.result = None \/ c.first # c.second)
Continued(p) ==
  LET c == plan'[p] IN
  /\ c.cmd = "VERIFY" /\ plan[p].cmd = "VERIFY"
  /\ c.version = plan[p].version /\ c.gen = plan[p].gen
PlanMove(p) ==
  /\ \A q \in Procs : q # p => plan'[q] = plan[q]
  /\ \/ plan'[p] = Idle \/ Begun(p) \/ Continued(p) \/ TreeJudged(p)

LEMMA PlannedIs ==
  ASSUME NEW cmd, NEW d
  PROVE  LET c == Planned(cmd, d) IN
         /\ c.cmd = cmd /\ c.version = wf.version /\ c.gen = wf.gen /\ c.first = d
         /\ c.second = None /\ c.result = None
  BY DEF Planned, Idle

LEMMA BeginIs ==
  ASSUME TypeOK, NEW p \in Procs, NEW c, Begin(p, c)
  PROVE  plan'[p] = c /\ plan[p] = Idle /\ \A q \in Procs : q # p => plan'[q] = plan[q]
  BY DEF TypeOK, Begin

LEMMA DoneIs ==
  ASSUME TypeOK, NEW p \in Procs, Done(p)
  PROVE  plan'[p] = Idle /\ \A q \in Procs : q # p => plan'[q] = plan[q]
  BY DEF TypeOK, Done

\* What a drive begins to observe with.
LEMMA Begins ==
  ASSUME Core, NEW p \in Procs,
         RepairCommand(p) \/ ObserveCandidate(p) \/ CompleteSpecialAttempt(p)
  PROVE  Begun(p) /\ PlanMove(p) /\ plan'[p].cmd # "NONE"
<1> USE DEF Core
<1>1. ASSUME NEW cmd \in {"EVIDENCE_SET", "EVALUATE"}, BeginObservation(p, cmd)
      PROVE  Begun(p) /\ PlanMove(p)
  <2>1. Begin(p, Planned(cmd, source[wf.gen])) /\ Observed
    BY <1>1 DEF BeginObservation
  <2>2. Begun(p)
    BY <2>1, PlannedIs, BeginIs DEF Begun, Observed
  <2> QED BY <2>1, <2>2, BeginIs DEF PlanMove
<1>2. ASSUME NEW cmd \in {"CLOSE", "REPAIR"}, NEW d, BeginConsumption(p, cmd, d)
      PROVE  Begun(p) /\ PlanMove(p)
  <2> DEFINE c == [Planned(cmd, source[wf.gen]) EXCEPT !.decision = d]
  <2>1. Begin(p, c) /\ Observed
    BY <1>2 DEF BeginConsumption
  <2>2. c.cmd = cmd /\ c.version = wf.version /\ c.gen = wf.gen
    BY DEF Planned, Idle
  <2> HIDE DEF c
  <2>3. Begun(p)
    BY <2>1, <2>2, BeginIs DEF Begun, Observed
  <2> QED BY <2>1, <2>3, BeginIs DEF PlanMove
<1>3. CASE BeginFreeze(p)
  <2>1. Begin(p, Planned("FREEZE", source[wf.gen])) /\ Observed /\ ActiveState("FREEZING")
    BY <1>3 DEF BeginFreeze
  <2>2. Begun(p)
    BY <2>1, PlannedIs, BeginIs DEF Begun, Observed
  <2> QED BY <2>1, <2>2, BeginIs DEF PlanMove, Begun
<1>4. ASSUME ActiveState("FREEZING"), Observed,
             Begin(p, [Planned("FREEZE", source[wf.gen]) EXCEPT !.result = "PASS"])
      PROVE  Begun(p) /\ PlanMove(p)
  <2> DEFINE c == [Planned("FREEZE", source[wf.gen]) EXCEPT !.result = "PASS"]
  <2>1. /\ c.cmd = "FREEZE" /\ c.version = wf.version /\ c.gen = wf.gen
        /\ c.first = source[wf.gen] /\ c.second = None
    BY DEF Planned, Idle
  <2>2. source[wf.gen] # None
    BY <1>4, Active, ConstantsAssumption
  <2> HIDE DEF c
  <2>3. Begun(p)
    BY <1>4, <2>1, <2>2, BeginIs DEF Begun, Observed, c
  <2> QED BY <1>4, <2>3, BeginIs DEF PlanMove
<1>5. ASSUME NEW o \in Obligations, BeginVerification(p, o)
      PROVE  Begun(p) /\ PlanMove(p)
  <2> DEFINE c == [Planned("VERIFY", source[wf.gen]) EXCEPT !.obligation = o]
  <2>1. Begin(p, c) /\ Observed
    BY <1>5 DEF BeginVerification
  <2>2. c.cmd = "VERIFY" /\ c.version = wf.version /\ c.gen = wf.gen
    BY DEF Planned, Idle
  <2> HIDE DEF c
  <2>3. Begun(p)
    BY <2>1, <2>2, BeginIs DEF Begun, Observed
  <2> QED BY <2>1, <2>3, BeginIs DEF PlanMove
<1>6. Begun(p) => plan'[p].cmd # "NONE"
  BY DEF Begun
<1> QED
  BY <1>1, <1>2, <1>3, <1>4, <1>5, <1>6
     DEF RepairCommand, ObserveCandidate, CompleteSpecialAttempt, ObserveFrozen, ObserveConsumed,
         ObserveFreeze, VerifyWorkspace

LEMMA Proceeds ==
  ASSUME Core, DriveType, Inventory, NEW p \in Procs, Proceed(p)
  PROVE  PlanMove(p) /\ (Continued(p) \/ TreeJudged(p))
<1> USE DEF Core
<1>1. CASE FreezeVerdict(p)
  <2>1. TreeJudged(p)
    BY <1>1 DEF TreeJudged, FreezeVerdict, SecondReading, Observed, store, Proceed, driveVars
  <2>2. \A q \in Procs : q # p => plan'[q] = plan[q]
    BY <1>1 DEF FreezeVerdict, SecondReading, TypeOK
  <2> QED BY <2>1, <2>2 DEF PlanMove
<1>2. CASE RunCheck(p)
  <2>1. PICK second, result :
          plan' = [plan EXCEPT ![p] = [plan[p] EXCEPT !.second = second, !.result = result]]
    BY <1>2 DEF RunCheck
  <2>2. plan[p] \in Plan /\ plan[p].cmd = "VERIFY"
    BY <1>2 DEF RunCheck, TypeOK
  <2>3. Continued(p)
    BY <2>1, <2>2 DEF Continued, TypeOK, Plan
  <2>4. \A q \in Procs : q # p => plan'[q] = plan[q]
    BY <2>1 DEF TypeOK
  <2> QED BY <2>3, <2>4 DEF PlanMove
<1> QED BY <1>1, <1>2 DEF Proceed, RecheckWorkspace

LEMMA PlanActs ==
  ASSUME Core, DriveType, Inventory, NEW p \in Procs, Acts(p)
  PROVE  UNCHANGED plan \/ PlanMove(p)
<1> USE DEF Core
<1>1. ASSUME Done(p) PROVE PlanMove(p)
  BY <1>1, DoneIs DEF PlanMove
<1>2. ASSUME CommitRepair(p) \/ RefuseRepair(p) \/ RefuseCommand(p) \/ Die(p) \/ CommitCommand(p)
      PROVE  Done(p)
  BY <1>2 DEF CommitRepair, RefuseRepair, RefuseCommand, Die, CommitCommand, AbandonCommand,
              CommitIntegrityFailure, RepairWorkspace, BeginAcceptanceRepair, Done,
              CompleteVerification, CompleteLocalVerification, CompleteSourceFreeze,
              CommitEvidenceSet, EvaluateAcceptance, CloseAcceptedGoal
<1>3. ASSUME OpenProcess(p) PROVE UNCHANGED plan
  BY <1>3 DEF OpenProcess, StartupRecovery, vars
<1>4. ASSUME StartCommand(p) \/ BeginOwnAttempt(p) PROVE UNCHANGED plan
  BY <1>4 DEF StartCommand, BeginOwnAttempt, StartGoal, BeginAttempt
<1>5. ASSUME ReplayStart(p) \/ ResumeCommand(p) \/ CancelCommand(p) \/ StopRefused(p) \/ Load(p)
      PROVE UNCHANGED plan
  BY <1>5 DEF ReplayStart, ResumeCommand, CancelCommand, CancelGoal, StopRefused, Load, Stop,
              KeepControl, vars
<1>6. ASSUME TransitionPhase(p) \/ Configure(p) \/ DieConfiguring(p)
      PROVE  UNCHANGED plan
  BY <1>6 DEF TransitionPhase, BeginPlanning, BeginCandidateFreeze, BeginEvidenceBuild,
              PrepareWorkspace, PrepareCandidate, Configure, ConfigureWorkspace,
              ConfigureLocalVerification, DieConfiguring
<1>7. ASSUME DispatchOwnedAttempt(p) \/ AdmitTerminal(p) \/ StreamEnds(p)
      PROVE  UNCHANGED plan
  BY <1>7 DEF DispatchOwnedAttempt, AdmitTerminal, StreamEnds, Stop, RecordAttemptFailure,
              RecordAttemptResult, RecordPortFailure, vars
<1> QED
  BY <1>1, <1>2, <1>3, <1>4, <1>5, <1>6, <1>7, Begins, Proceeds DEF Acts, Turn

LEMMA PlansForm ==
  ASSUME Core, DriveType, Inventory, DriveNext
  PROVE  UNCHANGED plan \/ \E p \in Procs : PlanMove(p)
  BY Actor, PlanActs, WritesMove

LEMMA WorkflowKept ==
  ASSUME TypeOK, wf'.version = wf.version + 1 \/ UNCHANGED Consumed
  PROVE  /\ wf.version \in Nat /\ wf'.version \in Nat /\ wf.version <= wf'.version
         /\ \A v : v <= wf.version /\ v = wf'.version => UNCHANGED Consumed
<1>1. wf.version \in Nat
  BY DEF TypeOK, Workflow
<1>2. wf'.version \in Nat
  BY <1>1 DEF Consumed
<1>3. CASE wf'.version = wf.version + 1
  BY <1>1, <1>3
<1>4. CASE UNCHANGED Consumed
  BY <1>1, <1>4 DEF Consumed
<1> QED BY <1>1, <1>2, <1>3, <1>4

LEMMA CommandingStep ==
  ASSUME Core, CandidateLineage, DriveType, Inventory, Commanding, DriveNext
  PROVE  Commanding'
<1> USE DEF Core
<1>1. /\ GenerationsMove /\ ClosedStay
      /\ wf'.version = wf.version + 1 \/ UNCHANGED Consumed
  BY ControlStep, InventoryStep
<1>2. /\ wf.version \in Nat /\ wf'.version \in Nat /\ wf.version <= wf'.version
      /\ \A v : v <= wf.version /\ v = wf'.version => UNCHANGED Consumed
  BY <1>1, WorkflowKept
<1>3. ASSUME NEW q \in Procs, plan'[q] = plan[q] PROVE Planning(q)'
  <2>1. Planning(q) /\ plan[q] \in Plan /\ plan[q].version \in Nat
    BY DEF Commanding, TypeOK, Plan
  <2>2. plan[q].cmd # "NONE" => /\ plan[q].version <= wf'.version
                                /\ plan[q].version = wf'.version => plan[q].gen = wf'.gen
    BY <1>2, <2>1 DEF Planning, Consumed
  <2>3. ASSUME plan[q].cmd = "FREEZE"
        PROVE  /\ gens'[plan[q].gen].state \notin Unmade
               /\ Judged(q) => /\ records'[plan[q].gen].phase \in Closed
                               /\ tampers' = 0 => source'[plan[q].gen] = plan[q].second
    <3>1. plan[q].gen \in Generations /\ gens[plan[q].gen].state \notin Unmade
      BY <2>1, <2>3 DEF PlanBinding, Planning
    <3>2. gens'[plan[q].gen].state \notin Unmade
      BY <1>1, <3>1 DEF GenerationsMove, GenerationMove, Unmade
    <3>3. gens[plan[q].gen].state # "NONE"
      BY <3>1 DEF Unmade
    <3> QED BY <1>1, <2>1, <3>1, <3>2, <3>3 DEF Planning, ClosedStay
  <2> QED BY <1>3, <2>2, <2>3 DEF Planning, Judged
<1>4. ASSUME NEW p \in Procs, plan'[p] = Idle PROVE Planning(p)'
  BY <1>4 DEF Planning, Judged, Idle
<1>5. ASSUME NEW p \in Procs, Begun(p) PROVE Planning(p)'
  <2>1. UNCHANGED <<wf, gens>>
    BY <1>5 DEF Begun, store
  <2>2. ActiveState("FREEZING") => gens[wf.gen].state \notin Unmade
    BY DEF ActiveState, Unmade
  <2> QED BY <1>2, <1>5, <2>1, <2>2 DEF Begun, Planning, Judged
<1>6. ASSUME NEW p \in Procs, Continued(p) PROVE Planning(p)'
  <2>1. Planning(p) /\ plan[p] \in Plan /\ plan[p].version \in Nat
    BY DEF Commanding, TypeOK, Plan
  <2> QED BY <1>2, <1>6, <2>1 DEF Continued, Planning, Judged, Consumed
<1>7. ASSUME NEW p \in Procs, TreeJudged(p) PROVE Planning(p)'
  <2>1. /\ plan[p].gen \in Generations /\ gens[plan[p].gen].state \notin Unmade
        /\ plan[p].cmd = "FREEZE"
        /\ \E second \in {source[plan[p].gen], None} :
             plan' = [plan EXCEPT ![p] = [plan[p] EXCEPT !.second = second, !.result = "PASS"]]
        /\ records'[plan[p].gen].phase \in Closed
        /\ plan[p].first = plan'[p].second => source[plan[p].gen] = plan'[p].second
    BY <1>7, Judgement
  <2>2. plan[p] \in Plan /\ Planning(p) /\ UNCHANGED <<store, source>>
    BY <1>7 DEF TypeOK, Commanding, TreeJudged, FreezeVerdict, SecondReading, Observed
  <2>3. /\ plan'[p].cmd = plan[p].cmd /\ plan'[p].version = plan[p].version
        /\ plan'[p].gen = plan[p].gen /\ plan'[p].first = plan[p].first
    BY <2>1, <2>2 DEF TypeOK, Plan
  <2> QED BY <2>1, <2>2, <2>3 DEF Planning, Judged, store
<1>8. CASE UNCHANGED plan
  BY <1>3, <1>8 DEF Commanding
<1> QED BY <1>3, <1>4, <1>5, <1>6, <1>7, <1>8, PlansForm DEF Commanding, PlanMove

-----------------------------------------------------------------------------
(* Who holds a tree *)

LEMMA LeaseStays ==
  ASSUME Core, CandidateLineage, DriveType, Inventory, Commanding, WritersExclusive, DriveNext,
         NEW q \in Procs, NEW g \in Generations, drive[q].tree = g, drive'[q].tree = g,
         gens[g].state = "MUTABLE", drive[q].owned \in records[g].writers
  PROVE  drive[q].owned \in records'[g].writers
<1>1. g # None
  BY ConstantsAssumption
<1>2. CASE TreesKept
  <2>1. ASSUME NEW p \in Procs, Returns(p) PROVE drive[q].owned \in records'[g].writers
    <3>1. drive[p] \in Drive /\ [drive[p] EXCEPT !.tree = None] \in Drive
      BY DriveUpdates DEF DriveType
    <3>2. [drive[p] EXCEPT !.tree = None].tree = None
      BY <3>1 DEF Drive
    <3>3. drive'[p].tree = None
      BY <2>1, <3>1, <3>2, AgainType DEF Returns, StreamEnds, Again, Set, DriveType
    <3>4. drive[p].tree # g
      BY <1>1, <3>3 DEF WritersExclusive
    <3> QED BY <2>1, <3>4 DEF Returns, ReleaseWriter, DriveType
  <2> QED BY <1>2, <2>1 DEF TreesKept, LeasesKept
<1>3. ASSUME NEW h \in Generations, TreeMade(h) PROVE drive[q].owned \in records'[g].writers
  <2>1. h # g /\ records' = [records EXCEPT ![h] = NewRecord]
    BY <1>3 DEF TreeMade
  <2> QED BY <2>1 DEF DriveType
<1>4. ASSUME NEW p \in Procs, TreeJudged(p) PROVE drive[q].owned \in records'[g].writers
  <2>1. plan[p].gen # g /\ \A h \in Generations : h # plan[p].gen => records'[h] = records[h]
    BY <1>4, Judgement DEF Unmade
  <2> QED BY <2>1
<1>5. ASSUME \/ \E p \in Procs : TreeLeft(p) \/ TreeFrozen(p)
             \/ \E content \in Digests :
                  Tamper(content) \/ \E p \in Procs : WorkerWrites(p, content)
      PROVE  records' = records
  BY <1>5 DEF TreeLeft, TreeFrozen, Tamper, WorkerWrites
<1> QED BY <1>2, <1>3, <1>4, <1>5, TreesForm

LEMMA MovedIs ==
  ASSUME DriveType, NEW p \in Procs, NEW d \in Drive, Moves(p, d)
  PROVE  /\ drive'[p] = d /\ drive' \in [Procs -> Drive]
         /\ \A q \in Procs : q # p => drive'[q] = drive[q]
  BY DEF DriveType, Moves, Set

\* The tree a drive is granted is one that nobody else writes.
LEMMA Grant ==
  ASSUME Core, CandidateLineage, DriveType, NEW p \in Procs, NEW d \in Drive, Granted(p, d)
  PROVE  /\ d.tree = wf.gen /\ wf.gen \in Generations /\ gens[wf.gen].state = "MUTABLE"
         /\ records[wf.gen].writers = {} /\ d.owned \in records'[wf.gen].writers
         /\ d.at = "WORKER" /\ UNCHANGED gens
<1>1. /\ wf.phase = "IMPLEMENT" /\ MayWrite(wf.gen) /\ IssueWriter(wf.gen, d.owned)
      /\ d.tree = wf.gen /\ d.at = "WORKER" /\ UNCHANGED gens
  BY DEF Granted, vars
<1>2. wf.gen \in Generations /\ gens[wf.gen].state = "MUTABLE"
  BY <1>1 DEF CandidateLineage, Core, TypeOK, Workflow, PhaseStates
<1>3. d.owned \in records'[wf.gen].writers
  BY <1>1, <1>2 DEF IssueWriter, DriveType, Record
<1> QED BY <1>1, <1>2, <1>3 DEF MayWrite

LEMMA LeasedStep ==
  ASSUME Core, CandidateLineage, DriveType, Inventory, Commanding, Driving, WritersExclusive,
         DriveNext
  PROVE  \A q \in Procs : Leased(q)'
<1> USE DEF Core
<1>1. GenerationsMove
  BY ControlStep
<1>2. ASSUME NEW q \in Procs, drive'[q].tree = drive[q].tree, drive'[q].owned = drive[q].owned,
             drive'[q].at \in {"WORKER", "DRAIN"} \/ drive'[q].at = drive[q].at
      PROVE  Leased(q)'
  <2>1. Leased(q)
    BY DEF Driving
  <2>2. CASE drive[q].tree = None
    BY <1>2, <2>2 DEF Leased
  <2>3. ASSUME NEW g \in Generations, drive[q].tree = g PROVE Leased(q)'
    <3>1. /\ drive[q].at \in {"WORKER", "DRAIN"} /\ gens[g].state # "NONE"
          /\ gens[g].state = "MUTABLE" => drive[q].owned \in records[g].writers
      BY <2>1, <2>3, ConstantsAssumption DEF Leased
    <3>2. gens'[g].state # "NONE" /\ (gens'[g].state = "MUTABLE" => gens[g].state = "MUTABLE")
      BY <1>1, <3>1 DEF GenerationsMove, GenerationMove
    <3>3. gens[g].state = "MUTABLE" => drive[q].owned \in records'[g].writers
      BY <1>2, <2>3, <3>1, LeaseStays
    <3> QED BY <1>2, <2>3, <3>1, <3>2, <3>3 DEF Leased
  <2> QED BY <2>2, <2>3 DEF DriveType, Drive
<1>3. ASSUME NEW p \in Procs, NEW d \in Drive, Moves(p, d) PROVE Leased(p)'
  <2>1. drive'[p] = d /\ drive[p] \in Drive
    BY <1>3, MovedIs DEF DriveType
  <2>2. CASE d.tree = None
    BY <2>1, <2>2 DEF Leased
  <2>3. CASE Unleased(p) /\ d.tree = drive[p].tree
    BY <2>1, <2>3 DEF Leased, Driving, Unleased
  <2>4. CASE d = [drive[p] EXCEPT !.at = "DRAIN"]
    <3>1. d.tree = drive[p].tree /\ d.owned = drive[p].owned /\ d.at = "DRAIN"
      BY <2>1, <2>4 DEF Drive
    <3> QED BY <1>2, <2>1, <3>1
  <2>5. CASE Granted(p, d)
    <3>1. PICK g \in Generations : g = wf.gen
      BY <2>5, Grant
    <3>2. /\ d.tree = g /\ gens'[g].state = "MUTABLE" /\ d.owned \in records'[g].writers
          /\ d.at = "WORKER"
      BY <2>5, <3>1, Grant
    <3> QED BY <2>1, <3>2 DEF Leased
  <2> QED BY <1>3, <2>2, <2>3, <2>4, <2>5 DEF Moves
<1>4. CASE UNCHANGED drive
  BY <1>2, <1>4
<1>5. ASSUME NEW p \in Procs, NEW d \in Drive, Moves(p, d) PROVE \A q \in Procs : Leased(q)'
  <2>1. \A q \in Procs : q # p => drive'[q] = drive[q]
    BY <1>5, MovedIs
  <2> QED BY <1>2, <1>3, <1>5, <2>1
<1> QED BY <1>4, <1>5, DriveMoves

LEMMA ExclusiveStep ==
  ASSUME Core, CandidateLineage, DriveType, Driving, WritersExclusive, DriveNext
  PROVE  WritersExclusive'
<1>1. CASE UNCHANGED drive
  BY <1>1 DEF WritersExclusive
<1>2. ASSUME NEW p \in Procs, NEW d \in Drive, Moves(p, d) PROVE WritersExclusive'
  <2>1. drive'[p] = d /\ drive[p] \in Drive /\ \A q \in Procs : q # p => drive'[q] = drive[q]
    BY <1>2, MovedIs DEF DriveType
  <2>2. CASE d.tree = None \/ d.tree = drive[p].tree
    BY <2>1, <2>2 DEF WritersExclusive
  <2>3. CASE d = [drive[p] EXCEPT !.at = "DRAIN"]
    BY <2>1, <2>2, <2>3 DEF Drive
  <2>4. CASE Granted(p, d)
    <3>1. \A q \in Procs : drive[q].tree # wf.gen
      BY <2>4, Grant, ConstantsAssumption DEF Driving, Leased
    <3> QED BY <2>1, <2>4, <3>1, Grant DEF WritersExclusive
  <2> QED BY <1>2, <2>2, <2>3, <2>4 DEF Moves
<1> QED BY <1>1, <1>2, DriveMoves

-----------------------------------------------------------------------------
(* Whose work a tree holds *)

LEMMA ContextStep ==
  ASSUME Core, DriveType, DriveNext
  PROVE  \/ UNCHANGED contextGen
         \/ \E a \in Attempts : /\ attempts[a].status = "NONE"
                                /\ contextGen' = [contextGen EXCEPT ![a] = wf.gen]
<1>1. ASSUME NEW p \in Procs, StartCommand(p) \/ BeginOwnAttempt(p)
      PROVE  \E a \in Attempts : /\ attempts[a].status = "NONE"
                                 /\ contextGen' = [contextGen EXCEPT ![a] = wf.gen]
  <2>1. PICK a \in Attempts : FreshAttempt(a) /\ BindContext(a)
    BY <1>1 DEF StartCommand, BeginOwnAttempt, StartGoal, BeginAttempt
  <2> QED BY <2>1, NextNumber DEF BindContext
<1>2. ASSUME NEW p \in Procs,
             \/ OpenProcess(p) \/ ReplayStart(p) \/ ResumeCommand(p) \/ RepairCommand(p)
             \/ CancelCommand(p) \/ Die(p) \/ DieConfiguring(p) \/ Load(p) \/ StopRefused(p)
             \/ TransitionPhase(p) \/ Configure(p) \/ ObserveCandidate(p)
             \/ CompleteSpecialAttempt(p) \/ Proceed(p) \/ CommitCommand(p) \/ RefuseCommand(p)
             \/ CommitRepair(p) \/ RefuseRepair(p) \/ DispatchOwnedAttempt(p)
             \/ AdmitTerminal(p) \/ StreamEnds(p)
      PROVE  UNCHANGED contextGen
  BY <1>2 DEF OpenProcess, ReplayStart, ResumeCommand, RepairCommand, CancelCommand, Die,
              DieConfiguring, Load, StopRefused, Stop, TransitionPhase, Configure,
              ObserveCandidate, CompleteSpecialAttempt, Proceed, CommitCommand, RefuseCommand,
              CommitRepair, RefuseRepair, DispatchOwnedAttempt, AdmitTerminal, StreamEnds,
              KeepControl, KeepRest, driveVars
<1>3. ASSUME NEW content \in Digests,
             Tamper(content) \/ \E p \in Procs : WorkerWrites(p, content)
      PROVE  UNCHANGED contextGen
  BY <1>3 DEF Tamper, WorkerWrites, driveVars
<1> QED BY <1>1, <1>2, <1>3 DEF DriveNext, Turn

LEMMA DriveTypeStep ==
  ASSUME Core, CandidateLineage, DriveType, Inventory, Commanding, DriveNext
  PROVE  DriveType'
<1>1. drive' \in [Procs -> Drive]
  BY DriveMoves, MovedIs DEF DriveType
<1>2. contextGen' \in [Attempts -> Generations \union {None}]
  BY ContextStep DEF DriveType, Core, TypeOK, Workflow
<1> QED BY <1>1, <1>2, InventoryStep DEF DriveType

\* Work that is done stays done, for the generation it was done for.
LEMMA ImplementedStays ==
  ASSUME Core, CandidateLineage, DriveType, DriveNext, NEW g \in Generations, Implemented(g)
  PROVE  Implemented(g)'
<1>1. PICK a \in Attempts : ImplementedBy(a, g)
  BY DEF Implemented
<1>2. attempts'[a] = attempts[a]
  BY <1>1, ControlStep DEF ImplementedBy, AttemptsMove, AttemptMove
<1>3. contextGen'[a] = contextGen[a]
  BY <1>1, ContextStep DEF ImplementedBy, DriveType
<1> QED BY <1>1, <1>2, <1>3 DEF Implemented, ImplementedBy

LEMMA LoadedStep ==
  ASSUME Core, CandidateLineage, DriveType, Driving, DriveNext
  PROVE  \A q \in Procs : Loaded(q)'
<1> USE DEF Core
<1>1. /\ wf.version \in Nat /\ wf'.version \in Nat /\ wf.version <= wf'.version
      /\ \A v : v <= wf.version /\ v = wf'.version => UNCHANGED Consumed
  BY ControlStep, WorkflowKept
<1>2. ASSUME NEW g \in Generations \union {None}, wf.phase = "IMPLEMENT", g = wf.gen,
             Implemented(g)
      PROVE  Implemented(g)'
  <2>1. g \in Generations
    BY <1>2 DEF CandidateLineage
  <2> QED BY <1>2, <2>1, ImplementedStays
<1>3. ASSUME NEW q \in Procs, drive'[q].loaded = drive[q].loaded, drive'[q].next = drive[q].next
      PROVE  Loaded(q)'
  <2>1. Loaded(q) /\ drive[q].loaded \in Nat
    <3>1. drive[q].loaded \in 0..MaxVersion
      BY DEF DriveType, Drive
    <3> QED BY <3>1, NoVersion DEF Driving
  <2>2. drive'[q].loaded <= wf'.version
    BY <1>1, <1>3, <2>1 DEF Loaded
  <2>3. ASSUME drive'[q].loaded = wf'.version, drive'[q].next = "TRANSITION",
               wf'.status = "READY", wf'.phase = "IMPLEMENT"
        PROVE  Implemented(wf.gen)' /\ wf' = wf
    <3>1. UNCHANGED wf
      BY <1>1, <1>3, <2>1, <2>3 DEF Loaded, Consumed
    <3>2. Implemented(wf.gen)
      BY <1>3, <2>1, <2>3, <3>1 DEF Loaded
    <3>3. PICK g \in Generations \union {None} : g = wf.gen
      BY DEF TypeOK, Workflow
    <3>4. Implemented(g)'
      BY <1>2, <2>3, <3>1, <3>2, <3>3
    <3> QED BY <3>1, <3>3, <3>4
  <2> QED BY <2>2, <2>3 DEF Loaded
<1>4. ASSUME NEW q \in Procs, drive'[q].loaded = 0 PROVE Loaded(q)'
  <2>1. wf.version >= 1
    BY DEF TypeOK, Workflow
  <2>2. 0 <= wf'.version /\ 0 # wf'.version
    BY <1>1, <2>1
  <2> QED BY <1>4, <2>2 DEF Loaded
<1>5. ASSUME NEW p \in Procs, NEW d \in Drive, drive'[p] = d, Loads(p, d) PROVE Loaded(p)'
  <2>1. UNCHANGED vars /\ d.loaded = wf.version
        /\ d.next = IF wf.status = "READY" THEN ReadyOperation ELSE None
    BY <1>5 DEF Loads
  <2>2. wf' = wf
    BY <2>1 DEF vars
  <2>3. ASSUME d.next = "TRANSITION", wf.status = "READY", wf.phase = "IMPLEMENT"
        PROVE  Implemented(wf.gen)
    <3>1. ReadyOperation = "TRANSITION"
      BY <2>1, <2>3
    <3>2. PhaseAttemptCompleted
      BY <2>3, <3>1 DEF ReadyOperation
    <3> QED BY <2>3, <3>2 DEF PhaseAttemptCompleted, PhaseAttempts, Implemented, ImplementedBy
  <2>4. PICK g \in Generations \union {None} : g = wf.gen
    BY DEF TypeOK, Workflow
  <2>5. ASSUME d.next = "TRANSITION", wf.status = "READY", wf.phase = "IMPLEMENT"
        PROVE  Implemented(g)'
    BY <1>2, <2>3, <2>4, <2>5
  <2> QED BY <1>1, <1>5, <2>1, <2>2, <2>4, <2>5 DEF Loaded
<1>6. ASSUME NEW p \in Procs, NEW d \in Drive, Moves(p, d) PROVE \A q \in Procs : Loaded(q)'
  <2>1. drive'[p] = d /\ \A q \in Procs : q # p => drive'[q] = drive[q]
    BY <1>6, MovedIs
  <2>2. Loaded(p)'
    BY <1>3, <1>4, <1>5, <1>6, <2>1 DEF Moves
  <2> QED BY <1>3, <2>1, <2>2
<1> QED BY <1>3, <1>6, DriveMoves

LEMMA ImplementationStep ==
  ASSUME Core, CandidateLineage, DriveType, Inventory, Driving, FrozenAfterImplementation, DriveNext
  PROVE  FrozenAfterImplementation'
<1>1. \A g \in Generations : gens[g].state \notin Unmade => Implemented(g)
  BY DEF FrozenAfterImplementation, Unmade, Implemented, ImplementedBy
<1>2. ASSUME NEW g \in Generations, gens'[g].state \notin Unmade PROVE Implemented(g)'
  <2>1. CASE gens[g].state \notin Unmade
    BY <1>1, <2>1, ImplementedStays
  <2>2. ASSUME gens[g].state \in Unmade PROVE gens[g].state = "MUTABLE" /\ gens'[g].state = "FREEZING"
    BY <1>2, <2>2, ControlStep DEF GenerationsMove, GenerationMove, Unmade
  <2>3. ASSUME gens[g].state = "MUTABLE", gens'[g].state = "FREEZING" PROVE Implemented(g)'
    <3>1. ~RowKept(g)
      BY <2>3 DEF RowKept
    <3>2. ASSUME NEW h \in Generations, TreeMade(h) PROVE FALSE
      BY <2>3, <3>1, <3>2 DEF TreeMade
    <3>3. ASSUME NEW p \in Procs, TreeJudged(p) \/ TreeFrozen(p) PROVE FALSE
      <4>1. TreeFrozen(p)
        BY <2>3, <3>3 DEF TreeJudged
      <4>2. /\ ActiveState("FREEZING")
            /\ gens' = [gens EXCEPT ![wf.gen] = [gens[wf.gen] EXCEPT !.state = "FROZEN",
                                                                    !.frozen = plan[p].second]]
        BY <4>1 DEF TreeFrozen, CompleteSourceFreeze
      <4> QED BY <2>3, <4>2, Active DEF Core, TypeOK, ActiveState
    <3>4. ASSUME NEW content \in Digests,
                 Tamper(content) \/ \E p \in Procs : WorkerWrites(p, content)
          PROVE  FALSE
      BY <2>3, <3>4 DEF Tamper, WorkerWrites, SourceChange, store
    <3>5. PICK p \in Procs : TreeLeft(p)
      BY <3>1, <3>2, <3>3, <3>4, TreesForm DEF TreesKept
    <3>6. /\ Acting(p, "TRANSITION") /\ wf.phase = "IMPLEMENT" /\ ActiveState("MUTABLE")
          /\ gens' = [gens EXCEPT ![wf.gen].state = "FREEZING"]
      BY <3>5 DEF TreeLeft, BeginCandidateFreeze, Ready
    <3>7. wf.gen = g
      BY <2>3, <3>6 DEF Core, TypeOK
    <3>8. Implemented(g)
      BY <3>6, <3>7 DEF Acting, Fresh, Driving, Loaded
    <3> QED BY <3>8, ImplementedStays
  <2> QED BY <2>1, <2>2, <2>3
<1> QED BY <1>2 DEF FrozenAfterImplementation, Unmade, Implemented, ImplementedBy

-----------------------------------------------------------------------------
(* The invariant holds *)

LEMMA DriveInvariantInit == DriveInit => DriveInvariant
<1> SUFFICES ASSUME DriveInit PROVE DriveInvariant
  OBVIOUS
<1>1. Core /\ CandidateLineage
  BY CoreInit, LineageInit DEF DriveInit
<1>2. NoRecord \in Record /\ NoRecord.phase = "NONE" /\ NoRecord.writers = {} /\ NoRecord.readers = 0
  BY DEF NoRecord, NewRecord, Record
<1>3. DriveType
  BY <1>2, OutType DEF DriveInit, RecordsInit, DriveType
<1>4. \A g \in Generations : records[g] = NoRecord /\ gens[g].state = "NONE"
  BY DEF DriveInit, RecordsInit, Init
<1>5. Inventory
  BY <1>2, <1>4 DEF Inventory, Fits, FrozenStates
<1>6. Commanding
  BY DEF DriveInit, Init, Commanding, Planning, Judged, Idle
<1>7. \A p \in Procs : drive[p].tree = None /\ drive[p].loaded = 0 /\ wf.version = 1
  BY DEF DriveInit, Init, Out
<1>8. Driving /\ WritersExclusive
  BY <1>7 DEF Driving, Loaded, Leased, WritersExclusive
<1>9. FrozenAfterImplementation
  BY <1>4 DEF FrozenAfterImplementation
<1> QED BY <1>1, <1>3, <1>5, <1>6, <1>8, <1>9 DEF DriveInvariant

LEMMA DriveInvariantStep == DriveInvariant /\ [DriveNext]_allVars => DriveInvariant'
<1>1. ASSUME DriveInvariant, DriveNext PROVE DriveInvariant'
  BY <1>1, ControlStep, DriveTypeStep, InventoryStep, CommandingStep, LeasedStep, LoadedStep,
     ImplementationStep, ExclusiveStep DEF DriveInvariant, Driving
<1>2. ASSUME DriveInvariant, UNCHANGED allVars PROVE DriveInvariant'
  <2>1. UNCHANGED vars /\ UNCHANGED <<records, drive, contextGen, tampers>>
    BY <1>2 DEF allVars, driveVars
  <2>2. Core' /\ CandidateLineage'
    BY <1>2, <2>1, CoreStep DEF DriveInvariant, CandidateLineage, ActiveState, vars
  <2>3. DriveType' /\ Inventory' /\ Commanding'
    BY <1>2, <2>1 DEF DriveInvariant, DriveType, Inventory, Fits, Commanding, Planning, Judged, vars
  <2>4. Driving'
    BY <1>2, <2>1 DEF DriveInvariant, Driving, Loaded, Leased, Implemented, ImplementedBy, vars
  <2>5. FrozenAfterImplementation' /\ WritersExclusive'
    BY <1>2, <2>1 DEF DriveInvariant, FrozenAfterImplementation, WritersExclusive, vars
  <2> QED BY <2>2, <2>3, <2>4, <2>5 DEF DriveInvariant
<1> QED BY <1>1, <1>2

LEMMA DriveInvariantHolds == DriveSpec => []DriveInvariant
  BY DriveInvariantInit, DriveInvariantStep, PTL DEF DriveSpec

(* Whatever processes die, lose their race or are reopened between the write   *)
(* of a record and the commit of a row, an open row has an open tree, a frozen *)
(* row a closed one, leases fit the phase, and the record of a frozen row has  *)
(* the manifest the row was frozen with unless somebody else wrote the tree.   *)
THEOREM RecordsCorrect == DriveSpec => []RecordBindsAuthority
<1>1. DriveInvariant => RecordBindsAuthority
  BY DEF DriveInvariant, Inventory, Fits, RecordBindsAuthority, FrozenStates, Closed
<1> QED BY <1>1, DriveInvariantHolds, PTL

(* No generation is frozen before an IMPLEMENT Attempt given it completed.     *)
THEOREM ImplementationCorrect == DriveSpec => []FrozenAfterImplementation
<1>1. DriveInvariant => FrozenAfterImplementation
  BY DEF DriveInvariant
<1> QED BY <1>1, DriveInvariantHolds, PTL

(* Two processes never run workers in the same tree.                           *)
THEOREM WritersCorrect == DriveSpec => []WritersExclusive
<1>1. DriveInvariant => WritersExclusive
  BY DEF DriveInvariant
<1> QED BY <1>1, DriveInvariantHolds, PTL

-----------------------------------------------------------------------------
(* Why a drive is refused *)

\* Where a step leaves the drive that takes it.
Arrives(p) ==
  LET d == drive'[p] IN
  \/ d.at \notin {"ACT", "COMMAND", "REFUSED"}
  \/ d.at = "ACT" /\ Loads(p, d)
  \/ d.at = "COMMAND" /\ Begun(p) /\ d.loaded = wf.version
  \/ d.at = "REFUSED" /\ At(p, "COMMAND") /\ ~VersionCurrent(p) /\ d.loaded = drive[p].loaded

LEMMA GotoIs ==
  ASSUME DriveType, NEW p \in Procs, NEW place, Goto(p, place)
  PROVE  drive'[p].at = place /\ drive'[p].loaded = drive[p].loaded
  BY DEF DriveType, Drive, Goto, Set

LEMMA SetIs ==
  ASSUME DriveType, NEW p \in Procs, NEW d, Set(p, d) PROVE drive'[p] = d
  BY DEF DriveType, Set

LEMMA AgainIs ==
  ASSUME DriveType, NEW p \in Procs, NEW d \in Drive, Again(p, d) PROVE drive'[p].at = "LOOP"
  BY AgainType, SetIs DEF Again

LEMMA Arrivals ==
  ASSUME Core, CandidateLineage, DriveType, Inventory, NEW p \in Procs, Acts(p)
  PROVE  Arrives(p) \/ Proceed(p)
<1> USE DEF Core
<1>1. ASSUME Set(p, Out) PROVE Arrives(p)
  BY <1>1, SetIs DEF Out, Arrives
<1>2. CASE \/ CancelCommand(p) \/ RefuseRepair(p) \/ Die(p) \/ DieConfiguring(p)
           \/ StopRefused(p) \/ Stop(p)
  BY <1>1, <1>2 DEF CancelCommand, RefuseRepair, Die, DieConfiguring, StopRefused, Stop
<1>3. CASE ReplayStart(p) \/ ResumeCommand(p) \/ RepairCommand(p) \/ CommitRepair(p)
  <2>1. Goto(p, "LOOP") \/ Goto(p, "REPAIR")
    BY <1>3 DEF ReplayStart, ResumeCommand, RepairCommand, CommitRepair
  <2> QED BY <2>1, GotoIs DEF Arrives
<1>4. CASE ObserveCandidate(p) \/ CompleteSpecialAttempt(p)
  <2>1. Goto(p, "COMMAND") /\ drive[p].loaded = wf.version /\ Begun(p)
    BY <1>4, Begins DEF ObserveCandidate, CompleteSpecialAttempt, Acting, Fresh
  <2> QED BY <2>1, GotoIs DEF Arrives
<1>5. CASE RefuseCommand(p)
  BY <1>5, GotoIs DEF RefuseCommand, Arrives
<1>6. ASSUME NEW d \in Drive, Again(p, d) PROVE Arrives(p)
  BY <1>6, AgainIs DEF Arrives
<1>7. CASE TransitionPhase(p) \/ Configure(p) \/ CommitCommand(p)
  <2>1. Again(p, drive[p]) /\ drive[p] \in Drive
    BY <1>7 DEF TransitionPhase, Configure, CommitCommand, DriveType
  <2> QED BY <1>6, <2>1
<1>8. CASE OpenProcess(p)
  <2>1. drive'[p] = [Out EXCEPT !.at = "OPEN"]
    BY <1>8, SetIs DEF OpenProcess
  <2> QED BY <2>1 DEF Out, Arrives
<1>9. CASE StartCommand(p)
  <2>1. PICK a \in Attempts : Set(p, [drive[p] EXCEPT !.at = "LOOP", !.own = TRUE, !.prepared = a])
    BY <1>9 DEF StartCommand
  <2>2. drive'[p].at = "LOOP"
    BY <2>1, SetIs DEF DriveType, Drive
  <2> QED BY <2>2 DEF Arrives
<1>10. CASE BeginOwnAttempt(p)
  <2>1. PICK a \in Attempts : Again(p, [drive[p] EXCEPT !.own = TRUE, !.prepared = a])
    BY <1>10 DEF BeginOwnAttempt
  <2>2. [drive[p] EXCEPT !.own = TRUE, !.prepared = a] \in Drive
    BY DriveUpdates DEF DriveType
  <2> QED BY <1>6, <2>1, <2>2
<1>11. CASE Load(p)
  <2>1. PICK d \in Drive : Moves(p, d) /\ (d = Out \/ Loads(p, d))
    BY <1>11, LoadMoves
  <2>2. drive'[p] = d
    BY <2>1, MovedIs
  <2>3. CASE d = Out
    BY <2>2, <2>3 DEF Out, Arrives
  <2>4. CASE Loads(p, d)
    BY <2>2, <2>4 DEF Loads, Arrives
  <2> QED BY <2>1, <2>3, <2>4
<1>12. CASE AdmitTerminal(p)
  BY <1>12, GotoIs DEF AdmitTerminal, Arrives
<1>13. CASE StreamEnds(p)
  <2>1. [drive[p] EXCEPT !.tree = None] \in Drive
    BY DriveUpdates DEF DriveType
  <2> QED BY <1>6, <1>13, <2>1 DEF StreamEnds
<1>14. CASE DispatchOwnedAttempt(p)
  <2> DEFINE d == [drive[p] EXCEPT !.prepared = None]
  <2>1. d \in Drive
    BY DriveUpdates DEF DriveType
  <2>2. CASE Again(p, d) \/ Stop(p)
    BY <1>2, <1>6, <2>1, <2>2
  <2>3. CASE Set(p, [d EXCEPT !.at = "WORKER"]) \/ Set(p, [d EXCEPT !.at = "WORKER", !.tree = wf.gen])
    <3>1. drive'[p].at = "WORKER"
      BY <2>1, <2>3, SetIs DEF Drive
    <3> QED BY <3>1 DEF Arrives
  <2> QED BY <1>14, <2>2, <2>3 DEF DispatchOwnedAttempt
<1> QED
  BY <1>2, <1>3, <1>4, <1>5, <1>7, <1>8, <1>9, <1>10, <1>11, <1>12, <1>13, <1>14
     DEF Acts, Turn

\* What the others remember and where they are is theirs.
LEMMA ActorForm ==
  ASSUME Core, CandidateLineage, DriveType, Inventory, NEW p \in Procs, Acts(p)
  PROVE  /\ \A q \in Procs : q # p => plan'[q] = plan[q] /\ drive'[q] = drive[q]
         /\ \/ Arrives(p)
            \/ /\ drive'[p] = drive[p]
               /\ plan'[p].version = plan[p].version
<1>1. \A q \in Procs : q # p => plan'[q] = plan[q] /\ drive'[q] = drive[q]
  BY PlanActs, DriveActs, MovedIs DEF PlanMove
<1>2. ASSUME Proceed(p) PROVE drive'[p] = drive[p] /\ plan'[p].version = plan[p].version
  <2>1. drive' = drive
    BY <1>2 DEF Proceed, driveVars
  <2>2. CASE Continued(p)
    BY <2>1, <2>2 DEF Continued
  <2>3. CASE TreeJudged(p)
    <3>1. \E second :
            plan' = [plan EXCEPT ![p] = [plan[p] EXCEPT !.second = second, !.result = "PASS"]]
      BY <2>3 DEF TreeJudged, FreezeVerdict, SecondReading
    <3> QED BY <2>1, <3>1 DEF Core, TypeOK, Plan
  <2> QED BY <1>2, <2>2, <2>3, Proceeds
<1> QED BY <1>1, <1>2, Arrivals

\* Only a drive that begins an Attempt makes the workflow run.
LEMMA RunningStep ==
  ASSUME Core, DriveNext
  PROVE  \/ UNCHANGED wf
         \/ wf'.status # "RUNNING"
         \/ \E p \in Procs : StartCommand(p) \/ BeginOwnAttempt(p)
<1> USE DEF Core
<1>1. ASSUME NEW s \in {"READY", "BLOCKED", "FAILED"}, NEW status, NEW failure,
             FinishAttempt(status, failure, s)
      PROVE  wf'.status # "RUNNING"
  BY <1>1, FinishWorkflow DEF RunStatuses
<1>2. \A f \in FailureClasses : ResultingRunStatus(f) \in {"BLOCKED", "FAILED"}
  BY DEF ResultingRunStatus
<1>3. ASSUME \/ RecordAttemptResult \/ StartupRecovery
             \/ \E f \in FailureClasses : RecordAttemptFailure(f)
      PROVE  wf'.status # "RUNNING"
  BY <1>1, <1>2, <1>3 DEF RecordAttemptResult, StartupRecovery, RecordAttemptFailure
<1>4. ASSUME NEW next \in Workflow, Advance(next) PROVE wf'.status = next.status
  BY <1>4 DEF Advance, Workflow
<1>5. ASSUME NEW p \in Procs, OpenProcess(p) PROVE UNCHANGED wf \/ wf'.status # "RUNNING"
  BY <1>3, <1>5 DEF OpenProcess, vars
<1>6. ASSUME NEW p \in Procs, ResumeCommand(p) \/ CancelCommand(p)
      PROVE  wf'.status # "RUNNING"
  <2>1. CASE ResumeCommand(p)
    <3>1. PICK s \in {"READY", "BLOCKED"} : Advance([wf EXCEPT !.status = s])
      BY <2>1 DEF ResumeCommand
    <3> QED BY <3>1 DEF Advance, TypeOK, Workflow
  <2>2. CASE CancelCommand(p)
    BY <2>2 DEF CancelCommand, CancelGoal, Advance, TypeOK, Workflow
  <2> QED BY <1>6, <2>1, <2>2
<1>7. ASSUME NEW p \in Procs,
             \/ ReplayStart(p) \/ RepairCommand(p) \/ Die(p) \/ DieConfiguring(p) \/ Load(p)
             \/ StopRefused(p) \/ Configure(p) \/ ObserveCandidate(p)
             \/ CompleteSpecialAttempt(p) \/ Proceed(p) \/ RefuseCommand(p) \/ RefuseRepair(p)
      PROVE  UNCHANGED wf
  <2>1. CASE RepairCommand(p) \/ ObserveCandidate(p) \/ CompleteSpecialAttempt(p)
    BY <2>1, Begins DEF Begun, store
  <2>2. CASE Proceed(p)
    BY <2>2 DEF Proceed, FreezeVerdict, RecheckWorkspace, SecondReading, RunCheck, Observed, store
  <2>3. CASE RefuseCommand(p) \/ RefuseRepair(p)
    BY <2>3 DEF RefuseCommand, RefuseRepair, AbandonCommand, store
  <2>4. CASE Configure(p)
    BY <2>4 DEF Configure, ConfigureWorkspace, ConfigureLocalVerification
  <2> QED
    BY <1>7, <2>1, <2>2, <2>3, <2>4
       DEF ReplayStart, Die, DieConfiguring, Load, StopRefused, Stop, KeepControl, store, vars
<1>8. ASSUME \/ BeginPlanning \/ BeginCandidateFreeze \/ BeginEvidenceBuild
             \/ \E g \in Generations, d \in Digests : PrepareCandidate(g, d)
             \/ \E p \in Procs : CommitEvidenceSet(p)
             \/ \E p \in Procs, g \in Generations : BeginAcceptanceRepair(p, g)
      PROVE  wf'.status # "RUNNING"
  <2>1. wf.status = "READY"
    BY <1>8 DEF BeginPlanning, BeginCandidateFreeze, BeginEvidenceBuild, PrepareCandidate,
                CommitEvidenceSet, BeginAcceptanceRepair, Commit, Committable, Ready
  <2>2. \/ \E ph \in Phases : Advance([wf EXCEPT !.phase = ph])
        \/ \E ph \in Phases : \E g \in Generations : Advance([wf EXCEPT !.phase = ph, !.gen = g])
    BY <1>8 DEF BeginPlanning, BeginCandidateFreeze, BeginEvidenceBuild, PrepareCandidate,
                CommitEvidenceSet, BeginAcceptanceRepair, EnterPhase, Phases
  <2>3. CASE \E ph \in Phases : Advance([wf EXCEPT !.phase = ph])
    BY <2>1, <2>3 DEF Advance, TypeOK, Workflow
  <2>4. CASE \E ph \in Phases : \E g \in Generations : Advance([wf EXCEPT !.phase = ph, !.gen = g])
    BY <2>1, <2>4 DEF Advance, TypeOK, Workflow
  <2> QED BY <2>2, <2>3, <2>4
<1>9. ASSUME NEW p \in Procs, CommitIntegrityFailure(p) \/ CloseAcceptedGoal(p)
      PROVE  wf'.status # "RUNNING"
  BY <1>9 DEF CommitIntegrityFailure, CloseAcceptedGoal, Advance, TypeOK, Workflow
<1>10. ASSUME NEW p \in Procs, CompleteSourceFreeze(p) \/ CompleteLocalVerification(p)
       PROVE  wf'.status # "RUNNING"
  <2>1. ResultingRunStatus("NON_RETRYABLE") \in {"READY", "BLOCKED", "FAILED"}
    BY DEF ResultingRunStatus
  <2> QED BY <1>1, <1>10, <2>1 DEF CompleteSourceFreeze, CompleteLocalVerification
<1>11. ASSUME NEW p \in Procs, CommitCommand(p) PROVE UNCHANGED wf \/ wf'.status # "RUNNING"
  BY <1>8, <1>9, <1>10, <1>11 DEF CommitCommand, CompleteVerification, EvaluateAcceptance
<1>12. ASSUME NEW p \in Procs, CommitRepair(p) \/ TransitionPhase(p)
       PROVE  wf'.status # "RUNNING"
  BY <1>8, <1>9, <1>12 DEF CommitRepair, RepairWorkspace, TransitionPhase, PrepareWorkspace
<1>13. ASSUME NEW p \in Procs, DispatchOwnedAttempt(p) \/ AdmitTerminal(p) \/ StreamEnds(p)
       PROVE  UNCHANGED wf \/ wf'.status # "RUNNING"
  BY <1>3, <1>13 DEF DispatchOwnedAttempt, AdmitTerminal, StreamEnds, Stop, RecordPortFailure,
                     FailureClasses, store, vars
<1> QED
  BY <1>5, <1>6, <1>7, <1>11, <1>12, <1>13, Actor, WritesMove DEF Acts, Turn

\* Checks are only added, and test evidence only to a running verification.
LEMMA ChecksGrow ==
  ASSUME Core, CandidateLineage, DriveNext
  PROVE  /\ checks \subseteq checks'
         /\ \A e \in evidence' \ evidence : e.kind = "TEST_RESULT" =>
              wf.status = "RUNNING" /\ wf.phase = "EVIDENCE_BUILD" /\ e.gen = wf.gen
<1> USE DEF Core
<1>1. CASE Next
  <2>1. \/ UNCHANGED checks \/ \E p \in Procs : ConfigureLocalVerification(p)
    BY <1>1 DEF Next, StartGoal, BeginAttempt, RecordAttemptResult, RecordAttemptFailure,
         InterruptAttempt, StartupRecovery, CancelGoal, BeginPlanning, PrepareCandidate,
         BeginCandidateFreeze, BeginEvidenceBuild, RunVerification, BeginFreeze, SecondReading,
         CompleteSourceFreeze, BeginVerification, RunCheck, CompleteLocalVerification,
         BeginObservation, CommitEvidenceSet, EvaluateAcceptance, BeginConsumption,
         CommitIntegrityFailure, CloseAcceptedGoal, BeginAcceptanceRepair, BeginResume,
         ResumeGoal, AbandonCommand, Crash, SourceChange, Observed, store
  <2>2. checks \subseteq checks'
    BY <2>1 DEF ConfigureLocalVerification
  <2>3. CASE EvidenceKept
    BY <2>2, <2>3 DEF EvidenceKept
  <2>4. CASE EvidenceAdded
    <3>1. wf.status = "RUNNING"
      BY <2>4, ConstantsAssumption DEF EvidenceAdded, AuthorityCoherent
    <3> QED BY <2>2, <2>4, <3>1 DEF EvidenceAdded, RecordEvidence
  <2> QED BY <1>1, <2>3, <2>4, EvidenceWrites
<1>2. CASE UNCHANGED vars
  BY <1>2 DEF vars
<1>3. CASE Remembers
  BY <1>3, RemembersStep DEF store
<1>4. CASE Resumes
  BY <1>4 DEF Resumes
<1> QED BY <1>1, <1>2, <1>3, <1>4, ControlMoves

LEMMA UnverifiedStays ==
  ASSUME UNCHANGED Consumed, checks \subseteq checks'
  PROVE  /\ ~ObligationsAccounted => ~ObligationsAccounted'
         /\ Unverified => Unverified'
  BY DEF Consumed, Unverified, ObligationsAccounted, Covered, TestEvidence, EligibleOf, EvidenceOf

LEMMA ChecksStep ==
  ASSUME Core, CandidateLineage, DriveType, RefusalInvariant, DriveNext
  PROVE  ChecksFirst' /\ Opening'
<1> USE DEF Core
<1>1. /\ checks \subseteq checks'
      /\ wf'.version = wf.version + 1 \/ UNCHANGED Consumed
      /\ \A e \in evidence' \ evidence : e.kind = "TEST_RESULT" =>
              wf.status = "RUNNING" /\ wf.phase = "EVIDENCE_BUILD" /\ e.gen = wf.gen
  BY ControlStep, ChecksGrow
<1>2. ASSUME LocalCommand, NEW e \in evidence', e.kind = "TEST_RESULT" PROVE e.gen \in checks'
  BY <1>1, <1>2 DEF RefusalInvariant, ChecksFirst, Unverified
<1>3. Opening'
  <2>1. wf.version \in Nat /\ wf.version >= 1
    BY DEF TypeOK, Workflow
  <2>2. CASE wf'.version = wf.version + 1
    BY <2>1, <2>2 DEF Opening
  <2>3. CASE UNCHANGED Consumed
    BY <2>3 DEF RefusalInvariant, Opening, Consumed
  <2> QED BY <1>1, <2>2, <2>3
<1>4. ASSUME LocalCommand, wf'.status = "RUNNING", wf'.phase = "EVIDENCE_BUILD" PROVE Unverified'
  <2>1. CASE UNCHANGED Consumed
    BY <1>1, <1>4, <2>1, UnverifiedStays DEF RefusalInvariant, ChecksFirst, Consumed
  <2>2. CASE UNCHANGED wf
    <3>1. wf.version # wf.version + 1
      BY DEF TypeOK, Workflow
    <3> QED BY <1>1, <2>1, <2>2, <3>1
  <2>3. ASSUME NEW p \in Procs, StartCommand(p) PROVE FALSE
    <3>1. PICK a \in Attempts : StartGoal(a)
      BY <2>3 DEF StartCommand
    <3>2. wf.version = 1
      BY <3>1 DEF StartGoal, Started, TypeOK, Workflow
    <3>3. wf'.phase = wf.phase
      BY <3>1 DEF StartGoal, Start, Advance, TypeOK, Workflow
    <3> QED BY <1>4, <3>2, <3>3 DEF RefusalInvariant, Opening
  <2>4. ASSUME NEW p \in Procs, BeginOwnAttempt(p) PROVE Unverified'
    <3>1. PICK a \in Attempts : BeginAttempt(p, a)
      BY <2>4 DEF BeginOwnAttempt
    <3>2. /\ wf'.phase = wf.phase /\ wf'.gen = wf.gen
          /\ UNCHANGED <<checks, evidence, eligible>>
      BY <3>1 DEF BeginAttempt, Start, Advance, TypeOK, Workflow
    <3>3. Acting(p, "BEGIN")
      BY <2>4 DEF BeginOwnAttempt
    <3>4. Unverified
      BY <1>4, <3>2, <3>3 DEF Acting, At, RefusalInvariant, Chosen, Choice
    <3> QED
      BY <3>2, <3>4
         DEF Unverified, ObligationsAccounted, Covered, TestEvidence, EligibleOf, EvidenceOf
  <2> QED BY <1>4, <2>2, <2>3, <2>4, RunningStep
<1> QED BY <1>2, <1>3, <1>4 DEF ChecksFirst

LEMMA LoadsChoice ==
  ASSUME Core, ChecksFirst, wf.status = "READY" PROVE Choice(ReadyOperation)
<1>1. CASE wf.phase \in {"DISCOVERY", "PLAN", "IMPLEMENT", "SOURCE_FREEZE"}
  BY <1>1 DEF ReadyOperation, Choice
<1>2. CASE wf.phase = "EVIDENCE_BUILD"
  <2>1. CASE NeedsConfiguration
    <3>1. ReadyOperation = "CONFIGURE" /\ LocalCommand /\ wf.gen \notin checks
      BY <1>2, <2>1 DEF ReadyOperation, NeedsConfiguration
    <3>2. \A o \in Obligations : ~Covered(o)
      BY <3>1 DEF ChecksFirst, Covered, TestEvidence, EligibleOf, EvidenceOf
    <3>3. ~ObligationsAccounted
      BY <3>2, ConstantsAssumption DEF ObligationsAccounted
    <3> QED BY <1>2, <3>1, <3>3 DEF Choice
  <2>2. CASE ~NeedsConfiguration
    <3>1. ReadyOperation = IF ObligationsAccounted THEN "EVIDENCE_SET" ELSE "BEGIN"
      BY <1>2, <2>2 DEF ReadyOperation
    <3>2. LocalCommand => wf.gen \in checks
      BY <2>2 DEF NeedsConfiguration
    <3> QED BY <3>1, <3>2 DEF Choice, Unverified
  <2> QED BY <2>1, <2>2
<1>3. CASE wf.phase = "FINAL_VERIFY"
  BY <1>3 DEF ReadyOperation, Choice
<1>4. CASE wf.phase = "CLOSEOUT"
  BY <1>4 DEF ReadyOperation, Choice
<1> QED BY <1>1, <1>2, <1>3, <1>4 DEF Core, TypeOK, Workflow, Phases

LEMMA ChosenStep ==
  ASSUME DriveInvariant, RefusalInvariant, DriveNext
  PROVE  \A q \in Procs : Chosen(q)'
<1> USE DEF DriveInvariant, Core
<1>1. /\ wf.version \in Nat /\ wf'.version \in Nat /\ wf.version <= wf'.version
      /\ \A v : v <= wf.version /\ v = wf'.version => UNCHANGED Consumed
  BY ControlStep, WorkflowKept
<1>2. checks \subseteq checks'
  BY ChecksGrow
<1>3. ASSUME NEW q \in Procs, drive'[q] = drive[q], plan'[q].version = plan[q].version
      PROVE  Chosen(q)'
  <2>1. Chosen(q) /\ drive[q].loaded <= wf.version /\ drive[q].loaded \in Nat
    <3>1. drive[q].loaded \in 0..MaxVersion
      BY DEF DriveType, Drive
    <3> QED BY <3>1, NoVersion DEF RefusalInvariant, Driving, Loaded
  <2>2. drive[q].loaded < wf.version => drive[q].loaded < wf'.version
    BY <1>1, <2>1
  <2>3. ASSUME drive[q].at = "ACT", drive[q].loaded = wf'.version, wf'.status = "READY"
        PROVE  Choice(drive[q].next)'
    <3>1. UNCHANGED Consumed
      BY <1>1, <2>1, <2>3
    <3>2. UNCHANGED wf
      BY <3>1 DEF Consumed
    <3>3. Choice(drive[q].next)
      BY <2>1, <2>3, <3>2 DEF Chosen, Fresh
    <3>4. PICK next : next = drive[q].next
      OBVIOUS
    <3>5. Choice(next)'
      BY <1>2, <3>1, <3>2, <3>3, <3>4, UnverifiedStays DEF Choice
    <3> QED BY <1>3, <3>4, <3>5
  <2> QED BY <1>3, <2>1, <2>2, <2>3 DEF Chosen, Fresh
<1>4. ASSUME NEW p \in Procs, Acts(p), Arrives(p) PROVE Chosen(p)'
  <2>1. CASE drive'[p].at \notin {"ACT", "COMMAND", "REFUSED"}
    BY <2>1 DEF Chosen
  <2>2. CASE drive'[p].at = "ACT" /\ Loads(p, drive'[p])
    <3>1. UNCHANGED vars /\ drive'[p].next = IF wf.status = "READY" THEN ReadyOperation ELSE None
      BY <2>2 DEF Loads
    <3>2. wf.status = "READY" => Choice(ReadyOperation)
      BY LoadsChoice DEF RefusalInvariant
    <3>3. PICK next : next = drive'[p].next
      OBVIOUS
    <3>4. wf.status = "READY" => Choice(next)'
      BY <3>1, <3>2, <3>3
         DEF vars, Choice, Unverified, ObligationsAccounted, Covered, TestEvidence, EligibleOf,
             EvidenceOf
    <3>5. wf'.status = wf.status
      BY <3>1 DEF vars
    <3> QED BY <2>2, <3>3, <3>4, <3>5 DEF Chosen
  <2>3. CASE drive'[p].at = "COMMAND" /\ Begun(p) /\ drive'[p].loaded = wf.version
    BY <2>3 DEF Begun, Chosen
  <2>4. CASE /\ drive'[p].at = "REFUSED" /\ At(p, "COMMAND") /\ ~VersionCurrent(p)
             /\ drive'[p].loaded = drive[p].loaded
    <3>1. /\ plan[p].version = drive[p].loaded /\ drive[p].loaded <= wf.version
          /\ plan[p].version # wf.version
      BY <2>4 DEF At, VersionCurrent, RefusalInvariant, Chosen, Driving, Loaded
    <3>2. drive[p].loaded \in Nat
      <4>1. drive[p].loaded \in 0..MaxVersion
        BY DEF DriveType, Drive
      <4> QED BY <4>1, NoVersion
    <3>3. drive[p].loaded < wf'.version
      BY <1>1, <3>1, <3>2
    <3> QED BY <2>4, <3>3 DEF Chosen
  <2> QED BY <1>4, <2>1, <2>2, <2>3, <2>4 DEF Arrives
<1>5. ASSUME NEW p \in Procs, Acts(p) PROVE \A q \in Procs : Chosen(q)'
  BY <1>3, <1>4, <1>5, ActorForm
<1>6. ASSUME NEW content \in Digests,
             Tamper(content) \/ \E p \in Procs : WorkerWrites(p, content)
      PROVE  \A q \in Procs : Chosen(q)'
  BY <1>3, <1>6, WritesMove
<1> QED BY <1>5, <1>6, Actor

LEMMA RefusalInit == DriveInit => RefusalInvariant
  BY DEF DriveInit, Init, RefusalInvariant, ChecksFirst, Opening, Chosen, Out

LEMMA RefusalStep ==
  DriveInvariant /\ RefusalInvariant /\ [DriveNext]_allVars => RefusalInvariant'
<1>1. ASSUME DriveInvariant, RefusalInvariant, DriveNext PROVE RefusalInvariant'
  BY <1>1, ChecksStep, ChosenStep DEF RefusalInvariant, DriveInvariant
<1>2. ASSUME RefusalInvariant, UNCHANGED allVars PROVE RefusalInvariant'
  BY <1>2
     DEF allVars, vars, driveVars, RefusalInvariant, ChecksFirst, Opening, Chosen, Choice, Fresh,
         Unverified, ObligationsAccounted, Covered, TestEvidence, EligibleOf, EvidenceOf
<1> QED BY <1>1, <1>2

\* Why a command that was current when the drive chose it is refused.
LEMMA RefusedBecause ==
  ASSUME DriveInvariant, RefusalInvariant, NEW p \in Procs,
         StopRefused(p), AuthoritativeStop = None, Fresh(p)
  PROVE  MidVerification \/ ~MayRead(wf.gen) \/ ~RepairContextCurrent
<1> USE DEF DriveInvariant, Core
<1>1. Chosen(p) /\ Loaded(p)
  BY DEF RefusalInvariant, Driving
<1>2. ~At(p, "REFUSED")
  <2>1. ~(wf.version < wf.version)
    BY DEF TypeOK, Workflow
  <2> QED BY <1>1, <2>1 DEF Chosen, At, Fresh
<1>3. At(p, "ACT") /\ KernelRefuses(p)
  BY <1>2 DEF StopRefused
<1>4. wf.status \in {"READY", "RUNNING"}
  <2>1. ~LifecycleStop
    BY NoneIsNoStatus DEF AuthoritativeStop, LifecycleStop, RunStatuses
  <2> QED BY <2>1 DEF LifecycleStop, TypeOK, Workflow, RunStatuses
<1>5. CASE wf.status = "RUNNING"
  <2>1. wf.phase = "EVIDENCE_BUILD" /\ LocalCommand
    BY <1>3, <1>5 DEF KernelRefuses, SessionCurrent
  <2> QED BY <1>5, <2>1 DEF RefusalInvariant, ChecksFirst, Unverified, MidVerification
<1>6. CASE wf.status = "READY"
  <2>1. Choice(drive[p].next)
    BY <1>1, <1>3, <1>6 DEF Chosen, At
  <2>2. CASE /\ drive[p].next = "BEGIN" /\ wf.phase = "EVIDENCE_BUILD" /\ ~SessionCurrent(p)
    BY <2>1, <2>2 DEF Choice, SessionCurrent, Unverified, MidVerification
  <2>3. CASE drive[p].next = "CONFIGURE" /\ (wf.gen \in checks \/ ~MayRead(wf.gen))
    BY <2>1, <2>3 DEF Choice, MidVerification
  <2>4. CASE ~Observable(wf.gen)
    BY <2>4 DEF Observable, MayRead
  <2> QED BY <1>3, <1>6, <2>2, <2>3, <2>4 DEF KernelRefuses
<1> QED BY <1>4, <1>5, <1>6

(* A drive that ends on a refusal was overtaken, or stands where the authority *)
(* it loaded cannot say: a session that died with its kernel, a tree its       *)
(* record does not vouch for, a repair whose one Attempt was lost.             *)
THEOREM RefusalsCorrect == DriveSpec => RefusedOnlyWhenLost
<1>1. DriveInvariant /\ RefusalInvariant =>
        [\A p \in Procs :
           StopRefused(p) /\ AuthoritativeStop = None =>
             ~Fresh(p) \/ MidVerification \/ ~MayRead(wf.gen) \/ ~RepairContextCurrent]_allVars
  BY RefusedBecause
<1>2. DriveSpec => []RefusalInvariant
  BY RefusalInit, RefusalStep, DriveInvariantHolds, PTL DEF DriveSpec
<1> QED BY <1>1, <1>2, DriveInvariantHolds, PTL DEF RefusedOnlyWhenLost
=============================================================================
