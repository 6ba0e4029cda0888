# CodeClosure: the control plane in TLA+

CodeClosure drives a coding Goal through a fixed Workflow
(DISCOVERY, PLAN, IMPLEMENT, SOURCE_FREEZE, EVIDENCE_BUILD, FINAL_VERIFY,
CLOSEOUT). Untrusted workers propose changes; a deterministic kernel decides
what counts. All authority lives in one SQLite store which every CodeClosure
process opens directly, so the hard part is not any single command but what
several processes, their crashes and the outside world do to it together.

This directory models that control plane, model-checks it with TLC and proves
its central invariants with TLAPS.

## 1. Inventory

| Component | State it keeps | Operations | Interacts with |
|---|---|---|---|
| Domain reducers (`packages/domain`: `workflow.ts`, `attempt.ts`, `candidate.ts`) | none: pure `decide`/`apply` functions over the Workflow, Attempt and CandidateGeneration rows | one decision per command, one event per decision, invariant assertions | called by the kernel and again by the store on every commit |
| Workflow Runtime kernel (`packages/runtime/src/workflow-runtime.ts`) | in memory: prepared worker requests, live verification leases | start, begin/finish Attempt, phase transitions, freeze, verification, acceptance, repair, closeout, cancel, worker dispatch and admission | reads the store, observes the workspace through ports, commits |
| Control store (`packages/store-sqlite/src/store.ts`) | the rows: Workflow, Attempts, generations, Evidence, eligibility, sets, decisions, closeout, repairs, reconciliations, processed commands, dispatch claims, external executions, audit log | one `BEGIN IMMEDIATE` transaction per kernel command, with an optimistic version check; a full audit of the retained rows on open | shared by every process |
| Recovery coordinator (`runtime/src/recovery.ts`) | none | startup recovery of RUNNING workflows, `ResumeGoal` of blocked ones | store, inspector of the workspace and of external processes |
| Acceptance engine and policy (`acceptance-engine.ts`, `acceptance-policy.ts`) | none | compile a manifest from the present rows, evaluate the rules, issue a decision | kernel and store, which recompiles what it is given |
| Evidence factory (`evidence-factory.ts`, `domain/evidence.ts`) | none | build records, eligibility and Evidence Sets | kernel |
| Local-command verification (`local-command-verification.ts`, `packages/verification-local`) | a lease in the memory of one process | read the source, run the check, read the source again | kernel, workspace |
| Candidate workspace (`packages/workspace-local`) | a record per generation (MUTABLE, FROZEN, UNSAFE), active leases, the files | prepare, lease, freeze, observe, materialise | kernel, workers, anything that writes files |
| Worker dispatch and admission (`worker-execution.ts`, kernel, store) | dispatch claims, receipts of worker events | claim once, admit events in sequence, ignore late ones | driver, worker ports |
| External execution and maintenance (store, driver) | executions, observations, maintenance intents | claim, observe, abandon, authorise and complete maintenance | driver, worker process |
| Workflow driver (`workflow-driver.ts`) | none | choose the next operation of a Goal and run it until it must stop | kernel |
| Processed commands (kernel and store) | command identity, input digest, outcome | replay, conflict, one retry on a lost race | every command |
| Context compiler, policy and profile installers | none / immutable rows | select the input of a worker, install bundles | kernel |
| Codex adapter and app-server client (`packages/adapter-codex`, `packages/codex-app-server-client`) | an observer of the server's notifications, request table, owned process | one Turn per dispatch, supervise the process | driver, external executions |
| Goal status and driver authority (`application.ts`, store readers) | none | join retained rows into the status view, the driver's snapshot and the recovery catalog | CLI, driver, recovery |
| Migrations (`store-sqlite/migrations`) | the schema: triggers, checks and unique indexes | judge every row the store writes | store |
| Protected verification assets (`protected-verification.ts`, `verification-local`) | the plan a Start locked; a read lease in the memory of one process; files outside the tree | lock the plan, read the files around every use of them | kernel, acceptance, audit |
| CLI composition, test support | data home on disk | open, recover, run a command | everything |

### What is hard

* **Interleaving.** Nothing locks the data home across processes. A second CLI
  invocation runs startup recovery and interrupts the Attempt a first one is
  still executing. Every command is therefore *read, plan, commit if the version
  is unchanged*.
* **Stale observations.** The Candidate workspace is outside the transaction. It
  is read before the commit, twice by a freeze, before and after a check.
* **Authority chains.** A closeout consumes a decision, which binds a manifest,
  which binds an Evidence Set, which binds records, which bind a frozen digest.
  Each link may have become stale by the time it is used.
* **Failure.** Processes die between any two steps; leases die with them. Some
  failures must never be retried and some only after reconciliation.
* **Two judges.** Every transaction is judged by its code and again by triggers
  that were written migration by migration. If they disagree about a legal
  command the Goal is stuck. Opening the store audits every retained row: rows
  that fail it close the data home to every later process.
* **A second store.** The ownership records of the Candidate workspaces are files.
  No transaction spans a record and a row.
* **An unreliable peer.** The App Server may send anything at any time; the host
  believes one Turn's result of it, and has to end its process whatever happens.
* **Boundaries.** The Workflow version must stay a safe integer.

### What makes each component correct

* Kernel, reducers and store: the Workflow row and the Attempt rows are one
  authority; phase and active generation agree; integrity verdicts are final; a
  Goal closes only over current, passing evidence of the accepted contents; a
  repair descends from exactly the rejected contents; an ended Goal never
  changes; every change of consumable state advances the version.
* Recovery: the retry boundary of `docs/workflow.md`.
* Processed commands: a command takes effect at most once and its repeated
  answer is its first answer.
* Dispatch: an Attempt is dispatched at most once; events are admitted in order
  and only while the Attempt runs.
* External execution: an execution ends once and with its Attempt; no replacement
  starts while a recorded process may live; a result is believed only of an
  operation that ended.
* Workspace: a frozen record has the frozen tree; a tree never has two writers.
* Driver: it issues no command that the authority it loaded refuses, and returns.
* Codex adapter: a result is of its own Turn, and no process outlives the run.
* Protected assets: a lease is used once, and what is recorded is what the locked files
  say of the frozen tree.
* Audit, readers, triggers: they accept whatever the kernels may commit.

`PROJECT.json` lists the hazards, each at its line.

## 2. Plan and modules

| Module | Models | Extends / refines | Run |
|---|---|---|---|
| `WorkflowControl` | the rows of one Goal, all kernel commands, several processes | implements `ControlStore` | `two_kernels`, `obligations` |
| `DomainRecords` | what makes one domain record valid | used by `ControlStore` | `two_kernels` |
| `ControlStore` | the store's transactions and the triggers, whoever calls | `DomainRecords` | `two_kernels` (as the property `AdmittedByStore`) |
| `AttemptContext` | the context of a coding Attempt and its manifest | `WorkflowControl` | `repair_race` |
| `RetainedAuthority` | the audit trail and the audit made on every opening | `AttemptContext` | `repair_race`, `repair_to_closeout` |
| `AuthorityReads` | status view, driver snapshot, recovery catalog | `RetainedAuthority` | `repair_race` |
| `CandidateWorkspace` | ownership records and leases | `WorkflowControl` | `drive` |
| `WorkflowDrive` | the driver's loop and the life of its process | `CandidateWorkspace` | `drive` |
| `CommandExecution` | processed commands, the retry of a lost race | implements `CommandOnce` | `commands` |
| `WorkerDispatch` | claims, events, receipts | | `dispatch` |
| `ExternalExecution` | executions, maintenance, recovery of worker processes | | `external`, `abandon_unsafe` |
| `AppServerClient`, `CodexTurn` | the client of the App Server and one invocation of the adapter | implements `WorkerStream` | `codex_turn` |
| `ProtectedVerification` | the plan, the lease and the readings of protected files | | `protected`, `protected_criteria` |

Theorems have modules of their own: `WorkflowControlProofs`, `RetainedAuthorityProofs` and
`WorkflowDriveProofs` (which both extend it; the first holds the proofs of the readers too), `CommandExecutionProofs`,
`WorkerDispatchProofs`, `ExternalExecutionProofs`, `CodexTurnProofs` and
`ProtectedVerificationProofs`. Modules named `MC...` give TLC its instances.

The modules are read separately: each keeps of its neighbours what its own
properties need. `CommandExecution` says why a command of `WorkflowControl` may
be one action; `WorkerDispatch` opens the actions `RecordAttemptResult` and
`RecordAttemptFailure` of `WorkflowControl` into the steps of a dispatch;
`ExternalExecution` keeps these as single actions and opens what lies between them
when the worker is a process of its own; `CodexTurn` is such a worker, and
`WorkerStream` is what the driver of `ExternalExecution` relies on of it.
`ProtectedVerification` opens the local check of `WorkflowControl` into the steps
between its readings and keeps the phases around it in outline.

Left to do: several Goals in one data home, for the audit watermark that recovery compares.

## 3. `WorkflowControl`

One Goal, its Workflow, and the processes (`Procs`) that opened the data home.
`wf` is the Workflow row; `attempts`, `gens`, `evidence`, `eligible`, `sets`,
`decisions`, `closeout`, `repairs` and `reconciled` are the other rows; `source`
is what each generation's workspace holds now; `session[p]` and `plan[p]` are the
memory of process `p`, lost in a `Crash`.

**Atomicity.** A command that reads only the store is one action. It reads,
plans, and commits in a transaction that refuses the plan unless
`Workflow.version` is unchanged. Every change of a row another command may
consume advances that version (`OneVersionPerChange` checks exactly this), so
whenever the commit succeeds what was read is still so, and a refused command
has no effect. A command that looks outside the store is split there: the freeze
(two readings), the local check (a reading, the run, a reading), and the four
acceptance commands and `ResumeGoal` (a reading). Between the parts anything may
happen; the commit repeats the checks of the code.

**Data.** A digest is a model value, a source reading returns what the workspace
holds or fails (`None`). An Acceptance Decision is the record of what its
manifest binds: version, generation, digest, evidence references, outcome.
Attempts and generations are numbered in order of creation, as their `sequence`
fields are.

**Inputs from outside.** Results of checks, failure classes of workers, verdicts
of the recovery inspector and writes to the workspace (`SourceChange`, by the
worker or anyone, at any time, even when the generation is frozen) are
nondeterministic.

| Action | Code |
|---|---|
| `StartGoal`, `BeginAttempt` | `startGoal`, `beginAttempt`, `commitContextBoundAttemptStart` |
| `RecordAttemptResult`, `RecordAttemptFailure`, `InterruptAttempt` | `finishAttempt`, `admitWorkerEvent`, `recordWorkerPortFailure` through `commitAttemptEventInsideTransaction` |
| `StartupRecovery`, `BeginResume`, `ResumeGoal` | `recoverOnStartup`, `resumeGoal`, `decideDisposition` |
| `CancelGoal` | `cancelGoal`, `applyWorkflowCancellationToAttempt` |
| `BeginPlanning`, `PrepareCandidate`, `BeginCandidateFreeze`, `BeginEvidenceBuild` | the four observers-free branches of `planPhaseTransition` |
| `BeginFreeze`, `SecondReading`, `CompleteSourceFreeze` | `completeSourceFreeze`, `observeFreeze`, `commitCandidateAttemptOutcome`, `commitCandidateIntegrityFailure` |
| `ConfigureLocalVerification`, `BeginVerification`, `RunCheck`, `CompleteLocalVerification` | `configureLocalCommandVerification`, `runLocalCommandVerification`, `commitLocalCommandVerificationExecution` |
| `RunVerification` | `runVerification` (the bounded profile) |
| `BeginObservation`, `BeginConsumption`, `CommitEvidenceSet`, `EvaluateAcceptance`, `CloseAcceptedGoal`, `BeginAcceptanceRepair`, `CommitIntegrityFailure` | `planEvidenceSetTransition`, `evaluateAcceptance`, `closeAcceptedGoal`, `beginAcceptanceRepair`, `planFrozenCandidateIntegrityFailure` and their transactions |
| `AbandonCommand`, `Crash`, `SourceChange` | a refused or failed command, a process death, the environment |

Left out: WAITING_FOR_INPUT (no command of the runtime writes it), Pending
Issues (nothing writes one), the protected-asset variant of the local
verification (section 11), the contents of contexts, policies and profiles, and timestamps. The store compares
millisecond timestamps to decide whether a failure is what blocked the workflow;
the model compares versions, that is, it assumes the clock to distinguish two
commits.

### Properties

| Property | Says |
|---|---|
| `TypeOK` | rows have their shapes; versions stay safe integers |
| `AuthorityCoherent` | RUNNING exactly with one owned, running Attempt of the current phase; CLOSEOUT is CLOSED |
| `CandidateLineage` | phase and active generation agree; an invalidated generation stops the workflow; no second live generation |
| `EvidenceBindsFrozen` | eligible evidence is about a generation frozen with its digest, from an Attempt that completed in the right phase |
| `CloseoutSound` | a closed Goal consumed the ACCEPT decision of the very version it closed from, over eligible passing evidence of the accepted contents for every obligation |
| `RetryBoundary` | nothing runs after a transient or non-retryable failure; after a reconcile-first one only past a reconciliation |
| `IntegrityIsFinal` | ineligible stays ineligible, frozen identities never change, terminal generations stay terminal |
| `OneVersionPerChange` | every change of consumable rows advances the version by one |
| `TerminalIsFinal` | a closed or cancelled Goal never changes |

### Runs

| Run | Instance | Why these bounds |
|---|---|---|
| `two_kernels` | 2 processes, 3 Attempts, 2 generations, 1 obligation, local command, version up to 13 | the shortest way to a local check of a frozen Candidate takes 3 Attempts when the first phases are not repeated; 2 processes are enough for every pairwise race |
| `obligations` | 1 process, 4 Attempts, 2 generations, 2 obligations, bounded profile, version up to 15 | two obligations with every mix of results, one Attempt to repeat a check, or a repair in between (682 135 states) |

`RetryBoundary` is checked in `repair_race` (section 5), where Attempts are repeated
most. Type invariants are proved for every module (section 12); TLC checks the one of
`WorkflowControl`. Every process, digest and obligation is interchangeable (`Symmetry`). Deadlock
is not checked: a closed, cancelled or exhausted Goal stops.

## 4. `ControlStore` and `DomainRecords`

What the store admits, whoever calls it. `ControlStore` has the rows of
`WorkflowControl` and no process: a step is any transaction that the store would
commit. Each of the fifteen is written in three parts, as the code is: what the
validator demands of the input (`...Request`), what the transaction demands of
the rows (`...Admitted`), and the rows it writes, made of one operator per SQL
statement. Then `TriggersAccept`, one operator per table, says what the triggers,
checks and unique indexes of the migrations demand, each seeing the other rows as
its statement finds them: a generation is written before the Evidence of it,
Evidence before the Attempt it ends, the Workflow after these; an Evidence Set, a
decision and a reconciliation before the Workflow moves, a closeout and a repair
after. Finally every row written is decoded again: `RowsDecoded`, over
`DomainRecords`, one operator per kind of record.

The acceptance engine is here in full: `RuleResults`, their aggregation
(`Aggregated`), the manifest compiled from the rows (`Compiled`), and the
re-issue of a decision before it is consumed (`Reissued`, `Consumed`).

| Property | Says |
|---|---|
| `AdmittedByStore` (`Store!Spec` in `WorkflowControl`) | every command of `WorkflowControl` is a transaction the store's code, its triggers and the decoders admit: none refuses what another was written to allow |

The converse does not hold: the store alone is weaker than the kernel (it would
evaluate in any run status of FINAL_VERIFY were it not for a trigger of the
manifest, and it leaves the parent of a prepared generation to the triggers).

Left out: times, digests, identities and audit rows in the triggers (the audit is
`RetainedAuthority`), bindings of policy and profile (there too), Pending Issues
(nothing writes one), metadata of guard results. RUNNER_ERROR stands for TIMEOUT,
TEST_RESULT for LOCAL_COMMAND_TEST_RESULT. A resume to an earlier phase, which the
validator refuses, is not offered.

## 5. `AttemptContext`, `RetainedAuthority` and `AuthorityReads`

`RetainedAuthority` adds to `WorkflowControl` what a transaction leaves behind to
account for itself: `trail` (the Workflow's audit events with the outcome of their
commands, one per version), the events of Attempts, generations, Evidence and
Evidence Sets (known by the version they were written with), `bindings` (when
policy and profile were bound), `recoveries`, and the `manifests` of the coding
Attempts, which `AttemptContext` compiles: the sources of the package, the repair
authority and the feedback of a failed check. Each action is an action of
`WorkflowControl` with the events its transaction appends.

Opening the store audits everything retained (`openVerified`). The operators
`...Closure` are that audit, one per method of the store.

| Closure | Code |
|---|---|
| `LifecycleClosure`, `RetryClosure`, `TerminalClosure`, `CommandClosure` | `assertRetainedWorkflowAttemptLifecycleClosure`, `assertRetainedM1RetryBoundaryClosure`, `assertRetainedTerminalAttemptAuthorityClosure`, `assertCurrentWorkflowCommandClosure` |
| `StartClosure` with `BindingClosure`, `UnstartedClosure`, `StartedClosure`, `WorkerStartClosure` | `resolveWorkflowStartAuthorityClosure` and what it calls |
| `ContextClosure` (`ManifestVerified`) | `decodeVerifiedContextManifestRow`: the package is rebuilt from the rows |
| `EvidenceClosure`: `GenerationClosure`, `EvidenceRecordClosure`, `EvidenceHistoryClosure`, `EvidenceSetClosure` | `assertRetainedCandidateEvidenceAuthorityClosure` and what it calls |
| `RecoveryClosure` | `assertRetainedRecoveryAuthorityClosure` |
| `AcceptanceClosure`: `DecisionClosure`, `CloseoutClosure`, `RepairClosure`, `RepairAuditClosure` | `assertRetainedAcceptanceAuthorityClosure`, `historicalAcceptanceForManifest`, `assertRetainedAcceptanceRepairAuthority` |

`AuthorityReads` are the three readers that join these rows and refuse the whole
read if two disagree: the status view, the driver's snapshot, the recovery catalog.

| Property | Says |
|---|---|
| `AuditAccepts` | whatever the kernels have committed, in whatever order they interrupted, recovered, cancelled and repaired each other's work, the next process can open the store |
| `ReadersAccept` | every reader accepts what it joins; the kernel starts and resumes the Goal where the user is advised to, and in a coding phase takes what the advice to continue makes the driver ask (`DriverCommandTaken`), except for a lost repair (`RepairLost`, below); the context of a further Attempt is refused exactly where the child of the present repair was handed to a worker before (`RepairHanded`); the catalog offers what a resume accepts; the triggers take the context manifest of a running coding Attempt (`ContextTriggers`) |

| Run | Instance | Why these bounds |
|---|---|---|
| `repair_race` | 2 processes, 3 Attempts and a fourth for the child of a repair (`FourthForRepair`), 2 generations, bounded profile, version up to 16, at most 3 reconciliations (`FewReconciliations`) | freeze, a failed check, a decision and two consumers of it, and then the one Attempt of the child, which may complete, fail or be interrupted; a blocked Goal could be reconciled for ever (462 500 states) |
| `repair_to_closeout` | 2 processes, 5 Attempts, 2 generations, 1 obligation, local command, version up to 21, Attempts complete (`AttemptsComplete`); only `AuditAccepts` (616 188 states) | a repair and the closeout of its child in one behaviour; failures are the other run's business |

**The lost repair.** A repair grants one IMPLEMENT Attempt: its context is compiled for
the version after the repair. When that Attempt ends without a result, the Goal is READY
again, the status view advises RUNTIME_CONTINUE, and every `beginAttempt` is refused
(`RepairContextCurrent`, `workflow-runtime.ts` line 6670); only cancellation is left,
while `docs/workflow.md` lines 830 to 831 say that any later resume uses a fresh Attempt.
`ReadersAccept` states this as its exception, and both ways: no other history makes the
kernel refuse the context of a further Attempt, and this one always does. `RepairLost`
names the history (a worker was handed the child, and the latest Attempt of the phase did
not complete on it), not the check that fails. `repair_race` reaches it, at a depth of 21
steps, and also its harmless neighbour, where the worker completed and the driver leaves
the phase; without the exception `ReadersAccept` is violated there.

The property speaks of coding phases. In EVIDENCE_BUILD a READY Goal whose verification
session was lost is likewise advised to continue and refused; the session belongs to a
process, and section 6 has it (`RefusedOnlyWhenLost`). The status view advises
INSPECT_BLOCKER after a timeout although a resume is accepted.

## 6. `CandidateWorkspace` and `WorkflowDrive`

**Workspace.** `records` has the ownership record of each generation: its phase, the
manifest it was frozen with, Attempts with an active MUTABLE lease, READ_ONLY leases.
Every action is one of `WorkflowControl` with what the workspace does under it. A
record is a file: a command first writes it and then commits, and a process may die
or lose its race in between. Operations that are one synchronous call are one step;
the freeze scans the tree twice and rewrites the record it read first.

**Driver.** `drive[p]` is one invocation of the product: it opens the data home
(`OpenProcess`, which reconciles the RUNNING workflow it finds), gives one command
(`StartCommand`, `ReplayStart`, `ResumeCommand`, `RepairCommand`, `CancelCommand`),
and then turns the loop: `Load` reads the authority, the next actions do what
`driveGoal` does with what it loaded, and other processes move in between.
`invocations`, `tampers` and `MaxFailures` bound the environment, `contextGen`
is the generation the manifest of an Attempt binds.

| Action | Code |
|---|---|
| `Load`, `StopRefused`, `TransitionPhase`, `BeginOwnAttempt` | the loop of `workflow-driver.ts`: snapshot, authoritative stop, transition, Attempt |
| `Configure`, `ObserveCandidate`, `CompleteSpecialAttempt`, `Proceed`, `CommitCommand`, `RefuseCommand`, `CommitRepair`, `RefuseRepair` | the commands that observe the workspace, with the workspace's answers |
| `DispatchOwnedAttempt`, `WorkerWrites`, `AdmitTerminal`, `StreamEnds` | `dispatchOwnedAttempt` and the leased worker |
| `Die`, `DieConfiguring`, `Tamper` | a crash, a crash between the record and the commit, somebody else's write |

| Property | Says |
|---|---|
| `RecordBindsAuthority` | a generation that the store holds frozen has a record that is frozen or says its tree is unsafe; when nobody tampered with a tree, a frozen record has the contents of the row |
| `FrozenAfterImplementation` | a frozen tree is one that an IMPLEMENT Attempt given exactly that generation completed |
| `WritersExclusive` | two processes never run workers in one tree |
| `RefusedOnlyWhenLost` | a drive that ends on a refusal was overtaken, or stands before a lost verification session, an unsafe tree or a lost repair |
| `DriveEnds` | a drive returns: whenever its process may die it could take a turn instead, and every turn counts an operation against the limit or comes nearer to the next one |

A freeze marks the record, scans the tree a second time, and then writes the record
it read first with the verdict of its scans. When two processes freeze one tree, the
later verdict overwrites what was recorded meanwhile; with a tampering in between (three
processes, or one that was overtaken) the record may then vouch for contents other than
the row's. That is why the property speaks of contents only where nobody tampered; the
kernel notices the difference at its next observation.

`drive` has 2 processes, 9 Attempts (no behaviour uses the ninth), 2 generations, 1
obligation, the local command, 16 operations per invocation, 2 invocations, 1
tampering, 1 failure; version up to 40 is never reached. The evaluation is the
sixteenth operation of an undisturbed drive, so hitting the limit, repair and closeout
by a second invocation all happen. What needs a third invocation does not, among it
the last cause `RefusedOnlyWhenLost` lists. `DriveSpec` assumes weak fairness of
`Turn(p)`: the loop of a live process goes on and worker ports bound their turns in
time. `DriveEnds` is the termination measure that, with this fairness, makes a drive
end; it is checked as a property of steps, because the corresponding leads-to takes
too long.

Consequences seen while modelling, all left as they are by the code: hitting the
operation limit right after `beginAttempt` strands a RUNNING Attempt until a later
startup recovery; hitting it, or dying, in the middle of a local verification loses the
session, and the Goal can only be cancelled; a process that dies with an active MUTABLE
lease leaves a tree that grants no other Attempt a lease; one that dies between the
FROZEN record and the commit makes the next freeze fail the Goal.

## 7. `CommandExecution` and `CommandOnce`

Every kernel command goes through `executeCommand`: look the command identity
up, read the authority, plan, and commit in a transaction that looks the identity
up again and refuses the plan when `Workflow.version` moved. A refused plan is
made again once. `CommandOnce` is the promise behind this: under one identity at
most one request is ever executed, its verdict is recorded in the same step as
its effect, and whoever asks again is told that verdict.

`version` is `Workflow.version`, `processed` the `processed_commands` table,
`effects` counts per identity the commits that changed rows, `answers` is what
callers have been told, `call[p]` the execution in progress in process `p`.

| Action | Code |
|---|---|
| `Submit`, `LookUp`, `MakePlan` | `executeCommand` up to the plan, `preflightReplay`, `resolveAuthority`, `commandFreshnessError` |
| `Commit` | the transaction of a command: `checkCommand`, `updateWorkflow`, `insertProcessedCommand`, and `recordCommandRejection` for a refused plan |
| `Return` | `replayed`, `recorded`, or a CONFLICT or exhausted retry, which leave no trace |
| `Fail` | a read, the planning or the transaction throws and rolls back |
| `Crash` | the process dies, also between the commit and the answer |

A request is an identity, a body (`Appending` bodies add rows and leave the
version) and the version its caller expects; the input digest covers all three.
A caller expects a version it has read (`Submit`). The verdict of the domain is
nondeterministic. FAILED replies are not kept in `answers`: they say nothing, and
a request that was answered FAILED may have been, or may still be, applied.

| Property | Says |
|---|---|
| `AppliedFresh` | a command that took effect did so once, at the version its caller expected |
| `OneWinnerPerVersion` | of the commands issued for one version at most one moves the workflow on |
| `RepliesStayTrue` | a verdict, a conflict and an exhausted retry stay true for ever after they were told |
| `ExecutesOnce` | every behaviour is one of `CommandOnce` |

| Run | Instance | Why these bounds |
|---|---|---|
| `commands` | 2 processes, 3 identities, a moving body, version up to 3, 1 answer | a commit is refused twice only if two other commands win in between; two processes ask under one identity with the same and with another request. Appending bodies, which leave the version, are covered by the proofs, for any set of them |

`FewAnswers` bounds how many different replies were given; one is enough to break
`RepliesStayTrue`, as a told reply is compared with every later state.

## 8. `WorkerDispatch`

How a worker is let loose on an Attempt and what is believed of what it says.
`wf` and `attempts` are the Workflow and Attempt rows, `claims` the dispatch
claims, `receipts` the receipts of worker events by event identity, `session[p]`
the dispatch in the memory of process `p`, its step in the code included.

| Action | Code |
|---|---|
| `BeginAttempt` | `startGoal`/`beginAttempt`: the request is prepared in this process only |
| `ReadDispatch`, `CommitClaim` | `claimWorkerDispatch` in the kernel, then in the store |
| `Deliver`, `EndStream`, `BreakStream` | the loop of `dispatchOwnedAttempt` and of `WorkerExecutionCoordinator.startGoal` |
| `ReadEvent` | `admitWorkerEvent`: replay, causality, currency |
| `CommitIgnored`, `CommitAdmitted` | `recordIgnoredWorkerEvent`, `commitWorkerAttemptEvent`, with the one retry of a lost race |
| `ReadPort`, `CommitPort` | `recordWorkerPortFailure` |
| `StoreFails` | a call of the store throws: admission answers a control failure, the rest gives up |
| `CancelGoal`, `StartupRecovery`, `ResumeGoal`, `Crash` | what else ends an Attempt or a process |

An event carries its identity, the Attempt and the Context Manifest it names, and
whether its session, digests and result kind are those of the request (`exact`).
Events are arbitrary: late, of another dispatch, duplicated, or two different
ones under one identity. All failure classes end in BLOCKED, phases are left out
(a new Attempt begins in READY), and an undecodable delivery, which changes
nothing, is not an event. The EXISTING answer of a claim does not occur: a request
is taken out of the memory of the one process that prepared it before the claim
is made. An event of another dispatch whose Attempt was dispatched uses its
identity up as IGNORED, in the model as in the code.

| Property | Says |
|---|---|
| `ReplayAuthority` | what a replay asserts of the retained rows holds in every state: a receipt is of a dispatched Attempt, an admitted event bound its dispatch, was judged at the claimed version, was the only one, and the Attempt ended as it says |
| `StreamEndsAttempt` | a driver that is done leaves no Attempt running unless the control plane failed it |
| `TerminalForDispatch` | a stream counted as terminated had an event of this very dispatch admitted |
| `DecidedOnce` | a claim is made only while the Attempt is current; claims, receipts and ends of Attempts are never revised |
| `DispatchEnds` | every dispatched Attempt ends unless its process dies or its control plane fails |

| Run | Instance | Why these bounds |
|---|---|---|
| `dispatch` | 2 processes, 2 Attempts, 2 event identities, 2 deliveries per stream, the events of `Deliveries` | a result of each dispatch, a failure and a second event under an identity already used, a foreign session and a foreign manifest; two processes for recovery and cancellation while a stream is read (559 850 states) |

`DispatchEnds` assumes weak fairness of `Step(p)`, the steps a live process takes
of its own accord. The code justifies it twice: kernel calls are synchronous and
the event loop comes back to the driver; and a stream ends, because a worker that
never produces a terminal event is cut off by its deadline
(`terminalTimeoutMilliseconds`). Nothing is assumed of deliveries, crashes,
recovery or resumption. Deadlock is not checked: Attempts run out.

## 9. `ExternalExecution`

Some workers are operating system processes which outlive the driver that spawned
them. What is on record about such a process decides whether a replacement may be
started.

`run` and `attempts` are the Workflow's run status and the Attempts' statuses,
`executions` and `maintenance` the execution records and maintenance intents,
`processes` the real processes, `session[p]` the dispatch or recovery in the memory
of CodeClosure process `p`, `manual` the compaction policy of the profile.

| Action | Code |
|---|---|
| `BeginAttempt`, `DispatchFails` | the start of a dispatch; `recordUndispatchedExternalFailure` |
| `Claim` | `claimExternalWorkerDispatch`: dispatch claim and execution record in one transaction |
| `AuthorizeMaintenance`, `CompleteMaintenance` | the store's transactions of the same names, with the driver's reading of a STATE_CONFLICT (`Complete`) |
| `CreateWorker`, `Launch`, `ProcessExits` | `createWorker`, `startAppServerClient`, the worker process itself |
| `Report`, `BadReport`, `Admit` | `onLifecycleEvent`, then `admitExternalExecutionObservation` |
| `EndStream`, `Settle`, `Abandon`, `ReportFailure`, `AdmitResult` | what `dispatchExternalOwnedAttempt` does after the stream |
| `StoreFails` | a call of the store throws, each step with what its `catch` does |
| `BeginRecovery`, `CommitRecovery`, `BeginResume`, `CommitResume` | `inspectAndBuildRecord` with `reconcileExternalProcess`, then `commitStartupRecovery` and `commitResumeRecovery` |
| `CancelGoal`, `Crash` | what else ends a dispatch |

A process that was spawned but not yet observed has no identity on record: nobody
can find it after a crash. ADR 0028 accepts that window, and
`ReplacementAfterAbsence` speaks of recorded processes. Commands of the kernel are
single actions; `WorkerDispatch` justifies that. The audit watermark, which makes a
recovery commit only if nothing was written since its catalog was read, is the flag
`fresh` of its session: every action that writes goes through `Written`. A record
keeps its version, its last observation and the version that observation was for
(`version`, `last`, `lastOf`), as the retained row does; of an open record the version
says the state, which is how an admission names it. A record ends by a step of the
same transaction that moves it. Failure and reason codes,
digests, session and operation references and interrupt counts are left out; a
mismatch among them is a `BadReport` or an end of the stream that has to be settled.
The driver's re-reading of a record and its abandonment are one step; that the
abandonment may be refused for a change in between is a `StoreFails`. The store's
EXISTING answer and the abort test between claim and invocation are unreachable: a
request is taken out of memory once, and that stretch of the driver is synchronous.
A resume may be tried for any blocked Goal; which failures permit one is
`RetryBoundary` of `WorkflowControl`.

| Property | Says |
|---|---|
| `ReplacementAfterAbsence` | when a later Attempt has begun, every process recorded for an earlier one is gone |
| `ResultFromCompletion` | a recorded result is of an execution that completed, whose process exited, and whose context was compacted first where the profile demands it |
| `RecordsCoherent` | the audit that the store makes of claims, executions and maintenance when it is opened accepts what was written (`ClaimClosure`, `ExecutionClosure`, `MaintenanceClosure`); an execution is open only while its Attempt runs or the Goal was cancelled; an operation runs only after the maintenance it had to wait for |
| `NothingLeftOpen` | a driver that is done left no running Attempt, open execution or active maintenance, unless its control plane failed it |
| `EndedOnce` | how an execution or maintenance ended is never revised, a recorded process never forgotten, and no trigger of migrations 0015 and 0023 (`ExecutionTriggers`, `MaintenanceTriggers`) refuses a row that a driver or a recovery writes, in whatever order |
| `AbandonedOnceSafe` | (violated, see below) recovery abandons an execution only when its process is gone |

| Run | Instance | Why these bounds |
|---|---|---|
| `external` | 2 processes, 2 Attempts, both policies | a driver and one process that recovers, cancels or resumes beside it; a second Attempt is the replacement |
| `abandon_unsafe` | the same | one property |

**Finding.** `docs/workflow.md` lines 827 to 828 say that recovery marks the old
execution ABANDONED *once safe*. The code abandons it in any case:
`commitStartupRecovery` (`store.ts`, line 4562) ends Attempt, execution and
maintenance together, and an unsafe report of the process reconciler only makes the
disposition of the reconciliation BLOCKED. `abandon_unsafe` shows the shortest such
behaviour. Nothing unsafe follows in the model, because resumption reconciles the
recorded process again: `ReplacementAfterAbsence` holds. But a reader who takes the
state ABANDONED to mean that the process is gone is wrong.

A cancelled Goal is outside all this: startup recovery catalogues RUNNING workflows
only, so the execution of a driver that died after its Goal was cancelled stays open
for good. `RecordsCoherent` says so.

## 10. `AppServerClient`, `CodexTurn` and `WorkerStream`

One invocation of the Codex adapter. `client` is the object that owns the child process
and its line protocol, `server` that process, `observer` the adapter's record of what
the server did, `host` the adapter's run (`pc` is the promise it awaits), `report` the
driver's record of the boundaries it was told. Handlers run to completion, so those of
the client and the observer are functions from a state to the next one.

| Action | Code |
|---|---|
| `Decline`, `Start`, `ContinueInit`, `ContinueRead`, `ContinueThread`, `ContinueSession`, `ContinueCompaction`, `ContinueTurn`, `ContinueWait`, `ContinueInterrupt`, `Conclude` | `run` of `adapter.ts` and what it calls, cut at each `await` |
| `SpawnOutcome`, `Reply`, `ServerNotifies`, `ServerRequests`, `Garbage`, `OutputEnds`, `Close` | the handlers of `client.ts` and, in their callbacks, of the observer |
| `Abort`, `RequestTimeout`, `TurnTimeout`, `ShutdownTimeout`, `RefusalSent` | the abort signal, the timers, the write of a refusal |
| `Crash`, `ProcessesLeave`, `Killed`, `NumberReused` | what the host and the operating system may do |
| `Reconcile`, `SeesProcessGone`, `ReconcileTimeout` | `reconcileAppServerProcess`, by the next host |

**Order.** A settled promise is continued before the next event is taken up, except
that the rest of the messages in the same chunk of output comes first. `AwaitSettled`
says so: messages may come between settlement and continuation, other events may not.

`compactThread` awaits the reply to its request first and the end of the compaction after
it (`CompactionSettled`): a compaction that is over does not settle it, and a request that
is refused or fails after it ends the run.

**Data.** The host awaits each request before it sends the next (`RequestsAwaited`), so
requests are not numbered. A host tells four codes of client errors apart, and `Codes` has these. All
messages the client refuses are one (`Garbage`). A reply fits what was asked for, or it
does not, or it names a Thread or Turn. Process numbers are given away again only when
the group is gone, and not within the few milliseconds in which the next host looks at
one; the code leaves that window open.

| Property | Says |
|---|---|
| `ResultIsOwnTurn` | a result the driver accepts is of the Turn and Thread that were bound and reported, nothing was held against it before or after the Turn ended, the process left with success, and a compaction happened exactly when directed |
| `LeavesNoProcess` | a process the host talks to is on record; at the end it is gone, or was sent SIGKILL and outlasted every wait; and when the next host calls it absent or terminated, its whole group is gone |
| `ImplementsWorker` | all this is a `WorkerStream`: boundaries once and in order, a result only of an operation that was reported and whose process is gone |
| `RequestsAwaited` | no request is sent over one that is not settled, and the Turn of a manual compaction is asked for only when the compaction was accepted, was seen through and was counted |
| `TurnEnds` | every run ends, whatever the server does or omits |

`codex_turn` has 2 Threads, 2 Turns, 1 compaction item, 2 messages (one marked final,
one unmarked), two directives (compact a fresh Thread; resume a Thread), one stray
message. Two of each identity are what it takes for the wrong one to be seen. The
messages of a server that does what it was asked are not bounded (`Expected`); one that
is out of place is enough to fail a run. The run has 630 721 states and takes about 100
seconds. `Fairness` is weak fairness of the host's steps, the outcome of the spawn, and
the timers, which Node guarantees to a live process; none is assumed of the server.

Seen while modelling, and left as the code has it. In each of these the driver refuses
the adapter's last report, so the execution ends ABANDONED instead of with its own
outcome; the result is lost, nothing is wrongly accepted.

- A Turn that timed out is reported FAILED with one interruption; the driver's policy
  allows interruptions only of INTERRUPTED.
- A failed Turn whose process did not leave cleanly has no result; the policy demands
  one of BACKEND_TURN_FAILED.
- After a failed `bindThread` or `bindTurn` the report names a Thread or Turn that was
  never recorded.
- After a failed Turn, a compaction that the server begins during the shutdown is
  counted, where the policy forbids compactions.

Also: a clean shutdown waits for the leader's close only, so others of its group may
survive it; a crash between the spawn and its report leaves a process nobody knows; and
a second final message after the Turn's end is tolerated.

## 11. `ProtectedVerification`

Tests and expected outputs that live outside the worker's tree. `plan` is what the first
Start locked (the contents of the files, the criteria), `contexts`, `checks`,
`evidence`, `sets` and `decisions` the rows that name it; `assets` and `source` are what
the files and the trees hold now; `session[p]` the generations whose lease process `p`
holds, `calls` the invocations in progress, `launches` how often a runner executed a
check. Processes in `Protected` are composed with protected assets, the others are not,
and both may open one data home in turn.

| Action | Code |
|---|---|
| `Start` with `LockPlan`, `BeginWork`, `Work` | `startGoal` with the plan it inserts; a later Attempt; the dispatch, which a protected kernel refuses for a Workflow without plan |
| `Configure` (`StoreCheck`), `BeginAttempt` | `configureLocalCommandVerification`, the live session it leaves and the Attempt that needs it |
| `BeginRun` (`ConsumeSession`), `Observe`, `AssertAssets`, `Launch`, `EndCheck`, `Recheck`, `ReassertAssets`, `Reobserve`, `FinalReading`, `CommitRun` | `runLocalCommandVerification` and `executeLocalCommandVerification`, cut at every reading of the files or the tree |
| `RecordSet`, `Evaluate`, `Close`, `Repair`, `FailIntegrity` | the acceptance commands with the reading of the files each makes |
| `StartupRecovery`, `Resume`, `Interrupt`, `Cancel`, `Crash` | what else ends an Attempt or a process |
| `ChangeAssets`, `ChangeSource` | somebody else's write, at any time, also under the runner (`sawAssets`, `restored`) |

The phases before EVIDENCE_BUILD appear in outline (`WORK`), and an acceptance command
is one step: `WorkflowControl` has both in full. The canonical form of paths and
digests, the strict codecs and the sandbox of the runner are left out. `Oracle` is what
a check on given files says of a given tree.

| Property | Says |
|---|---|
| `SingleInvocation` | no protected generation is executed twice, by whichever kernels, requests, crashes and late calls; while a session holds the lease nothing was launched with it and no call and no other process has it |
| `OracleDecides` | a recorded verdict is that of the contents locked at Start on the frozen tree, and a closed Goal has a passing one for every criterion, unless files were changed and changed back under the runner |
| `ProtectedAuditAccepts` | the rows pass the closure that the next opening makes over plan, contexts, Checks, results, sets and decisions |
| `CriteriaAccounted` | (violated, see below) a configured Check ends in results for all criteria or in a Workflow that stopped |

| Run | Instance | Why these bounds |
|---|---|---|
| `protected` | a process with and one without protected assets, 2 calls, 1 criterion, 2 contents, 2 trees, 2 generations, version up to 12, 1 disturbance | a request next to a late call; a closeout of the first generation, or a repair up to the Evidence Set of the second (2 496 405 states). Two disturbances at once are covered by the proofs |
| `protected_criteria` | 1 process, 2 criteria, 1 generation, no disturbance | the smallest Goal with two criteria |

**Finding.** `protected_criteria` assumes a driver that nothing disturbs: weak fairness of
beginning Attempts, requesting what has no result yet, and serving calls (`DrivenSpec`),
which is what its loop does in one live process. With two criteria the first request
consumes the session, no second Check is admitted for the generation, and `beginAttempt`
needs the session: the Workflow stays READY in EVIDENCE_BUILD. ADR 0032 (lines 40 to 42)
allows one protected Check to cover several criteria, and ADR 0033 (lines 105 to 107)
speaks of a second Attempt with fresh authority, which no command provides. The only
profile in the repository has one criterion.

## 12. What is proved

All theorems hold for any sets of processes, identities, digests and so on and
for any bounds, under the ASSUMEs of the modules: bounds are natural numbers,
`None` is not a member of the sets it is added to and no truth value (`ConstantsAssumption`,
`NoneAssumption`, `NoneIsNoObservation`, `NoneIsNoStatus`, `NoneIsNoRow`), the identities of an App Server
client are told apart (`ClientAssumption`), the directives of a Turn are those the driver
can give (`DirectivesAssumption`), the oracle judges every content and tree
(`ProtectedAssumption`), a workspace is prepared from a tree and a driver has an operation
limit (`DriveAssumption`). TLC evaluates them in the runs.

| Module | Theorem | Says |
|---|---|---|
| `WorkflowControlProofs` | `TypeCorrect`, `AuthorityCorrect`, `TerminalCorrect`, `VersionCorrect`, `LineageCorrect`, `RetryCorrect` | `TypeOK`, `AuthorityCoherent`, `TerminalIsFinal`, `OneVersionPerChange`, `CandidateLineage`, `RetryBoundary` |
| `WorkflowControlProofs` | `EvidenceCorrect`, `IntegrityCorrect`, `CloseoutCorrect` | `EvidenceBindsFrozen`, `IntegrityIsFinal`, `CloseoutSound` |
| `WorkflowControlProofs` | `StoreImplemented` | `AdmittedByStore`, the refinement of `ControlStore` |
| `RetainedAuthorityProofs` | `AuditCorrect`, `ReadersCorrect` | `AuditAccepts`, `ReadersAccept` |
| `CommandExecutionProofs` | `CommandTypeCorrect`, `FreshCorrect`, `WinnerCorrect`, `RepliesCorrect`, `OnceCorrect` | every property of `CommandExecution`, the refinement of `CommandOnce` included |
| `WorkerDispatchProofs` | `DispatchTypeCorrect`, `ReplayCorrect`, `StreamCorrect`, `TerminalDispatchCorrect`, `DecidedCorrect` | every safety property of `WorkerDispatch` |
| `ExternalExecutionProofs` | `TypeCorrect`, `AbsenceBeforeReplacement`, `ResultIsOfCompletion`, `AuditedRecords`, `DriverLeavesNothing`, `EndedIsFinal` | every property of `ExternalExecution` that holds |
| `CodexTurnProofs` | `TypeCorrect`, `ResultsAreOwn`, `ProcessesAreEnded`, `OneRequestAtATime`, `StreamImplemented` | the safety properties of `CodexTurn`, the refinement of `WorkerStream` included |
| `ProtectedVerificationProofs` | `TypeCorrect`, `LeaseUsedOnce`, `LockedContentsDecide`, `ReopeningAccepts` | the safety properties of `ProtectedVerification` |
| `WorkflowDriveProofs` | `RecordsCorrect`, `ImplementationCorrect`, `WritersCorrect`, `RefusalsCorrect` | the properties of `WorkflowDrive` but `DriveEnds` |

**`WorkflowControl`.** `Core` is the inductive invariant: the types,
`AuthorityCoherent`, `FrozenIdentity` (the active generation has a workspace; a
generation that was frozen kept its digest) and `PlanBinding` (a command in
progress holds the reading its commit will write). The types alone are not
inductive: that an Attempt row is written at an Attempt needs that a RUNNING
workflow owns one, that an Evidence record has a digest needs the frozen
identity, and that a freeze stores a digest needs the reading kept in the plan.
`TypeStep`, `AuthorityStep`, `FrozenStep` and `PlanStep` prove one conjunct each,
action by action. The later proofs do not go through the actions again for each
property: they first prove what any step can do to one kind of row (an Attempt or
a generation moves along its life cycle, `AttemptMove` and `GenerationMove`;
`EvidenceWrites`: a step either adds a record of the owned Attempt, which
completes, or leaves the records; `InvalidationStep`: a generation is invalidated
only as the active one), and the properties follow from those. `FrozenInvariant`
(`FrozenState`, `EvidenceBindsFrozen`) carries the identity of a frozen generation
to its records, `ClosedInvariant` (`EvidenceBindsFrozen`, `SetsBind`,
`CloseoutSound`) the chain from a record through its Evidence Set to the decision a
closeout consumes. `RetryBoundary` is a property of a history; `Boundary` makes it one of a state:
no two failures end at one version, the owned Attempt is the latest, a transient failure
is the last commit, and a failure to reconcile lies before the reconciliation that
freed the Goal.

**`ControlStore`.** `StoreImplemented` says that every step of a kernel that changes a row is a
step of the store. What is refused depends on how the rows came about, so the rows
need an invariant of their own, `StoreInvariant`: `Grounded`, which collects what is already
proved of the rows (`Core`, `CandidateLineage`, `Boundary`, `FrozenInvariant`,
`ClosedInvariant`), and, for what triggers and decoders look up, `AttemptsShaped` (the row of
an Attempt that has not started is blank, that of one that has ended decodes), `EndedHere`
(what blocks the workflow ended in its phase, as a resume demands), `GenerationsOrdered`
(the active generation is the latest, so a preparation or a repair finds its row unused),
`VerifiesChecked` (a planned verification has its stored Check), `EvidenceShaped`,
`SetsShaped` (a set exists exactly from FINAL_VERIFY on and accounts for every obligation),
`DecisionsReissued` (a decision of the present version is what the engine re-issues from the
rows, as a closeout or a repair demands) and `RepairsShaped`. As elsewhere, a first layer says
what any step does to each kind of row (`AttemptWrites`, `CandidateWrites`, `RecordWrites`,
`SetWrites`, `RepairWrites`, `ClosingWrites`). On it rest three things for each step: the
triggers accept what it writes (a lemma per table, `...TriggersAccept`), the rows written
decode again (`RowsDecode`: the invariant after the step implies it), and the step is one of
the store's transactions (a lemma per transaction, `...Transaction`, joined by
`TransactionStep`). Generations are numbered from 1 without gaps, as the triggers demand of a
parent (`GenerationsNumbered`, `0011_candidate_evidence_authority.sql` line 177).

**`RetainedAuthority`.** `AuditAccepts` speaks of the rows and of the trail that explains
them, and no closure of it is inductive alone. Besides `Grounded`,
`RetainedInvariant` has a conjunct for each kind of row with what explains it:
`TrailSound` (one event per version, the last one of the present state),
`AttemptsAudited`, `EndsOrdered` (Attempts end in the order of their numbers) and
`TransientPhase`, `StartedOnce`, `RecoveriesRecorded`, `GenerationsAudited` and
`LatestActive` (the active generation is the latest), `EvidenceComplete` (a generation has
Evidence only once frozen, first its one freeze record), `EvidenceRecords`,
`EvidenceAudited`, `SetsAudited` (a set exists exactly from FINAL_VERIFY on),
`DecisionsAudited`, `RepairsAudited`, `ContextsRetained`. The proof first reduces the
twenty-odd transactions to what they do to rows and trail together (`AuditedMove`: an
Attempt starts or ends, a generation moves, a set, a decision, a closeout, a repair),
then has one lemma per conjunct over those. Two facts carry it: an event once written is
explained for ever, since versions only grow and a generation keeps its base
(`TrailKept`); and a repair context compiled once compiles again, since nothing touches
the rejected generation, its Evidence and its set (`RepairsStay`). `AuditCorrect` rests on
`GenerationsNumbered` too, and on `None` being no manifest (`NoneIsNoManifest`).

**`AuthorityReads`.** The readers speak of the present, the audit mostly of the past, so
`ReadersCorrect` adds `PresentInvariant` to the invariant of the audit: the latest
reconciliation has the latest record (`RecoveriesLatest`), a decision of the present
version is the one the engine would make now (`DecisionsPresent`), a phase that was tried
has a latest Attempt (`PhasesHaveLatest`), a running Attempt started with this version and
the others before they ended (`StartsOrdered`), a running worker was handed the present
Candidate (`RunningContext`), the child of a repair was handed out later than the repair
was made (`HandedLater`), and until then nothing moved the version (`RepairsPending`). The
last two are the two directions of `NextAdmitted`, which says when the kernel admits a
further context and carries the clause on RUNTIME_CONTINUE. One lemma per reader follows
(`StatusAccepted`, `DriverAccepted`, `CatalogAccepted`, `CatalogOffers`,
`AdviceAccepted`), and one for the triggers (`RunningTriggers`). That the catalog offers exactly what a resume takes (`CatalogExact`) rests on
`EndsOrdered`: the failure at this version is the latest one, whichever the reader looks
for. `None` is neither a decision nor a kind of blocker (`NoneIsNotShown`).

**`CommandExecution`.** `Inv` adds to the properties what they need of the
intermediate states: what an execution in progress has planned is for the version
it read, and a second try comes after the expected version has passed
(`Executions`); a reply about to be given is already true (`PendingReplies`) and
stays so (`GivenReplies`); rows bind the identity they are kept under (`RowsBind`), and a version once
consumed is behind (`Advanced`). `OnceCorrect` maps each step to a step of
`CommandOnce` or to a stutter: only a recording commit executes (`RecordExecutes`),
only a return tells (`ReturnTells`).

**`WorkerDispatch`.** `Inv` is the types, `Rows` (the claimed version is the one
the manifest binds; a workflow that runs has one running Attempt), `ReplayAuthority`,
`Sessions` (what each session may rely on at its step: the claim it holds, what it
read, what it was told, how its stream ended) and `Exclusive` (a dispatch is in the
hands of one process). Two facts do the work. `Stable`: what a session relies on is
taken back by no step of another. `StillRunning`: a commit that finds the claimed
version finds the Attempt running, so an admission ends exactly its own Attempt.

**`ExternalExecution`.** The invariant is the types, `Control` (who owns the running
Attempt, and what a cancelled or blocked Goal leaves), `Exclusive` (a dispatch is in the
hands of one session, and of one that began it), `Row(a)` for every Attempt (what its
claim, execution, maintenance and process have in common) and `Good(session[p])` (what a
driver or a recovery may rely on at its step). `Row` is what the properties speak of; it
is not inductive without `Good`, because whether a write is permitted depends on what its
session read some steps before, and the flag `fresh` is what keeps that true.

**`CodexTurn`.** Four groups: `Talk` (what client and server still owe each other:
`Recorded`, `CancelledByHost`, `Killing`, `Asking`), `Processes` (a process the host talks
to is on record, and is gone or was sent SIGKILL when the host stops), `Observed` (what
the observer's flags witness: `Flagged`, `Bound`, `Witnessed`, `Compacted`) and `Placed`
(what each place of the host's program has behind it: `Running`, `Attached`, `Waiting`,
`FirstFinal`). The observer is a function of the messages, so the proof goes handler by
handler; the host's steps are shown to keep what the observer has established.
`StreamImplemented` maps each step to a step of `WorkerStream` or a stutter: the reports
to the driver are the only steps it sees. `OneRequestAtATime` rests on `Asking`: once the
awaited promise of a place is settled nothing is in flight, except at the shutdown.

**`ProtectedVerification`.** `Core` has the types and who names whom (`Identified`: rows
of a generation have its identity; `Configured`, `OfChecks`: a call and a session have a
stored Check; `Stepped`: what each step of a call has established). `OnePlace` says where
the lease of a generation is, in a session, in a call or spent, and is why
`SingleInvocation` is inductive. `Watching(c)` keeps, while a check runs, that what it saw
contains what was there, so that a reading after it vouches for it unless contents were
restored; `Judging` carries this to the verdict, `Oracles` to the evidence. `Collected`,
`Passed` and `Binding` carry it through set and decision to the closeout.

**`WorkflowDrive`.** Its steps are first shown to be steps of `WorkflowControl` in the
rows (or a resumption, or a change of what a process remembers), so `Core` and
`CandidateLineage` come from the earlier proofs. `Fits(g)` is what row, record and tree of
a generation have in common at every step between the write of one and the commit of the
other; it needs `Planning(p)` (a freeze that ended stable has closed the record of the
tree it scanned), `Loaded(p)` (a drive has loaded no later version than the present one,
and if it decided at this version to leave IMPLEMENT the work is done) and `Leased(p)` (who
may write an open tree holds its lease). `RefusalInvariant` is only for
`RefusedOnlyWhenLost`: a verification Attempt runs only for a configured Check that lacks
a result (`ChecksFirst`), and a drive that is about to act chose what the authority it
loaded allows (`Chosen`). `DriveInvariant` was also checked by TLC, for the instance of
`drive` exhaustively and for three processes by simulation.

`WorkflowControl`'s theorems hold for every value of `LocalCommand` and every set of
obligations; `obligations` checks `CloseoutSound` and `OneVersionPerChange` with the
bounded profile, `two_kernels` the others with the local command.

Model-checked only: `DispatchEnds`, `TurnEnds` and `CriteriaAccounted` are liveness
under fairness and `DriveEnds` is a property of steps that speaks of ENABLED: both are out
of this prover's reach, as is anything computed by recursion over data.

## 13. What is not modelled

- **Codecs of protected assets**: canonical paths, digests, the strict decoding of plans
  and leases. What they decide on is in `ProtectedVerification`.
- **Several Goals in one data home.** The audit watermark a recovery compares is that
  of the whole store (`store.ts`, line 8833): a commit for any other Goal in between
  makes it start again. Each module here has one Goal.
- **The composition of the CLI and the data home**: parsing, paths, locks of files, the
  output. Its one sequence of consequence, open, reconcile, drive, is in `WorkflowDrive`.
- **Migrations**: SQL that runs once in an exclusive transaction. What the triggers and
  checks they leave behind demand of later writes is in `ControlStore`, of a context
  manifest in `AttemptContext` (`ContextTriggers`), and of executions and maintenance in
  `ExternalExecution` (`ExecutionTriggers`, `MaintenanceTriggers`).
- **Installers** of verification bundles and profiles: files written once, by content.
- **Digests, texts, times and codecs**, unless two of them must agree: a digest is the
  value it is computed from, a codec accepts what `DomainRecords` says.
- **Workspace `reconcile` and `cleanupOrphanedGeneration`**: no code of the product
  calls them.
- **Test support** keeps no state of the control plane.
