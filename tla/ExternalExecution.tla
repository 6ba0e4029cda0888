-------------------------- MODULE ExternalExecution --------------------------
(***************************************************************************)
(* A worker that is an operating system process.  Before it is spawned the *)
(* driver commits a dispatch claim together with an execution record; every*)
(* boundary the process crosses (it runs, it has a session, it works, it   *)
(* ends) is admitted into that record when it happens.  Some profiles      *)
(* compact the session first, under a maintenance intent of its own.       *)
(* Meanwhile another process may recover the Attempt or cancel the Goal,   *)
(* and the driver may die and leave its worker behind.                     *)
(*                                                                         *)
(* Commands of the kernel are single actions here (WorkerDispatch opens    *)
(* them); the calls to the execution record are not commands and are steps.*)
(***************************************************************************)
EXTENDS Naturals

CONSTANTS Procs, MaxAttempts, None  \* MaxAttempts bounds the Attempts

Attempts == 1..MaxAttempts
Open == {"AUTHORIZED", "PROCESS_OBSERVED", "SESSION_OBSERVED", "OPERATION_RUNNING"}
Closed == {"COMPLETED", "INTERRUPTED", "FAILED"}
Observed == (Open \ {"AUTHORIZED"}) \union Closed

\* What the worker reports; result: the one event its stream brought.
Observation == [state : Observed, compactions : 0..1, result : BOOLEAN]

ASSUME ExternalAssumption == MaxAttempts \in Nat \ {0} /\ None \notin Observation

VARIABLES
  run,         \* run status of the Workflow
  attempts,    \* status per Attempt
  executions,  \* execution record per Attempt; process: its identity is recorded
  maintenance, \* maintenance intent per execution
  processes,   \* the operating system process of each execution
  session,     \* per CodeClosure process, the dispatch or recovery in its hands
  manual       \* the Execution Profile compacts before the operation

vars == <<run, attempts, executions, maintenance, processes, session, manual>>

\* The record keeps its version and the last observation, with the version that
\* observation was made of.
Execution == [state : {"NONE", "ABANDONED"} \union Open \union Closed,
              process : BOOLEAN, compactions : 0..1, result : BOOLEAN,
              version : 0..6, last : Observation \union {None}, lastOf : 0..5]
NoExecution == [state |-> "NONE", process |-> FALSE, compactions |-> 0, result |-> FALSE,
                version |-> 0, last |-> None, lastOf |-> 0]
Authorized == [NoExecution EXCEPT !.state = "AUTHORIZED", !.version = 1]
Intent == {"NONE", "AUTHORIZED", "OBSERVED", "FAILED", "ABANDONED"}

\* known and maint: the record and intent as the driver last saw them;
\* fresh: nothing was written since a recovery read its catalog.
Session ==
  [step : {"IDLE", "PREPARE", "AUTHORIZE", "INVOKE", "RUN", "MAINTAIN", "ADMIT", "SETTLE",
           "ABANDON", "PORT", "RESULT", "DONE", "RECOVER", "RESUME"},
   attempt : 0..MaxAttempts, known : {"NONE"} \union Open \union Closed, maint : Intent,
   event : Observation \union {None}, failed : BOOLEAN, aborted : BOOLEAN,
   control : BOOLEAN, fresh : BOOLEAN, safe : BOOLEAN]
Quiet == [step |-> "IDLE", attempt |-> 0, known |-> "NONE", maint |-> "NONE", event |-> None,
          failed |-> FALSE, aborted |-> FALSE, control |-> FALSE, fresh |-> FALSE,
          safe |-> FALSE]

TypeOK ==
  /\ run \in {"READY", "RUNNING", "BLOCKED", "CANCELLED"}
  /\ attempts \in [Attempts -> {"NONE", "RUNNING", "RESULT_RECORDED", "FAILED", "INTERRUPTED"}]
  /\ executions \in [Attempts -> Execution]
  /\ maintenance \in [Attempts -> Intent]
  /\ processes \in [Attempts -> {"NONE", "ALIVE", "GONE"}]
  /\ session \in [Procs -> Session]
  /\ manual \in BOOLEAN
-----------------------------------------------------------------------------
Begun(a) == attempts[a] # "NONE"
Newest(a) == Begun(a) /\ \A b \in Attempts : Begun(b) => b <= a
Mine(p) == session[p].attempt

\* A step that writes nothing, and one that moves the audit watermark.
Become(p, s) == session' = [session EXCEPT ![p] = s]
Goto(p, step) == Become(p, [session[p] EXCEPT !.step = step])
Written(p, s) ==
  session' = [q \in Procs |-> IF q = p THEN s ELSE [session[q] EXCEPT !.fresh = FALSE]]

\* Workflow and Attempt move together.
EndAttempt(a, status, to) == attempts' = [attempts EXCEPT ![a] = status] /\ run' = to

\* recordAttemptFailure and recordWorkerPortFailure of an Attempt that may be over.
FailAttempt(p, s) ==
  IF attempts[Mine(p)] = "RUNNING"
  THEN EndAttempt(Mine(p), "FAILED", "BLOCKED") /\ Written(p, s)
  ELSE UNCHANGED <<attempts, run>> /\ Become(p, s)

Rows == <<run, attempts, executions, maintenance>>
-----------------------------------------------------------------------------
(* Dispatch *)

BeginAttempt(p) ==
  /\ session[p].step \in {"IDLE", "DONE"} /\ run = "READY"
  /\ \E a \in Attempts :
       /\ ~Begun(a) /\ \A b \in 1..(a - 1) : Begun(b)
       /\ EndAttempt(a, "RUNNING", "RUNNING")
       /\ Written(p, [Quiet EXCEPT !.step = "PREPARE", !.attempt = a])
  /\ UNCHANGED <<executions, maintenance, processes, manual>>

\* Preparing the worker, or the claim itself, fails: the Attempt is failed.
DispatchFails(p) ==
  /\ session[p].step = "PREPARE" /\ ~session[p].aborted
  /\ FailAttempt(p, [session[p] EXCEPT !.step = "DONE"])
  /\ UNCHANGED <<executions, maintenance, processes, manual>>

\* One transaction claims the dispatch and authorises the execution.
Claim(p) ==
  /\ session[p].step = "PREPARE"
  /\ IF ~session[p].aborted /\ attempts[Mine(p)] = "RUNNING" /\ executions[Mine(p)] = NoExecution
     THEN /\ executions' = [executions EXCEPT ![Mine(p)] = Authorized]
          /\ Written(p, [session[p] EXCEPT !.step = IF manual THEN "AUTHORIZE" ELSE "INVOKE",
                                           !.known = "AUTHORIZED"])
     ELSE Goto(p, "DONE") /\ UNCHANGED executions
  /\ UNCHANGED <<run, attempts, maintenance, processes, manual>>

\* Mutant: maintenance of an execution that was abandoned meanwhile.
AuthorizeUnchecked(p) ==
  /\ session[p].step = "AUTHORIZE"
  /\ maintenance' = [maintenance EXCEPT ![Mine(p)] = "AUTHORIZED"]
  /\ Written(p, [session[p] EXCEPT !.step = "INVOKE", !.maint = "AUTHORIZED"])
  /\ UNCHANGED <<run, attempts, executions, processes, manual>>

AuthorizeMaintenance(p) ==
  /\ session[p].step = "AUTHORIZE"
  /\ IF maintenance[Mine(p)] = "NONE" /\ executions[Mine(p)].state \in Open
     THEN /\ maintenance' = [maintenance EXCEPT ![Mine(p)] = "AUTHORIZED"]
          /\ Written(p, [session[p] EXCEPT !.step = "INVOKE", !.maint = "AUTHORIZED"])
     ELSE Goto(p, "ABANDON") /\ UNCHANGED maintenance
  /\ UNCHANGED <<run, attempts, executions, processes, manual>>

CreateWorker(p) ==
  /\ session[p].step = "INVOKE"
  /\ Goto(p, "RUN") \/ Goto(p, "SETTLE")
  /\ UNCHANGED <<Rows, processes, manual>>

-----------------------------------------------------------------------------
(* The worker runs *)

Launch(p) ==
  /\ session[p].step = "RUN" /\ session[p].known = "AUTHORIZED" /\ ~session[p].failed
  /\ processes[Mine(p)] = "NONE"
  /\ processes' = [processes EXCEPT ![Mine(p)] = "ALIVE"]
  /\ UNCHANGED <<Rows, session, manual>>

ProcessExits(a) ==
  /\ processes[a] = "ALIVE"
  /\ processes' = [processes EXCEPT ![a] = "GONE"]
  /\ UNCHANGED <<Rows, session, manual>>

\* The states an observation may take a record to.
Follows(state) ==
  (CASE state = "AUTHORIZED" -> {"PROCESS_OBSERVED"}
     [] state = "PROCESS_OBSERVED" -> {"SESSION_OBSERVED"}
     [] state = "SESSION_OBSERVED" -> {"OPERATION_RUNNING"}
     [] state = "OPERATION_RUNNING" -> {"COMPLETED"}
     [] OTHER -> {}) \union (IF state \in Open THEN {"FAILED", "INTERRUPTED"} ELSE {})

\* Mutant: a result is yielded although the process may still run.
YieldsEarly(p, o) ==
  /\ o.state = "COMPLETED" => o.result
  /\ o.result => o.state \in {"COMPLETED", "FAILED"} /\ session[p].known = "OPERATION_RUNNING"
  /\ o.state = "INTERRUPTED" => session[p].aborted

\* The adapter yields a result only of an operation whose process it saw
\* exit, and is INTERRUPTED only when aborted.
Yields(p, o) ==
  /\ o.state = "COMPLETED" => o.result
  /\ o.result => o.state \in {"COMPLETED", "FAILED"} /\ session[p].known = "OPERATION_RUNNING"
                 /\ processes[Mine(p)] = "GONE"
  /\ o.state = "INTERRUPTED" => session[p].aborted

\* A report in order.
Report(p, o) ==
  /\ session[p].step = "RUN" /\ ~session[p].failed
  /\ o.state \in Follows(session[p].known) /\ Yields(p, o)
  /\ o.state = "PROCESS_OBSERVED" => processes[Mine(p)] # "NONE" /\ o.compactions = 0
  /\ o.state = "SESSION_OBSERVED" => o.compactions = 0
  /\ o.state = "OPERATION_RUNNING" /\ session[p].maint = "AUTHORIZED" => o.compactions = 1
  /\ LET maintains == session[p].maint = "AUTHORIZED"
                        /\ o.state \in Closed \union {"OPERATION_RUNNING"} IN
     Become(p, [session[p] EXCEPT !.event = o, !.step = IF maintains THEN "MAINTAIN" ELSE "ADMIT"])
  /\ UNCHANGED <<Rows, processes, manual>>

\* A report the driver refuses before it reaches the store.
BadReport(p) ==
  /\ session[p].step = "RUN" /\ ~session[p].failed
  /\ Become(p, [session[p] EXCEPT !.failed = TRUE])
  /\ UNCHANGED <<Rows, processes, manual>>

\* Only an authorised intent is completed.
EndMaintenance(a, status) ==
  [maintenance EXCEPT ![a] = IF @ = "AUTHORIZED" THEN status ELSE @]

\* completeExternalMaintenance: an intent completed by others is taken as it is.
Complete(p, status, step) ==
  LET active == maintenance[Mine(p)] = "AUTHORIZED"
      next == [session[p] EXCEPT !.step = step,
                 !.maint = IF active THEN status ELSE maintenance[Mine(p)]] IN
  IF active
  THEN maintenance' = EndMaintenance(Mine(p), status) /\ Written(p, next)
  ELSE UNCHANGED maintenance /\ Become(p, next)

CompleteMaintenance(p) ==
  /\ session[p].step = "MAINTAIN"
  /\ Complete(p, IF session[p].event.compactions = 1 THEN "OBSERVED"
                 ELSE IF session[p].event.state = "INTERRUPTED" THEN "ABANDONED" ELSE "FAILED",
              "ADMIT")
  /\ UNCHANGED <<run, attempts, executions, processes, manual>>

\* admitExternalExecutionObservation.  The version of an open record says its state.
Admissible(o, x, known, intent) ==
  /\ x.state = known /\ o.state \in Follows(x.state)
  /\ o.compactions >= x.compactions
  /\ o.compactions = 1 => manual /\ intent = "OBSERVED"
  /\ o.state \in Closed => intent # "AUTHORIZED"

\* Counts are totals; a recorded process identity stays.
Advanced(x, o) ==
  [state |-> o.state, compactions |-> o.compactions, result |-> o.result,
   process |-> x.process \/ o.state = "PROCESS_OBSERVED",
   version |-> x.version + 1, last |-> o, lastOf |-> x.version]

\* What was observed stays in a record that is abandoned.
Abandoned(x) == [x EXCEPT !.state = "ABANDONED", !.version = @ + 1]

Admit(p) ==
  /\ session[p].step = "ADMIT"
  /\ LET o == session[p].event
         x == executions[Mine(p)] IN
     IF Admissible(o, x, session[p].known, maintenance[Mine(p)])
     THEN /\ executions' = [executions EXCEPT ![Mine(p)] = Advanced(x, o)]
          /\ Written(p, [session[p] EXCEPT !.step = "RUN", !.event = None, !.known = o.state])
     ELSE /\ Become(p, [session[p] EXCEPT !.step = "RUN", !.event = None, !.failed = TRUE])
          /\ UNCHANGED executions
  /\ UNCHANGED <<run, attempts, maintenance, processes, manual>>

-----------------------------------------------------------------------------
(* After the worker *)

\* Mutant: a stream without a terminal report is an ordinary failure.
EndUnsettled(p) ==
  /\ session[p].step = "RUN"
  /\ Goto(p, IF session[p].failed THEN "SETTLE"
             ELSE IF session[p].aborted \/ session[p].known = "INTERRUPTED" THEN "DONE"
             ELSE "RESULT")
  /\ UNCHANGED <<Rows, processes, manual>>

\* The stream ends or throws; its summary may contradict what was reported.
EndStream(p) ==
  /\ session[p].step = "RUN"
  /\ \/ Goto(p, "SETTLE")
     \/ /\ ~session[p].failed /\ session[p].known \in Closed
        /\ Goto(p, IF session[p].aborted \/ session[p].known = "INTERRUPTED" THEN "DONE"
                   ELSE "RESULT")
  /\ UNCHANGED <<Rows, processes, manual>>

Settle(p) ==
  /\ session[p].step = "SETTLE"
  /\ IF session[p].maint = "AUTHORIZED"
     THEN Complete(p, IF session[p].aborted /\ ~session[p].failed THEN "ABANDONED" ELSE "FAILED",
                   "ABANDON")
     ELSE Goto(p, "ABANDON") /\ UNCHANGED maintenance
  /\ UNCHANGED <<run, attempts, executions, processes, manual>>

\* Mutant: an execution that was completed is abandoned like any other.
AbandonAny(p) ==
  /\ session[p].step = "ABANDON"
  /\ executions' = [executions EXCEPT ![Mine(p)] = Abandoned(@)]
  /\ Written(p, [session[p] EXCEPT !.step = "PORT"])
  /\ UNCHANGED <<run, attempts, maintenance, processes, manual>>

\* A record that ended is left alone; active maintenance refuses it.
Abandon(p) ==
  /\ session[p].step = "ABANDON"
  /\ \/ /\ executions[Mine(p)].state \notin Open
        /\ Goto(p, "PORT") /\ UNCHANGED executions
     \/ /\ executions[Mine(p)].state \in Open /\ maintenance[Mine(p)] # "AUTHORIZED"
        /\ executions' = [executions EXCEPT ![Mine(p)] = Abandoned(@)]
        /\ Written(p, [session[p] EXCEPT !.step = "PORT"])
  /\ UNCHANGED <<run, attempts, maintenance, processes, manual>>

ReportFailure(p) ==
  /\ session[p].step = "PORT"
  /\ FailAttempt(p, [session[p] EXCEPT !.step = "DONE"])
  /\ UNCHANGED <<executions, maintenance, processes, manual>>

\* admitWorkerEvent of the result; the Attempt may be over, or have no result.
AdmitResult(p) ==
  /\ session[p].step = "RESULT"
  /\ LET x == executions[Mine(p)] IN
     IF x.result /\ attempts[Mine(p)] = "RUNNING"
     THEN /\ IF x.state = "COMPLETED" THEN EndAttempt(Mine(p), "RESULT_RECORDED", "READY")
                                      ELSE EndAttempt(Mine(p), "FAILED", "BLOCKED")
          /\ Written(p, [session[p] EXCEPT !.step = "DONE"])
     ELSE Goto(p, "PORT") /\ UNCHANGED <<attempts, run>>
  /\ UNCHANGED <<executions, maintenance, processes, manual>>

\* A call of the store throws.
StoreFails(p) ==
  /\ \/ session[p].step = "AUTHORIZE" /\ Goto(p, "ABANDON")
     \/ /\ session[p].step \in {"MAINTAIN", "ADMIT"}
        /\ Become(p, [session[p] EXCEPT !.step = "RUN", !.event = None, !.failed = TRUE])
     \/ /\ session[p].step \in {"PREPARE", "SETTLE", "ABANDON", "PORT", "RESULT"}
        /\ Become(p, [session[p] EXCEPT !.step = "DONE", !.control = TRUE])
  /\ UNCHANGED <<Rows, processes, manual>>

-----------------------------------------------------------------------------
(* Cancellation, recovery, crashes *)

CancelGoal(p) ==
  /\ session[p].step \in {"IDLE", "PREPARE", "RUN", "DONE"} /\ run # "CANCELLED"
  /\ run' = "CANCELLED"
  /\ attempts' = [a \in Attempts |-> IF attempts[a] = "RUNNING" THEN "INTERRUPTED" ELSE attempts[a]]
  /\ Written(p, [session[p] EXCEPT !.aborted = @ \/ session[p].step \in {"PREPARE", "RUN"}])
  /\ UNCHANGED <<executions, maintenance, processes, manual>>

\* Mutant: the process is not looked for.
NoReconciliation(a, safe) == safe /\ UNCHANGED processes

\* reconcileExternalProcess: a recorded process is absent, is terminated now,
\* or cannot be told to be gone.  One that was never recorded is no concern.
Reconcile(a, safe) ==
  \/ executions[a].process /\ safe /\ processes' = [processes EXCEPT ![a] = "GONE"]
  \/ executions[a].process /\ ~safe /\ UNCHANGED processes
  \/ ~executions[a].process /\ safe /\ UNCHANGED processes

\* The catalog is read and the workspace and the process are inspected.
BeginRecovery(p) ==
  /\ session[p].step = "IDLE" /\ run = "RUNNING"
  /\ \E a \in Attempts, safe \in BOOLEAN :
       /\ Newest(a) /\ Reconcile(a, safe)
       /\ Become(p, [Quiet EXCEPT !.step = "RECOVER", !.attempt = a, !.fresh = TRUE])
  /\ UNCHANGED <<Rows, manual>>

\* One transaction ends the Attempt, its execution and its maintenance.
CommitRecovery(p) ==
  /\ session[p].step = "RECOVER"
  /\ LET a == Mine(p)
         open == executions[a].state \in Open IN
     IF session[p].fresh
     THEN /\ EndAttempt(a, "INTERRUPTED", "BLOCKED")
          /\ maintenance' = IF open THEN EndMaintenance(a, "ABANDONED") ELSE maintenance
          /\ executions' = [executions EXCEPT ![a] = IF open THEN Abandoned(@) ELSE @]
          /\ Written(p, Quiet)
     ELSE Become(p, Quiet) /\ UNCHANGED Rows
  /\ UNCHANGED <<processes, manual>>

BeginResume(p) ==
  /\ session[p].step \in {"IDLE", "DONE"} /\ run = "BLOCKED"
  /\ \E a \in Attempts, safe \in BOOLEAN, exact \in BOOLEAN :
       /\ Newest(a) /\ Reconcile(a, safe)
       /\ Become(p, [Quiet EXCEPT !.step = "RESUME", !.attempt = a, !.fresh = TRUE,
                                  !.safe = safe /\ exact])
  /\ UNCHANGED <<Rows, manual>>

\* An unsafe resume is committed too: the Goal stays BLOCKED.
CommitResume(p) ==
  /\ session[p].step = "RESUME"
  /\ IF session[p].fresh THEN Written(p, Quiet) ELSE Become(p, Quiet)
  /\ run' = IF session[p].fresh /\ session[p].safe THEN "READY" ELSE run
  /\ UNCHANGED <<attempts, executions, maintenance, processes, manual>>

\* The worker outlives its driver, or not (ProcessExits).
Crash(p) ==
  /\ session[p] # Quiet
  /\ Become(p, Quiet)
  /\ UNCHANGED <<Rows, processes, manual>>

Init ==
  /\ run = "READY"
  /\ attempts = [a \in Attempts |-> "NONE"]
  /\ executions = [a \in Attempts |-> NoExecution]
  /\ maintenance = [a \in Attempts |-> "NONE"]
  /\ processes = [a \in Attempts |-> "NONE"]
  /\ session = [p \in Procs |-> Quiet]
  /\ manual \in BOOLEAN

\* What a live process does next of its own accord.
Step(p) ==
  \/ Claim(p) \/ AuthorizeMaintenance(p) \/ CreateWorker(p)
  \/ CompleteMaintenance(p) \/ Admit(p)
  \/ EndStream(p) \/ Settle(p) \/ Abandon(p) \/ ReportFailure(p) \/ AdmitResult(p)
  \/ CommitRecovery(p) \/ CommitResume(p)

Next ==
  \/ \E p \in Procs :
       \/ Step(p) \/ BeginAttempt(p) \/ DispatchFails(p) \/ Launch(p)
       \/ (\E o \in Observation : Report(p, o)) \/ BadReport(p) \/ StoreFails(p)
       \/ CancelGoal(p) \/ BeginRecovery(p) \/ BeginResume(p) \/ Crash(p)
  \/ \E a \in Attempts : ProcessExits(a)

Spec == Init /\ [][Next]_vars
-----------------------------------------------------------------------------
(* What opening the store audits of the rows other commands left *)

Active(a) == run = "RUNNING" /\ Newest(a)

\* A dispatch claim is retained by an active running Attempt or by one that ended.
ClaimClosure(a) ==
  executions[a].state # "NONE" =>
    /\ Begun(a)
    /\ attempts[a] = "RUNNING" <=> Active(a)

\* decodeExternalExecutionObservation.
ObservationValid(o) ==
  /\ o.state = "COMPLETED" => o.result
  /\ o.result => o.state \in {"COMPLETED", "FAILED"}

\* decodeExternalExecutionRecord.
RecordValid(x) ==
  /\ x.state = "COMPLETED" => x.result
  /\ x.result => x.state \in {"COMPLETED", "FAILED"}
  /\ x.state = "AUTHORIZED" => x.version = 1 /\ ~x.process
  /\ x.state \in Open \ {"AUTHORIZED"} => x.process

\* The last observation says what the record says, unless it was abandoned since.
ExecutionClosure(a) ==
  LET x == executions[a]
      o == x.last IN
  x.state # "NONE" =>
    /\ RecordValid(x)
    /\ x.version = 1 => x.state = "AUTHORIZED" /\ o = None
    /\ o = None => x.version = 1 \/ x.state = "ABANDONED"
    /\ o # None =>
         /\ ObservationValid(o) /\ x.lastOf < x.version
         /\ x.state # "ABANDONED" =>
              /\ x.lastOf = x.version - 1 /\ o.state = x.state
              /\ o.compactions = x.compactions /\ o.result = x.result

MaintenanceClosure(a) ==
  maintenance[a] # "NONE" =>
    /\ manual /\ executions[a].state # "NONE"
    /\ maintenance[a] = "AUTHORIZED" => executions[a].state \in Open

-----------------------------------------------------------------------------
(* The triggers and checks of the migrations, which judge every row again as  *)
(* its statement writes it: a claim and its execution, an observation and the *)
(* record that it advances, maintenance and then the execution it was for.    *)

LifecycleEdges ==
  {<<"AUTHORIZED", "PROCESS_OBSERVED">>, <<"PROCESS_OBSERVED", "SESSION_OBSERVED">>,
   <<"SESSION_OBSERVED", "OPERATION_RUNNING">>, <<"OPERATION_RUNNING", "COMPLETED">>}
  \union Open \X {"FAILED", "INTERRUPTED"}

ClaimInserted(a) == Active(a) /\ attempts[a] = "RUNNING"

ExecutionInserted(x) ==
  /\ x.version = 1 /\ x.state = "AUTHORIZED"
  /\ ~x.process /\ x.compactions = 0 /\ ~x.result /\ x.last = None

\* The columns that a state has filled in.
RecordShape(x) ==
  /\ x.state = "AUTHORIZED" => ~x.process
  /\ x.state \in Open \ {"AUTHORIZED"} => x.process
  /\ x.state = "COMPLETED" => x.result
  /\ x.result => x.state \in {"COMPLETED", "FAILED"}

\* A process is identified once; nothing ends under active maintenance.
ExecutionUpdated(x, next, intent) ==
  /\ x.state \in Open /\ next.version = x.version + 1
  /\ next.process = x.process \/ <<x.state, next.state>> = <<"AUTHORIZED", "PROCESS_OBSERVED">>
  /\ next.state = "ABANDONED" \/ <<x.state, next.state>> \in LifecycleEdges
  /\ next.state \in Closed \union {"ABANDONED"} => intent # "AUTHORIZED"

ObservationInserted(o, version, x, intent) ==
  /\ version = x.version /\ <<x.state, o.state>> \in LifecycleEdges
  /\ o.state = "PROCESS_OBSERVED" => ~x.process
  /\ o.compactions >= x.compactions
  /\ o.compactions = 1 => manual /\ intent = "OBSERVED"
  /\ o.state = "COMPLETED" => o.result
  /\ o.result => o.state \in {"COMPLETED", "FAILED"}

MaintenanceInserted(intent, x) == manual /\ intent = "AUTHORIZED" /\ x.state \in Open
MaintenanceUpdated(old, intent) ==
  old = "AUTHORIZED" /\ intent \in {"OBSERVED", "FAILED", "ABANDONED"}

ExecutionTriggers(a) ==
  LET x == executions[a]
      next == executions'[a] IN
  /\ next # x =>
       /\ IF x.state = "NONE" THEN ClaimInserted(a) /\ ExecutionInserted(next)
          ELSE ExecutionUpdated(x, next, maintenance'[a])
       /\ RecordShape(next)
  /\ next.lastOf # x.lastOf => ObservationInserted(next.last, next.lastOf, x, maintenance[a])

MaintenanceTriggers(a) ==
  maintenance'[a] # maintenance[a] =>
    IF maintenance[a] = "NONE" THEN MaintenanceInserted(maintenance'[a], executions[a])
    ELSE MaintenanceUpdated(maintenance[a], maintenance'[a])

-----------------------------------------------------------------------------
(* Properties *)

(* No replacement while the old process may still run: a later Attempt begins *)
(* only when every process recorded for an earlier one is gone, whoever died, *)
(* recovered, or reported late in between.                                    *)
ReplacementAfterAbsence ==
  \A a, b \in Attempts :
    a < b /\ Begun(b) /\ executions[a].process => processes[a] = "GONE"

(* A result is believed only of an operation that ran to its end, was         *)
(* compacted first where the profile demands it, and whose process was seen   *)
(* to exit: an execution recovery abandoned never yields one.                 *)
ResultFromCompletion ==
  \A a \in Attempts : attempts[a] = "RESULT_RECORDED" =>
    /\ executions[a].state = "COMPLETED" /\ processes[a] = "GONE"
    /\ manual => maintenance[a] = "OBSERVED"

(* Whatever raced, the store can be opened again: every claim, execution and  *)
(* maintenance passes its audit. Beyond the audit, an execution is open only  *)
(* while its Attempt runs or after a cancellation, and an operation runs only *)
(* when the maintenance ahead of it was observed.                             *)
RecordsCoherent ==
  \A a \in Attempts :
    /\ ClaimClosure(a) /\ ExecutionClosure(a) /\ MaintenanceClosure(a)
    /\ executions[a].state \in Open => attempts[a] = "RUNNING" \/ run = "CANCELLED"
    /\ executions[a].state = "OPERATION_RUNNING" /\ manual => maintenance[a] = "OBSERVED"

(* A driver that is done leaves nothing open, unless its control plane failed *)
(* it: then the next startup recovery has to.                                 *)
NothingLeftOpen ==
  \A p \in Procs :
    session[p].step = "DONE" /\ session[p].attempt # 0 /\ ~session[p].control =>
      LET a == session[p].attempt IN
      attempts[a] # "RUNNING" /\ executions[a].state \notin Open /\ maintenance[a] # "AUTHORIZED"

(* What an execution or a maintenance ended as is never revised, by a late    *)
(* report or by a second ending, and a recorded process is never forgotten.   *)
(* No trigger refuses what a driver or a recovery writes, in whatever order   *)
(* they came: both would be stuck with a record that they cannot end.         *)
EndedOnce ==
  [][\A a \in Attempts :
       /\ ExecutionTriggers(a) /\ MaintenanceTriggers(a)
       /\ executions[a].state \in Closed \union {"ABANDONED"} => executions'[a] = executions[a]
       /\ maintenance[a] \notin {"NONE", "AUTHORIZED"} => maintenance'[a] = maintenance[a]
       /\ executions[a].process => executions'[a].process]_vars

(* docs/workflow.md: "Once safe, recovery marks the old execution ABANDONED". *)
(* Recovery is the step that interrupts a running Attempt of a Goal that is   *)
(* not cancelled.                                                             *)
AbandonedOnceSafe ==
  [][\A a \in Attempts :
       /\ attempts[a] = "RUNNING" /\ attempts'[a] = "INTERRUPTED" /\ run' = "BLOCKED"
       /\ executions[a].process /\ executions'[a].state = "ABANDONED"
       => processes[a] = "GONE"]_vars
=============================================================================
