----------------------- MODULE ExternalExecutionProofs -----------------------
(* Theorems about ExternalExecution for any number of processes and Attempts. *)
EXTENDS ExternalExecution, TLAPS

USE ExternalAssumption DEF Attempts

-----------------------------------------------------------------------------
(* The inductive invariant *)

(* Attempts begin in order, and only the newest runs, while the Workflow does. *)
Control ==
  /\ \A a, b \in Attempts : a < b /\ Begun(b) => Begun(a)
  /\ \A a \in Attempts : attempts[a] = "RUNNING" <=> Active(a)

(* The version of a record counts the boundaries it crossed. *)
Boundary(x) ==
  /\ x.state = "NONE" => x = NoExecution
  /\ x.state = "AUTHORIZED" => x.version = 1 /\ x.last = None
  /\ x.state = "PROCESS_OBSERVED" => x.version = 2
  /\ x.state = "SESSION_OBSERVED" => x.version = 3
  /\ x.state = "OPERATION_RUNNING" => x.version = 4
  /\ x.state # "NONE" => x.version \in 1..5 /\ x.lastOf < x.version

(* An execution is open only for the newest Attempt, while it runs or after the *)
(* Goal was cancelled; nothing is recorded before the Attempt began.           *)
Opened(a) ==
  /\ ~Begun(a) => executions[a].state = "NONE" /\ maintenance[a] = "NONE"
  /\ executions[a].state \in Open => Newest(a) /\ (attempts[a] = "RUNNING" \/ run = "CANCELLED")

(* A recorded process is gone before another Attempt may begin, and before a    *)
(* result is recorded.                                                         *)
Absent(a) ==
  /\ executions[a].process /\ (run = "READY" \/ ~Newest(a)) => processes[a] = "GONE"
  /\ executions[a].result => processes[a] = "GONE"

(* Nothing runs to its end before the maintenance it had to wait for. *)
Maintained(a) ==
  /\ manual /\ executions[a].state \in {"OPERATION_RUNNING", "COMPLETED"} =>
       maintenance[a] = "OBSERVED"
  /\ attempts[a] = "RESULT_RECORDED" => executions[a].state = "COMPLETED"

Row(a) ==
  /\ Boundary(executions[a]) /\ ExecutionClosure(a) /\ MaintenanceClosure(a)
  /\ Opened(a) /\ Absent(a) /\ Maintained(a)

Early == {"AUTHORIZED", "PROCESS_OBSERVED", "SESSION_OBSERVED"}
Claimed == {"AUTHORIZE", "INVOKE", "RUN", "MAINTAIN", "ADMIT", "SETTLE", "ABANDON", "PORT", "RESULT"}
Driving == {"PREPARE", "DONE"} \union Claimed

(* Whose Attempt a session has in its hands. *)
Placed(s) ==
  /\ s.step # "IDLE" => s.attempt \in Attempts /\ Begun(s.attempt)
  /\ s.aborted => run = "CANCELLED"

(* A recovery that may still commit sees the rows as they are. *)
Fresh(s) ==
  /\ s.fresh => s.step \in {"RECOVER", "RESUME"} /\ Newest(s.attempt)
  /\ s.fresh /\ s.step = "RECOVER" => run = "RUNNING"
  /\ s.fresh /\ s.step = "RESUME" =>
       run = "BLOCKED" /\ (s.safe /\ executions[s.attempt].process => processes[s.attempt] = "GONE")

(* What its driver knows of a record is what it says, unless it was abandoned. *)
Knows(s) ==
  /\ s.step = "PREPARE" => executions[s.attempt].state = "NONE" /\ s.known = "NONE" /\ ~s.failed
  /\ s.step \in Claimed => s.known # "NONE" /\ executions[s.attempt].state \in {s.known, "ABANDONED"}
  /\ s.step \in {"AUTHORIZE", "INVOKE"} => s.known = "AUTHORIZED" /\ ~s.failed
  /\ s.step = "AUTHORIZE" => manual
  /\ s.step = "PORT" => executions[s.attempt].state \notin Open
  /\ s.step = "RESULT" => s.known \in Closed
  /\ s.known = "INTERRUPTED" => s.aborted

(* It waits for its maintenance until the operation runs. *)
Waits(s) ==
  /\ manual /\ s.step \in {"INVOKE", "RUN"} /\ ~s.failed /\ s.known \in Early => s.maint = "AUTHORIZED"
  /\ manual /\ s.step = "ADMIT" /\ s.event # None /\ s.event.state \in Early => s.maint = "AUTHORIZED"

(* The observation it is about to admit. *)
Reports(s) ==
  s.step \in {"MAINTAIN", "ADMIT"} =>
    /\ ~s.failed /\ s.event \in Observation /\ ObservationValid(s.event)
    /\ s.event.state \in Follows(s.known)
    /\ s.event.state \in {"PROCESS_OBSERVED", "SESSION_OBSERVED"} => s.step = "ADMIT"
    /\ s.event.result => processes[s.attempt] = "GONE"
    /\ s.event.state = "INTERRUPTED" => s.aborted
    /\ manual /\ s.event.state = "OPERATION_RUNNING" => s.event.compactions = 1

(* When it is done nothing is left, unless its control plane failed it. *)
Over(s) ==
  s.step = "DONE" /\ ~s.control =>
    /\ attempts[s.attempt] # "RUNNING" /\ executions[s.attempt].state \notin Open
    /\ maintenance[s.attempt] # "AUTHORIZED"

Good(s) == Placed(s) /\ Fresh(s) /\ Knows(s) /\ Waits(s) /\ Reports(s) /\ Over(s)

(* An Attempt is in the hands of the one driver that began it. *)
Exclusive ==
  \A p, q \in Procs : p # q /\ session[p].step \in Driving /\ session[q].step \in Driving
                        => session[p].attempt # session[q].attempt

Inv ==
  /\ TypeOK /\ Control /\ Exclusive
  /\ \A a \in Attempts : Row(a)
  /\ \A p \in Procs : Good(session[p])

-----------------------------------------------------------------------------
(* What every step does to the rows *)

RowTypes ==
  /\ run \in {"READY", "RUNNING", "BLOCKED", "CANCELLED"}
  /\ attempts \in [Attempts -> {"NONE", "RUNNING", "RESULT_RECORDED", "FAILED", "INTERRUPTED"}]
  /\ executions \in [Attempts -> Execution]
  /\ maintenance \in [Attempts -> Intent]
  /\ processes \in [Attempts -> {"NONE", "ALIVE", "GONE"}]
  /\ manual \in BOOLEAN

RowsInv == RowTypes /\ Control /\ \A a \in Attempts : Row(a)

(* What no step takes back. *)
Stable ==
  /\ \A a \in Attempts :
       /\ Begun(a) => Begun(a)'
       /\ Begun(a) /\ attempts[a] # "RUNNING" => attempts'[a] = attempts[a]
       /\ processes[a] = "GONE" => processes'[a] = "GONE"
  /\ run = "CANCELLED" => run' = "CANCELLED"
  /\ manual' = manual

(* What a step of somebody else may do to the record of a driver. *)
Untouched(a) ==
  /\ \/ executions'[a] = executions[a]
     \/ executions[a].state \in Open /\ executions'[a].state = "ABANDONED"
  /\ maintenance'[a] = maintenance[a] \/ maintenance'[a] # "AUTHORIZED"

(* A session is good as long as nothing it relies on was written. *)
LEMMA GoodStable ==
  ASSUME NEW s \in Session, Good(s), Stable,
         s.fresh => UNCHANGED <<run, attempts, executions>>,
         s.step \in Driving => Untouched(s.attempt)
  PROVE  Good(s)'
<1>1. Placed(s)'
  BY DEF Good, Stable, Placed, Begun
<1>2. Fresh(s)'
  BY DEF Good, Stable, Placed, Fresh, Newest, Begun
<1>3. Knows(s)'
  BY DEF Good, Stable, Placed, Knows, Driving, Claimed, Untouched, Open
<1>4. Waits(s)'
  BY DEF Good, Stable, Waits
<1>5. Reports(s)'
  BY DEF Good, Stable, Placed, Reports, ObservationValid, Follows
<1>6. Over(s)'
  BY DEF Good, Stable, Placed, Over, Driving, Claimed, Untouched, Open
<1> QED BY <1>1, <1>2, <1>3, <1>4, <1>5, <1>6 DEF Good

LEMMA Unfresh ==
  ASSUME NEW s \in Session, Good(s)
  PROVE  /\ [s EXCEPT !.fresh = FALSE] \in Session
         /\ Good([s EXCEPT !.fresh = FALSE])
<1> DEFINE t == [s EXCEPT !.fresh = FALSE]
<1>1. /\ t \in Session /\ ~t.fresh /\ t.step = s.step /\ t.attempt = s.attempt
      /\ t.known = s.known /\ t.maint = s.maint /\ t.event = s.event /\ t.failed = s.failed
      /\ t.aborted = s.aborted /\ t.control = s.control
  BY DEF Session
<1>2. Placed(t)
  BY <1>1 DEF Good, Placed
<1>3. Fresh(t) /\ Waits(t) /\ Over(t)
  BY <1>1 DEF Good, Fresh, Waits, Over
<1>4. Knows(t) /\ Reports(t)
  BY <1>1 DEF Good, Knows, Reports
<1> QED BY <1>1, <1>2, <1>3, <1>4 DEF Good

LEMMA QuietGood == Quiet \in Session /\ Good(Quiet)
<1>1. Quiet \in Session
  BY DEF Quiet, Session, Intent
<1>2. Quiet.step = "IDLE" /\ ~Quiet.aborted /\ ~Quiet.fresh /\ Quiet.known = "NONE"
  BY DEF Quiet
<1> QED BY <1>1, <1>2 DEF Good, Placed, Fresh, Knows, Waits, Reports, Over, Claimed

LEMMA QuietFields ==
  /\ Quiet.step = "IDLE" /\ Quiet.known = "NONE" /\ Quiet.maint = "NONE"
  /\ ~Quiet.failed /\ ~Quiet.aborted /\ ~Quiet.control /\ ~Quiet.fresh /\ ~Quiet.safe
BY DEF Quiet

(* The step of one process, from the session it leaves behind. *)
LEMMA SessionStep ==
  ASSUME Inv, RowsInv', Stable, NEW p \in Procs, NEW s \in Session, Good(s)',
         session'[p] = s, session' \in [Procs -> Session],
         s.step \in Driving => \/ session[p].step \in Driving /\ s.attempt = session[p].attempt
                               \/ ~Begun(s.attempt),
         \A q \in Procs \ {p} :
           /\ \/ session'[q] = session[q] /\ UNCHANGED <<run, attempts, executions>>
              \/ session'[q] = [session[q] EXCEPT !.fresh = FALSE]
           /\ session[q].step \in Driving => Untouched(session[q].attempt)
  PROVE  Inv'
<1>1. ASSUME NEW q \in Procs PROVE Good(session[q])'
  <2>1. CASE q = p
    <3>1. session'[q] = s
      BY <2>1
    <3> QED BY <3>1 DEF Good, Placed, Fresh, Knows, Waits, Reports, Over, Begun, Newest
  <2>2. CASE q # p
    <3>1. PICK r \in Session : r = session[q]
      BY DEF Inv, TypeOK
    <3>2. Good(r)
      BY <3>1 DEF Inv
    <3>3. PICK t \in Session : t = session'[q] /\ Good(t) /\ t.step = r.step /\ t.attempt = r.attempt
                              /\ (t.fresh => UNCHANGED <<run, attempts, executions>>)
      BY <2>2, <3>1, <3>2, Unfresh DEF Session
    <3>4. t.step \in Driving => Untouched(t.attempt)
      BY <2>2, <3>1, <3>3
    <3>5. Good(t)'
      BY <3>3, <3>4, GoodStable
    <3> QED BY <3>3, <3>5 DEF Good, Placed, Fresh, Knows, Waits, Reports, Over, Begun, Newest
  <2> QED BY <2>1, <2>2
<1>2. Exclusive'
  <2> SUFFICES ASSUME NEW q \in Procs, NEW r \in Procs, q # r,
                      session'[q].step \in Driving, session'[r].step \in Driving
               PROVE  session'[q].attempt # session'[r].attempt
    BY DEF Exclusive
  <2>1. \A i \in Procs \ {p} :
          session'[i].step = session[i].step /\ session'[i].attempt = session[i].attempt
    BY DEF Inv, TypeOK, Session
  <2>2. \A i \in Procs : session[i].step \in Driving => Begun(session[i].attempt)
    BY DEF Inv, Good, Placed, Driving, Claimed
  <2> QED BY <2>1, <2>2 DEF Inv, Exclusive
<1>3. TypeOK'
  BY DEF RowsInv, RowTypes, TypeOK
<1> QED BY <1>1, <1>2, <1>3 DEF Inv, RowsInv

(* No row is written: only processes may have ended or started. *)
LEMMA RowsKept ==
  ASSUME Inv, UNCHANGED <<Rows, manual>>,
         processes' \in [Attempts -> {"NONE", "ALIVE", "GONE"}],
         \A a \in Attempts : processes[a] = "GONE" => processes'[a] = "GONE"
  PROVE  RowsInv' /\ Stable /\ \A a \in Attempts : Untouched(a)
<1> USE DEF Rows
<1>1. RowTypes'
  BY DEF Inv, TypeOK, RowTypes
<1>2. Control'
  BY DEF Inv, Control, Begun, Active, Newest
<1>3. ASSUME NEW a \in Attempts PROVE Row(a)'
  <2>1. Row(a)
    BY DEF Inv
  <2>2. Boundary(executions[a])' /\ ExecutionClosure(a)' /\ MaintenanceClosure(a)'
    BY <2>1 DEF Row, Boundary, ExecutionClosure, RecordValid, ObservationValid, MaintenanceClosure
  <2>3. Opened(a)' /\ Absent(a)' /\ Maintained(a)'
    BY <2>1 DEF Row, Opened, Absent, Maintained, Begun, Newest
  <2> QED BY <2>2, <2>3 DEF Row
<1>4. Stable /\ \A a \in Attempts : Untouched(a)
  BY DEF Stable, Untouched, Begun
<1> QED BY <1>1, <1>2, <1>3, <1>4 DEF RowsInv

LEMMA SessionOnly ==
  ASSUME Inv, UNCHANGED <<Rows, processes, manual>>, NEW p \in Procs, NEW s \in Session,
         Become(p, s), Good(s),
         s.step \in Driving => session[p].step \in Driving /\ s.attempt = session[p].attempt
  PROVE  Inv'
<1>1. RowsInv' /\ Stable /\ \A a \in Attempts : Untouched(a)
  BY RowsKept DEF Inv, TypeOK
<1>2. \A t \in Session : t.step \in Driving /\ Good(t) => t.attempt \in Attempts
  BY DEF Good, Placed, Driving, Claimed
<1>3. Good(s)'
  BY <1>1, <1>2, GoodStable DEF Rows
<1>4. session' \in [Procs -> Session] /\ session'[p] = s
      /\ \A q \in Procs \ {p} : session'[q] = session[q]
  BY DEF Become, Inv, TypeOK
<1>5. \A q \in Procs : session[q].step \in Driving => Untouched(session[q].attempt)
  BY <1>1, <1>2 DEF Inv, TypeOK
<1> QED BY <1>1, <1>3, <1>4, <1>5, SessionStep DEF Rows

(* A write to the record of its own Attempt, or one that leaves drivers alone. *)
LEMMA WrittenStep ==
  ASSUME Inv, RowsInv', Stable, NEW p \in Procs, NEW s \in Session, Written(p, s), Good(s)',
         s.step \in Driving => \/ session[p].step \in Driving /\ s.attempt = session[p].attempt
                               \/ ~Begun(s.attempt),
         \A a \in Attempts :
           Untouched(a) \/ (session[p].step \in Driving /\ a = session[p].attempt)
  PROVE  Inv'
<1>1. \A q \in Procs : session[q] \in Session /\ Good(session[q])
  BY DEF Inv, TypeOK
<1>2. session' \in [Procs -> Session]
  BY <1>1, Unfresh DEF Written
<1>3. session'[p] = s /\ \A q \in Procs \ {p} : session'[q] = [session[q] EXCEPT !.fresh = FALSE]
  BY DEF Written
<1>4. ASSUME NEW q \in Procs \ {p}, session[q].step \in Driving PROVE Untouched(session[q].attempt)
  <2>1. session[q].attempt \in Attempts
    BY <1>1, <1>4 DEF Good, Placed, Driving, Claimed
  <2>2. ~(session[p].step \in Driving /\ session[q].attempt = session[p].attempt)
    BY <1>4 DEF Inv, Exclusive
  <2> QED BY <2>1, <2>2
<1> QED BY <1>2, <1>3, <1>4, SessionStep

(* Which boundary may follow which. *)
LEMMA FollowsEdges ==
  ASSUME NEW known, NEW state \in Follows(known)
  PROVE  /\ known \in Open /\ state \in Observed
         /\ state = "PROCESS_OBSERVED" => known = "AUTHORIZED"
         /\ state = "SESSION_OBSERVED" => known = "PROCESS_OBSERVED"
         /\ state = "OPERATION_RUNNING" => known = "SESSION_OBSERVED"
         /\ state = "COMPLETED" => known = "OPERATION_RUNNING"
<1> QED BY DEF Follows, Open, Observed, Closed

-----------------------------------------------------------------------------
(* Steps that write no row *)

LEMMA GoodSession ==
  ASSUME Inv, NEW p \in Procs
  PROVE  session[p] \in Session /\ Good(session[p])
         /\ (session[p].step # "IDLE" => Mine(p) \in Attempts)
BY DEF Inv, TypeOK, Good, Placed, Mine

LEMMA CreateWorkerInv == ASSUME Inv, NEW p \in Procs, CreateWorker(p) PROVE Inv'
<1> DEFINE s == session'[p]
<1>1. session[p] \in Session /\ Good(session[p]) /\ session[p].step = "INVOKE"
  BY GoodSession DEF CreateWorker
<1>2. PICK step \in {"RUN", "SETTLE"} : Goto(p, step)
  BY DEF CreateWorker
<1>3. PICK t \in Session : t = [session[p] EXCEPT !.step = step]
  BY <1>1 DEF Session
<1>4. Become(p, t)
  BY <1>2, <1>3 DEF Goto, Become
<1>5. Placed(t) /\ Fresh(t) /\ Knows(t)
  BY <1>1, <1>3 DEF Good, Placed, Fresh, Knows, Claimed, Session
<1>6. Waits(t) /\ Reports(t) /\ Over(t)
  BY <1>1, <1>3 DEF Good, Waits, Reports, Over, Session
<1> QED BY <1>1, <1>3, <1>4, <1>5, <1>6, SessionOnly DEF CreateWorker, Good, Driving, Claimed, Session

LEMMA BadReportInv == ASSUME Inv, NEW p \in Procs, BadReport(p) PROVE Inv'
<1>1. session[p] \in Session /\ Good(session[p]) /\ session[p].step = "RUN"
  BY GoodSession DEF BadReport
<1>2. PICK t \in Session : t = [session[p] EXCEPT !.failed = TRUE]
  BY <1>1 DEF Session
<1>3. Placed(t) /\ Fresh(t) /\ Knows(t)
  BY <1>1, <1>2 DEF Good, Placed, Fresh, Knows, Claimed, Session
<1>4. Waits(t) /\ Reports(t) /\ Over(t)
  BY <1>1, <1>2 DEF Good, Waits, Reports, Over, Session
<1> QED BY <1>1, <1>2, <1>3, <1>4, SessionOnly DEF BadReport, Good, Driving, Claimed, Session

LEMMA ReportInv == ASSUME Inv, NEW p \in Procs, NEW o \in Observation, Report(p, o) PROVE Inv'
<1>1. session[p] \in Session /\ Good(session[p]) /\ session[p].step = "RUN" /\ ~session[p].failed
  BY GoodSession DEF Report
<1> DEFINE maintains == session[p].maint = "AUTHORIZED" /\ o.state \in Closed \union {"OPERATION_RUNNING"}
           step == IF maintains THEN "MAINTAIN" ELSE "ADMIT"
           t == [session[p] EXCEPT !.event = o, !.step = step]
<1>2. t \in Session /\ Become(p, t) /\ t.step = step
  BY <1>1 DEF Report, Session
<1>3. /\ t.event = o /\ t.attempt = Mine(p) /\ t.known = session[p].known /\ ~t.failed
      /\ t.maint = session[p].maint /\ t.aborted = session[p].aborted /\ t.fresh = session[p].fresh
  BY <1>1, <1>2 DEF Session, Mine
<1>4. o.state \in Follows(t.known) /\ t.known \in Open /\ o.state # "AUTHORIZED"
      /\ (o.state \in Early \union {"OPERATION_RUNNING"} => t.known \in Early)
  BY <1>3, FollowsEdges DEF Report, Early, Observed, Open, Closed
<1> HIDE DEF t
<1>5. Placed(t) /\ Fresh(t) /\ Knows(t) /\ Over(t)
  BY <1>1, <1>2, <1>3 DEF Good, Placed, Fresh, Knows, Over, Claimed, Mine
<1>6. Waits(t)
  BY <1>1, <1>2, <1>3, <1>4 DEF Good, Waits, Closed, Early
<1>7. Reports(t)
  <2>1. ObservationValid(o) /\ (o.result => processes[Mine(p)] = "GONE")
        /\ (o.state = "INTERRUPTED" => t.aborted)
    BY <1>3 DEF Report, Yields, ObservationValid
  <2>2. manual /\ o.state = "OPERATION_RUNNING" => o.compactions = 1
    <3>1. manual /\ o.state = "OPERATION_RUNNING" => session[p].maint = "AUTHORIZED"
      BY <1>1, <1>3, <1>4 DEF Good, Waits
    <3> QED BY <3>1 DEF Report
  <2> QED BY <1>2, <1>3, <1>4, <2>1, <2>2 DEF Reports, Closed
<1> QED BY <1>1, <1>2, <1>3, <1>5, <1>6, <1>7, SessionOnly DEF Report, Good, Driving, Claimed, Mine

LEMMA EndStreamInv == ASSUME Inv, NEW p \in Procs, EndStream(p) PROVE Inv'
<1>1. session[p] \in Session /\ Good(session[p]) /\ session[p].step = "RUN"
  BY GoodSession DEF EndStream
<1>2. PICK step \in {"SETTLE", "DONE", "RESULT"} :
        /\ Goto(p, step)
        /\ step # "SETTLE" => session[p].known \in Closed
        /\ step = "DONE" => session[p].aborted \/ session[p].known = "INTERRUPTED"
  BY DEF EndStream
<1>3. PICK t \in Session : t = [session[p] EXCEPT !.step = step]
  BY <1>1 DEF Session
<1>4. /\ t.step = step /\ t.attempt = session[p].attempt /\ t.known = session[p].known
      /\ t.aborted = session[p].aborted /\ t.fresh = session[p].fresh
  BY <1>1, <1>3 DEF Session
<1>5. Placed(t) /\ Fresh(t) /\ Knows(t) /\ Waits(t) /\ Reports(t)
  BY <1>1, <1>2, <1>4 DEF Good, Placed, Fresh, Knows, Waits, Reports, Claimed
<1>6. Over(t)
  <2> SUFFICES ASSUME step = "DONE" PROVE Over(t)
    BY <1>4 DEF Over
  <2> DEFINE a == session[p].attempt
  <2>1. a \in Attempts /\ run = "CANCELLED"
    BY <1>1, <1>2 DEF Good, Placed, Knows
  <2>2. attempts[a] # "RUNNING"
    BY <2>1 DEF Inv, Control, Active
  <2>3. executions[a].state \notin Open /\ executions[a].state # "NONE"
    BY <1>1, <1>2 DEF Good, Knows, Claimed, Closed, Open
  <2>4. maintenance[a] # "AUTHORIZED"
    BY <2>1, <2>3 DEF Inv, Row, MaintenanceClosure
  <2> QED BY <1>4, <2>2, <2>3, <2>4 DEF Over
<1>7. Become(p, t)
  BY <1>2, <1>3 DEF Goto, Become
<1> QED BY <1>1, <1>4, <1>5, <1>6, <1>7, SessionOnly DEF EndStream, Good, Driving, Claimed

LEMMA StoreFailsInv == ASSUME Inv, NEW p \in Procs, StoreFails(p) PROVE Inv'
<1>1. session[p] \in Session /\ Good(session[p])
  BY GoodSession
<1>2. CASE session[p].step = "AUTHORIZE" /\ Goto(p, "ABANDON")
  <2>1. PICK t \in Session : t = [session[p] EXCEPT !.step = "ABANDON"]
    BY <1>1 DEF Session
  <2>2. Placed(t) /\ Fresh(t) /\ Knows(t)
    BY <1>1, <1>2, <2>1 DEF Good, Placed, Fresh, Knows, Claimed, Session
  <2>3. Waits(t) /\ Reports(t) /\ Over(t) /\ Become(p, t)
    BY <1>1, <1>2, <2>1 DEF Waits, Reports, Over, Session, Goto, Become
  <2> QED BY <1>1, <1>2, <2>1, <2>2, <2>3, SessionOnly DEF StoreFails, Good, Driving, Claimed, Session
<1>3. CASE /\ session[p].step \in {"MAINTAIN", "ADMIT"}
           /\ Become(p, [session[p] EXCEPT !.step = "RUN", !.event = None, !.failed = TRUE])
  <2>1. PICK t \in Session : t = [session[p] EXCEPT !.step = "RUN", !.event = None, !.failed = TRUE]
    BY <1>1 DEF Session
  <2>2. Placed(t) /\ Fresh(t) /\ Knows(t)
    BY <1>1, <1>3, <2>1 DEF Good, Placed, Fresh, Knows, Claimed, Session
  <2>3. Waits(t) /\ Reports(t) /\ Over(t) /\ Become(p, t)
    BY <1>1, <1>3, <2>1 DEF Waits, Reports, Over, Session
  <2> QED BY <1>1, <1>3, <2>1, <2>2, <2>3, SessionOnly DEF StoreFails, Good, Driving, Claimed, Session
<1>4. CASE /\ session[p].step \in {"PREPARE", "SETTLE", "ABANDON", "PORT", "RESULT"}
           /\ Become(p, [session[p] EXCEPT !.step = "DONE", !.control = TRUE])
  <2>1. PICK t \in Session : t = [session[p] EXCEPT !.step = "DONE", !.control = TRUE]
    BY <1>1 DEF Session
  <2>2. Placed(t) /\ Fresh(t) /\ Knows(t)
    BY <1>1, <1>4, <2>1 DEF Good, Placed, Fresh, Knows, Claimed, Session
  <2>3. Waits(t) /\ Reports(t) /\ Over(t) /\ Become(p, t)
    BY <1>1, <1>4, <2>1 DEF Waits, Reports, Over, Session
  <2> QED BY <1>1, <1>4, <2>1, <2>2, <2>3, SessionOnly DEF StoreFails, Good, Driving, Claimed, Session
<1> QED BY <1>2, <1>3, <1>4 DEF StoreFails

LEMMA ProcessExitsInv == ASSUME Inv, NEW a \in Attempts, ProcessExits(a) PROVE Inv'
<1>1. RowsInv' /\ Stable /\ \A b \in Attempts : Untouched(b)
  BY RowsKept DEF Inv, TypeOK, ProcessExits
<1>2. ASSUME NEW p \in Procs PROVE Good(session[p])'
  <2>1. PICK t \in Session : t = session[p] /\ Good(t) /\ (t.step # "IDLE" => t.attempt \in Attempts)
    BY GoodSession DEF Mine
  <2>2. Good(t)'
    BY <1>1, <2>1, GoodStable DEF Driving, Claimed, ProcessExits, Rows
  <2>3. session'[p] = t
    BY <2>1 DEF ProcessExits
  <2> QED BY <2>2, <2>3 DEF Good, Placed, Fresh, Knows, Waits, Reports, Over, Begun, Newest
<1> QED BY <1>1, <1>2 DEF Inv, RowsInv, RowTypes, TypeOK, Exclusive, ProcessExits

LEMMA LaunchInv == ASSUME Inv, NEW p \in Procs, Launch(p) PROVE Inv'
<1>1. RowsInv' /\ Stable /\ \A b \in Attempts : Untouched(b)
  BY RowsKept, GoodSession DEF Inv, TypeOK, Launch
<1>2. ASSUME NEW q \in Procs PROVE Good(session[q])'
  <2>1. PICK t \in Session : t = session[q] /\ Good(t) /\ (t.step # "IDLE" => t.attempt \in Attempts)
    BY GoodSession DEF Mine
  <2>2. Good(t)'
    BY <1>1, <2>1, GoodStable DEF Driving, Claimed, Launch, Rows
  <2>3. session'[q] = t
    BY <2>1 DEF Launch
  <2> QED BY <2>2, <2>3 DEF Good, Placed, Fresh, Knows, Waits, Reports, Over, Begun, Newest
<1> QED BY <1>1, <1>2 DEF Inv, RowsInv, RowTypes, TypeOK, Exclusive, Launch

LEMMA CrashInv == ASSUME Inv, NEW p \in Procs, Crash(p) PROVE Inv'
<1>1. Quiet.step = "IDLE"
  BY DEF Quiet
<1> QED BY <1>1, QuietGood, SessionOnly DEF Crash, Driving, Claimed

(* A recovery or a resume reads the catalog, and looks for the process. *)
LEMMA ReadingInv ==
  ASSUME Inv, UNCHANGED <<Rows, manual>>, NEW p \in Procs, NEW a \in Attempts, NEW safe \in BOOLEAN,
         Newest(a), Reconcile(a, safe), NEW s \in Session, Become(p, s),
         s.step \in {"RECOVER", "RESUME"}, s.attempt = a, ~s.aborted, s.known = "NONE",
         s.step = "RECOVER" => run = "RUNNING",
         s.step = "RESUME" => run = "BLOCKED" /\ (s.safe => safe)
  PROVE  Inv'
<1>1. /\ processes' \in [Attempts -> {"NONE", "ALIVE", "GONE"}]
      /\ \A b \in Attempts : processes[b] = "GONE" => processes'[b] = "GONE"
      /\ safe /\ executions[a].process => processes'[a] = "GONE"
  BY DEF Inv, TypeOK, Reconcile
<1>2. RowsInv' /\ Stable /\ \A b \in Attempts : Untouched(b)
  BY <1>1, RowsKept
<1>3. Good(s)'
  <2>1. Placed(s)' /\ Knows(s)' /\ Waits(s)' /\ Reports(s)' /\ Over(s)'
    BY DEF Placed, Knows, Waits, Reports, Over, Claimed, Newest, Begun, Rows
  <2>2. Fresh(s)'
    BY <1>1 DEF Fresh, Newest, Begun, Rows
  <2> QED BY <2>1, <2>2 DEF Good
<1>4. session' \in [Procs -> Session] /\ session'[p] = s
      /\ \A q \in Procs \ {p} : session'[q] = session[q]
  BY DEF Become, Inv, TypeOK
<1>5. \A q \in Procs : session[q].step \in Driving => Untouched(session[q].attempt)
  BY <1>2, GoodSession DEF Mine, Driving, Claimed
<1> QED BY <1>2, <1>3, <1>4, <1>5, SessionStep DEF Rows, Driving, Claimed

LEMMA BeginRecoveryInv == ASSUME Inv, NEW p \in Procs, BeginRecovery(p) PROVE Inv'
<1>1. PICK a \in Attempts, safe \in BOOLEAN :
        /\ Newest(a) /\ Reconcile(a, safe)
        /\ Become(p, [Quiet EXCEPT !.step = "RECOVER", !.attempt = a, !.fresh = TRUE])
  BY DEF BeginRecovery
<1> DEFINE s == [Quiet EXCEPT !.step = "RECOVER", !.attempt = a, !.fresh = TRUE]
<1>2. s \in Session /\ s.step = "RECOVER" /\ s.attempt = a /\ ~s.aborted /\ s.known = "NONE"
  <2>1. a \in 0..MaxAttempts
    OBVIOUS
  <2> QED BY <2>1, QuietGood, QuietFields DEF Session
<1> HIDE DEF s
<1> QED BY <1>1, <1>2, ReadingInv DEF BeginRecovery, s

LEMMA BeginResumeInv == ASSUME Inv, NEW p \in Procs, BeginResume(p) PROVE Inv'
<1>1. PICK a \in Attempts, safe \in BOOLEAN, exact \in BOOLEAN :
        /\ Newest(a) /\ Reconcile(a, safe)
        /\ Become(p, [Quiet EXCEPT !.step = "RESUME", !.attempt = a, !.fresh = TRUE,
                                   !.safe = safe /\ exact])
  BY DEF BeginResume
<1> DEFINE s == [Quiet EXCEPT !.step = "RESUME", !.attempt = a, !.fresh = TRUE, !.safe = safe /\ exact]
<1>2. s \in Session /\ s.step = "RESUME" /\ s.attempt = a /\ ~s.aborted /\ s.known = "NONE"
      /\ (s.safe => safe)
  <2>1. a \in 0..MaxAttempts
    OBVIOUS
  <2> QED BY <2>1, QuietGood, QuietFields DEF Session
<1> HIDE DEF s
<1> QED BY <1>1, <1>2, ReadingInv DEF BeginResume, s

-----------------------------------------------------------------------------
(* Steps that end the active Attempt *)

LEMMA OneNewest == ASSUME NEW a \in Attempts, NEW b \in Attempts, Newest(a), Newest(b) PROVE a = b
BY DEF Newest

LEMMA EndedRows ==
  ASSUME Inv, NEW a \in Attempts, Active(a),
         NEW status \in {"RESULT_RECORDED", "FAILED", "INTERRUPTED"}, NEW to \in {"READY", "BLOCKED"},
         EndAttempt(a, status, to), UNCHANGED <<processes, manual>>,
         executions' \in [Attempts -> Execution], maintenance' \in [Attempts -> Intent],
         \A b \in Attempts \ {a} : executions'[b] = executions[b] /\ maintenance'[b] = maintenance[b],
         Boundary(executions'[a]), ExecutionClosure(a)', MaintenanceClosure(a)',
         executions'[a].state \notin Open,
         executions'[a].result \/ (executions'[a].process /\ to = "READY") => processes[a] = "GONE",
         manual /\ executions'[a].state = "COMPLETED" => maintenance'[a] = "OBSERVED",
         status = "RESULT_RECORDED" => executions'[a].state = "COMPLETED"
  PROVE  RowsInv' /\ Stable
<1>1. /\ attempts' \in [Attempts -> {"NONE", "RUNNING", "RESULT_RECORDED", "FAILED", "INTERRUPTED"}]
      /\ attempts'[a] = status /\ \A b \in Attempts \ {a} : attempts'[b] = attempts[b]
      /\ run' = to /\ attempts[a] = "RUNNING"
  BY DEF Inv, TypeOK, EndAttempt, Control
<1>2. \A b \in Attempts : /\ Begun(b)' <=> Begun(b)
                         /\ Newest(b)' <=> Newest(b)
  BY <1>1 DEF Begun, Newest
<1>3. Control'
  <2>1. run' # "RUNNING"
    BY <1>1
  <2>2. \A b, c \in Attempts : b < c /\ Begun(c)' => Begun(b)'
    BY <1>1 DEF Inv, Control, Begun
  <2>3. \A b \in Attempts : attempts'[b] # "RUNNING"
    BY <1>1, OneNewest DEF Inv, Control, Active
  <2> QED BY <2>1, <2>2, <2>3 DEF Control, Active, Begun
<1>4. ASSUME NEW b \in Attempts PROVE Row(b)'
  <2>1. CASE b = a
    <3>1. Opened(a)' /\ Absent(a)' /\ Maintained(a)'
      BY <1>1, <1>2 DEF Opened, Absent, Maintained, Begun, Active, Newest, Open
    <3> QED BY <2>1, <3>1 DEF Row, Boundary
  <2>2. CASE b # a
    <3>1. Row(b) /\ executions'[b] = executions[b] /\ maintenance'[b] = maintenance[b]
          /\ attempts'[b] = attempts[b] /\ processes'[b] = processes[b] /\ manual' = manual
      BY <1>1, <2>2 DEF Inv
    <3>2. ~Newest(b) /\ attempts[b] # "RUNNING" /\ (run # "CANCELLED")
      BY <2>2, OneNewest DEF Active, Inv, Control
    <3>3. Boundary(executions[b])' /\ ExecutionClosure(b)' /\ MaintenanceClosure(b)'
      BY <3>1 DEF Row, Boundary, ExecutionClosure, RecordValid, ObservationValid, MaintenanceClosure
    <3>4. Opened(b)'
      BY <1>2, <3>1, <3>2 DEF Row, Opened, Begun
    <3>5. Absent(b)' /\ Maintained(b)'
      BY <1>2, <3>1, <3>2 DEF Row, Absent, Maintained
    <3> QED BY <3>3, <3>4, <3>5 DEF Row
  <2> QED BY <2>1, <2>2
<1>5. RowTypes'
  BY <1>1 DEF RowTypes, Inv, TypeOK
<1>6. Stable
  <2>1. run # "CANCELLED"
    BY DEF Active
  <2> QED BY <1>1, <1>2, <2>1 DEF Stable, Begun
<1> QED BY <1>3, <1>4, <1>5, <1>6 DEF RowsInv

LEMMA FailAttemptInv ==
  ASSUME Inv, NEW p \in Procs, session[p].step \in {"PREPARE", "PORT"},
         FailAttempt(p, [session[p] EXCEPT !.step = "DONE"]),
         UNCHANGED <<executions, maintenance, processes, manual>>
  PROVE  Inv'
<1>0. PICK a \in Attempts : a = Mine(p)
  BY GoodSession
<1>1. session[p] \in Session /\ Good(session[p]) /\ a = session[p].attempt
  BY <1>0, GoodSession DEF Mine
<1>2. executions[a].state \notin Open /\ maintenance[a] # "AUTHORIZED"
  <2>1. executions[a].state \notin Open
    BY <1>1 DEF Good, Knows, Mine, Open
  <2> QED BY <1>1, <2>1 DEF Inv, Row, MaintenanceClosure, Opened
<1>3. PICK t \in Session : t = [session[p] EXCEPT !.step = "DONE"]
  BY <1>1 DEF Session
<1>4. t.step = "DONE" /\ t.attempt = a /\ t.known = session[p].known /\ ~t.fresh
      /\ t.aborted = session[p].aborted
  BY <1>1, <1>3 DEF Session, Mine, Good, Fresh
<1>5. CASE attempts[a] = "RUNNING"
  <2>1. EndAttempt(a, "FAILED", "BLOCKED") /\ Written(p, t) /\ Active(a) /\ Row(a)
    BY <1>0, <1>3, <1>5 DEF FailAttempt, Inv, Control
  <2>2. RowsInv' /\ Stable
    <3>1. ExecutionClosure(a)' /\ MaintenanceClosure(a)'
      BY <2>1 DEF Row, ExecutionClosure, RecordValid, ObservationValid, MaintenanceClosure
    <3> QED BY <1>1, <1>2, <2>1, <3>1, EndedRows DEF Inv, TypeOK, Row, Absent, Maintained
  <2>3. Good(t)'
    <3>1. attempts'[a] # "RUNNING" /\ Begun(a)'
      BY <1>1, <2>1 DEF EndAttempt, Begun, Inv, TypeOK
    <3>2. ~t.aborted
      BY <1>1, <1>4, <2>1 DEF Good, Placed, Active
    <3>3. t.known # "INTERRUPTED"
      BY <1>1, <1>4, <3>2 DEF Good, Knows
    <3>4. Placed(t)' /\ Fresh(t)' /\ Knows(t)'
      BY <1>1, <1>4, <3>1, <3>2, <3>3 DEF Placed, Fresh, Knows, Claimed
    <3>5. Waits(t)' /\ Reports(t)' /\ Over(t)'
      BY <1>2, <1>4, <3>1 DEF Waits, Reports, Over
    <3> QED BY <3>4, <3>5 DEF Good
  <2>4. \A b \in Attempts : Untouched(b)
    BY DEF Untouched
  <2> QED BY <1>1, <1>4, <2>1, <2>2, <2>3, <2>4, WrittenStep DEF Mine, Driving, Claimed
<1>6. CASE attempts[a] # "RUNNING"
  <2>1. UNCHANGED <<attempts, run>> /\ Become(p, t)
    BY <1>0, <1>3, <1>6 DEF FailAttempt
  <2>2. Placed(t) /\ Fresh(t) /\ Knows(t) /\ Waits(t) /\ Reports(t)
    BY <1>1, <1>4 DEF Good, Placed, Fresh, Knows, Waits, Reports, Claimed, Mine
  <2>3. Over(t)
    BY <1>2, <1>4, <1>6 DEF Over
  <2> QED BY <1>1, <1>4, <2>1, <2>2, <2>3, SessionOnly DEF Rows, Good, Mine, Driving, Claimed
<1> QED BY <1>5, <1>6

LEMMA DispatchFailsInv == ASSUME Inv, NEW p \in Procs, DispatchFails(p) PROVE Inv'
BY FailAttemptInv DEF DispatchFails

LEMMA ReportFailureInv == ASSUME Inv, NEW p \in Procs, ReportFailure(p) PROVE Inv'
BY FailAttemptInv DEF ReportFailure

-----------------------------------------------------------------------------
(* Steps that write a record *)

LEMMA RecordRows ==
  ASSUME Inv, NEW a \in Attempts, UNCHANGED <<run, attempts, processes, manual>>,
         executions' \in [Attempts -> Execution], maintenance' \in [Attempts -> Intent],
         \A b \in Attempts \ {a} : executions'[b] = executions[b] /\ maintenance'[b] = maintenance[b],
         Row(a)'
  PROVE  RowsInv' /\ Stable /\ \A b \in Attempts \ {a} : Untouched(b)
<1>1. Control'
  BY DEF Inv, Control, Begun, Active, Newest
<1>2. ASSUME NEW b \in Attempts PROVE Row(b)'
  <2> SUFFICES ASSUME b # a PROVE Row(b)'
    OBVIOUS
  <2>1. Row(b) /\ executions'[b] = executions[b] /\ maintenance'[b] = maintenance[b]
    BY DEF Inv
  <2>2. Boundary(executions[b])' /\ ExecutionClosure(b)' /\ MaintenanceClosure(b)'
    BY <2>1 DEF Row, Boundary, ExecutionClosure, RecordValid, ObservationValid, MaintenanceClosure
  <2>3. Opened(b)' /\ Absent(b)' /\ Maintained(b)'
    BY <2>1 DEF Row, Opened, Absent, Maintained, Begun, Newest
  <2> QED BY <2>2, <2>3 DEF Row
<1>3. RowTypes'
  BY DEF RowTypes, Inv, TypeOK
<1>4. Stable /\ \A b \in Attempts \ {a} : Untouched(b)
  BY DEF Stable, Untouched, Begun
<1> QED BY <1>1, <1>2, <1>3, <1>4 DEF RowsInv

LEMMA AuthorizedFields ==
  /\ Authorized \in Execution /\ Authorized.state = "AUTHORIZED" /\ Authorized.version = 1
  /\ ~Authorized.process /\ ~Authorized.result /\ Authorized.last = None /\ Authorized.lastOf = 0
  /\ Authorized.compactions = 0
  /\ NoExecution \in Execution /\ NoExecution.state = "NONE" /\ NoExecution.lastOf = 0
<1>1. NoExecution \in Execution
  BY DEF NoExecution, Execution
<1>2. NoExecution.state = "NONE" /\ ~NoExecution.process /\ ~NoExecution.result
      /\ NoExecution.last = None /\ NoExecution.lastOf = 0 /\ NoExecution.compactions = 0
  BY DEF NoExecution
<1>3. Authorized \in Execution
  <2>1. \A x \in Execution, state \in Open, version \in 0..6 :
          [x EXCEPT !.state = state, !.version = version] \in Execution
    BY DEF Execution
  <2>2. "AUTHORIZED" \in Open /\ 1 \in 0..6
    BY DEF Open
  <2> QED BY <1>1, <2>1, <2>2 DEF Authorized
<1>4. Authorized.state = "AUTHORIZED" /\ Authorized.version = 1
  BY <1>1 DEF Authorized, Execution
<1>5. ~Authorized.process /\ ~Authorized.result
      /\ Authorized.last = None /\ Authorized.lastOf = 0 /\ Authorized.compactions = 0
  BY <1>1, <1>2 DEF Authorized, Execution
<1> QED BY <1>1, <1>2, <1>3, <1>4, <1>5

LEMMA ClaimInv == ASSUME Inv, NEW p \in Procs, Claim(p) PROVE Inv'
<1>0. PICK a \in Attempts : a = Mine(p)
  BY GoodSession DEF Claim
<1>1. session[p] \in Session /\ Good(session[p]) /\ a = session[p].attempt /\ session[p].step = "PREPARE"
  BY <1>0, GoodSession DEF Mine, Claim
<1>2. Row(a) /\ executions[a] = NoExecution /\ maintenance[a] = "NONE"
  <2>1. Row(a) /\ executions[a].state = "NONE"
    BY <1>1 DEF Inv, Good, Knows
  <2> QED BY <2>1 DEF Row, Boundary, MaintenanceClosure
<1>3. CASE ~session[p].aborted /\ attempts[a] = "RUNNING"
  <2>1. executions' = [executions EXCEPT ![a] = Authorized]
        /\ Written(p, [session[p] EXCEPT !.step = IF manual THEN "AUTHORIZE" ELSE "INVOKE",
                                         !.known = "AUTHORIZED"])
    BY <1>0, <1>2, <1>3 DEF Claim
  <2>2. PICK t \in Session :
          t = [session[p] EXCEPT !.step = IF manual THEN "AUTHORIZE" ELSE "INVOKE", !.known = "AUTHORIZED"]
    BY <1>1 DEF Session, Open
  <2>3. /\ t.step = IF manual THEN "AUTHORIZE" ELSE "INVOKE"
        /\ t.known = "AUTHORIZED" /\ t.attempt = a /\ ~t.failed /\ ~t.aborted /\ ~t.fresh
    BY <1>1, <1>3, <2>2 DEF Session, Good, Knows, Fresh
  <2>4. executions'[a] = Authorized /\ executions' \in [Attempts -> Execution]
        /\ \A b \in Attempts \ {a} : executions'[b] = executions[b]
    BY <2>1, AuthorizedFields DEF Inv, TypeOK
  <2>5. Active(a) /\ Begun(a)
    BY <1>3 DEF Inv, Control, Begun
  <2>6. Row(a)'
    <3>1. Boundary(executions[a])' /\ ExecutionClosure(a)' /\ MaintenanceClosure(a)'
      BY <1>2, <2>4, AuthorizedFields
      DEF Claim, Boundary, ExecutionClosure, RecordValid, MaintenanceClosure, Open
    <3>2. Opened(a)' /\ Absent(a)' /\ Maintained(a)'
      BY <1>2, <1>3, <2>4, <2>5, AuthorizedFields
      DEF Claim, Opened, Absent, Maintained, Begun, Newest, Active
    <3> QED BY <3>1, <3>2 DEF Row
  <2>7. RowsInv' /\ Stable /\ \A b \in Attempts \ {a} : Untouched(b)
    BY <2>4, <2>6, RecordRows DEF Claim, Inv, TypeOK
  <2>8. Good(t)'
    <3>1. Placed(t)' /\ Fresh(t)' /\ Reports(t)' /\ Over(t)'
      BY <2>3, <2>5 DEF Placed, Fresh, Reports, Over, Begun, Claim
    <3>2. Knows(t)' /\ Waits(t)'
      BY <2>3, <2>4, AuthorizedFields DEF Knows, Waits, Claimed, Claim
    <3> QED BY <3>1, <3>2 DEF Good
  <2> QED BY <1>1, <2>1, <2>2, <2>3, <2>7, <2>8, WrittenStep DEF Driving, Claimed
<1>4. CASE ~(~session[p].aborted /\ attempts[a] = "RUNNING")
  <2>1. Goto(p, "DONE") /\ UNCHANGED executions
    BY <1>0, <1>4 DEF Claim
  <2>2. PICK t \in Session : t = [session[p] EXCEPT !.step = "DONE"]
    BY <1>1 DEF Session
  <2>3. t.step = "DONE" /\ t.known = session[p].known /\ t.attempt = a
        /\ t.aborted = session[p].aborted /\ t.fresh = session[p].fresh
    BY <1>1, <2>2 DEF Session
  <2>4. Placed(t) /\ Fresh(t) /\ Knows(t) /\ Waits(t) /\ Reports(t)
    BY <1>1, <2>3 DEF Good, Placed, Fresh, Knows, Waits, Reports, Claimed
  <2>5. attempts[a] # "RUNNING"
    BY <1>1, <1>4 DEF Good, Placed, Inv, Control, Active
  <2>6. Over(t)
    BY <1>2, <2>3, <2>5, AuthorizedFields DEF Over, Open
  <2>7. Become(p, t)
    BY <2>1, <2>2 DEF Goto, Become
  <2> QED BY <1>1, <2>1, <2>3, <2>4, <2>6, <2>7, SessionOnly DEF Claim, Rows, Good, Driving
<1> QED BY <1>3, <1>4

LEMMA AuthorizeMaintenanceInv == ASSUME Inv, NEW p \in Procs, AuthorizeMaintenance(p) PROVE Inv'
<1>0. PICK a \in Attempts : a = Mine(p)
  BY GoodSession DEF AuthorizeMaintenance
<1>1. session[p] \in Session /\ Good(session[p]) /\ a = session[p].attempt /\ session[p].step = "AUTHORIZE"
  BY <1>0, GoodSession DEF Mine, AuthorizeMaintenance
<1>2. /\ manual /\ session[p].known = "AUTHORIZED" /\ ~session[p].failed
      /\ executions[a].state \in {"AUTHORIZED", "ABANDONED"}
  BY <1>1 DEF Good, Knows, Claimed
<1>3. CASE maintenance[a] = "NONE" /\ executions[a].state \in Open
  <2>1. maintenance' = [maintenance EXCEPT ![a] = "AUTHORIZED"]
        /\ Written(p, [session[p] EXCEPT !.step = "INVOKE", !.maint = "AUTHORIZED"])
    BY <1>0, <1>3 DEF AuthorizeMaintenance
  <2>2. PICK t \in Session : t = [session[p] EXCEPT !.step = "INVOKE", !.maint = "AUTHORIZED"]
    BY <1>1 DEF Session, Intent
  <2>3. /\ t.step = "INVOKE" /\ t.known = "AUTHORIZED" /\ t.attempt = a /\ ~t.failed /\ ~t.fresh
        /\ t.aborted = session[p].aborted /\ t.maint = "AUTHORIZED"
    BY <1>1, <1>2, <2>2 DEF Session, Good, Fresh
  <2>4. maintenance'[a] = "AUTHORIZED" /\ maintenance' \in [Attempts -> Intent]
        /\ \A b \in Attempts \ {a} : maintenance'[b] = maintenance[b]
    BY <2>1 DEF Inv, TypeOK, Intent
  <2>5. Row(a)'
    <3>1. Row(a) /\ executions[a].state = "AUTHORIZED"
      BY <1>2, <1>3 DEF Inv, Open
    <3>2. Boundary(executions[a])' /\ ExecutionClosure(a)' /\ MaintenanceClosure(a)'
      BY <1>2, <2>4, <3>1 DEF AuthorizeMaintenance, Row, Boundary, ExecutionClosure, RecordValid,
                              ObservationValid, MaintenanceClosure, Open
    <3>3. Opened(a)' /\ Absent(a)' /\ Maintained(a)'
      BY <2>4, <3>1 DEF AuthorizeMaintenance, Row, Opened, Absent, Maintained, Begun, Newest, Open
    <3> QED BY <3>2, <3>3 DEF Row
  <2>6. RowsInv' /\ Stable /\ \A b \in Attempts \ {a} : Untouched(b)
    BY <2>4, <2>5, RecordRows DEF AuthorizeMaintenance, Inv, TypeOK
  <2>7. Good(t)'
    <3>1. Placed(t)' /\ Fresh(t)' /\ Reports(t)' /\ Over(t)'
      BY <1>1, <2>3 DEF Good, Placed, Fresh, Reports, Over, Begun, AuthorizeMaintenance
    <3>2. Knows(t)' /\ Waits(t)'
      BY <1>2, <2>3 DEF Knows, Waits, Claimed, AuthorizeMaintenance
    <3> QED BY <3>1, <3>2 DEF Good
  <2> QED BY <1>1, <2>1, <2>2, <2>3, <2>6, <2>7, WrittenStep DEF Driving, Claimed
<1>4. CASE ~(maintenance[a] = "NONE" /\ executions[a].state \in Open)
  <2>1. Goto(p, "ABANDON") /\ UNCHANGED maintenance
    BY <1>0, <1>4 DEF AuthorizeMaintenance
  <2>2. PICK t \in Session : t = [session[p] EXCEPT !.step = "ABANDON"]
    BY <1>1 DEF Session
  <2>3. t.step = "ABANDON" /\ t.known = session[p].known /\ t.attempt = a
        /\ t.aborted = session[p].aborted /\ t.fresh = session[p].fresh
    BY <1>1, <2>2 DEF Session
  <2>4. Placed(t) /\ Fresh(t) /\ Knows(t) /\ Waits(t) /\ Reports(t) /\ Over(t)
    BY <1>1, <2>3 DEF Good, Placed, Fresh, Knows, Waits, Reports, Over, Claimed
  <2>5. Become(p, t)
    BY <2>1, <2>2 DEF Goto, Become
  <2> QED BY <1>1, <2>1, <2>3, <2>4, <2>5, SessionOnly DEF AuthorizeMaintenance, Rows, Good, Driving, Claimed
<1> QED BY <1>3, <1>4

LEMMA CompleteInv ==
  ASSUME Inv, NEW p \in Procs, NEW status \in {"OBSERVED", "FAILED", "ABANDONED"},
         NEW step \in {"ADMIT", "ABANDON"}, Complete(p, status, step),
         step = "ADMIT" => session[p].step = "MAINTAIN",
         step = "ABANDON" => session[p].step = "SETTLE",
         UNCHANGED <<run, attempts, executions, processes, manual>>
  PROVE  Inv'
<1>0. PICK a \in Attempts : a = Mine(p)
  BY GoodSession
<1>1. session[p] \in Session /\ Good(session[p]) /\ a = session[p].attempt
  BY <1>0, GoodSession DEF Mine
<1> DEFINE maint == IF maintenance[a] = "AUTHORIZED" THEN status ELSE maintenance[a]
<1>2. PICK t \in Session : t = [session[p] EXCEPT !.step = step, !.maint = maint]
  BY <1>1 DEF Session, Intent, Inv, TypeOK
<1>3. /\ t.step = step /\ t.attempt = a /\ t.known = session[p].known /\ t.failed = session[p].failed
      /\ t.event = session[p].event /\ t.aborted = session[p].aborted /\ ~t.fresh
  BY <1>1, <1>2 DEF Session, Good, Fresh
<1>4. Placed(t) /\ Fresh(t) /\ Knows(t) /\ Reports(t) /\ Over(t)
  BY <1>1, <1>3 DEF Good, Placed, Fresh, Knows, Reports, Over, Claimed
<1>5. Waits(t)
  <2>1. step = "ADMIT" => t.event.state \notin Early
    BY <1>1, <1>3, FollowsEdges DEF Good, Reports, Early, Observed, Open, Closed
  <2> QED BY <1>3, <2>1 DEF Waits
<1>6. Good(t)
  BY <1>4, <1>5 DEF Good
<1>7. CASE maintenance[a] = "AUTHORIZED"
  <2>1. maintenance' = [maintenance EXCEPT ![a] = status] /\ Written(p, t)
    BY <1>0, <1>2, <1>7 DEF Complete, EndMaintenance
  <2>2. maintenance'[a] = status /\ maintenance' \in [Attempts -> Intent]
        /\ \A b \in Attempts \ {a} : maintenance'[b] = maintenance[b]
    BY <2>1 DEF Inv, TypeOK, Intent
  <2>3. Row(a)'
    <3>1. Row(a) /\ executions[a].state \in Open
      BY <1>7 DEF Inv, Row, MaintenanceClosure
    <3>2. Boundary(executions[a])' /\ ExecutionClosure(a)' /\ MaintenanceClosure(a)'
      BY <1>7, <2>2, <3>1 DEF Row, Boundary, ExecutionClosure, RecordValid, ObservationValid, MaintenanceClosure
    <3>3. Opened(a)' /\ Absent(a)' /\ Maintained(a)'
      BY <1>7, <2>2, <3>1 DEF Row, Opened, Absent, Maintained, Begun, Newest
    <3> QED BY <3>2, <3>3 DEF Row
  <2>4. RowsInv' /\ Stable /\ \A b \in Attempts \ {a} : Untouched(b)
    BY <2>2, <2>3, RecordRows DEF Inv, TypeOK
  <2>5. Untouched(a)
    BY <2>2 DEF Untouched
  <2>6. Good(t)'
    BY <1>3, <1>6, <2>4, <2>5, GoodStable
  <2> QED BY <1>1, <1>3, <2>1, <2>4, <2>6, WrittenStep DEF Driving, Claimed
<1>8. CASE maintenance[a] # "AUTHORIZED"
  <2>1. UNCHANGED maintenance /\ Become(p, t)
    BY <1>0, <1>2, <1>8 DEF Complete
  <2> QED BY <1>1, <1>3, <1>6, <2>1, SessionOnly DEF Rows, Driving, Claimed
<1> QED BY <1>7, <1>8

LEMMA CompleteMaintenanceInv == ASSUME Inv, NEW p \in Procs, CompleteMaintenance(p) PROVE Inv'
<1> DEFINE status == IF session[p].event.compactions = 1 THEN "OBSERVED"
                     ELSE IF session[p].event.state = "INTERRUPTED" THEN "ABANDONED" ELSE "FAILED"
<1>1. Complete(p, status, "ADMIT") /\ status \in {"OBSERVED", "FAILED", "ABANDONED"}
  BY DEF CompleteMaintenance
<1> HIDE DEF status
<1> QED BY <1>1, CompleteInv DEF CompleteMaintenance

LEMMA SettleInv == ASSUME Inv, NEW p \in Procs, Settle(p) PROVE Inv'
<1>1. CASE session[p].maint = "AUTHORIZED"
  <2> DEFINE status == IF session[p].aborted /\ ~session[p].failed THEN "ABANDONED" ELSE "FAILED"
  <2>1. Complete(p, status, "ABANDON") /\ status \in {"OBSERVED", "FAILED", "ABANDONED"}
    BY <1>1 DEF Settle
  <2> HIDE DEF status
  <2> QED BY <2>1, CompleteInv DEF Settle
<1>2. CASE session[p].maint # "AUTHORIZED"
  <2>1. session[p] \in Session /\ Good(session[p])
    BY GoodSession
  <2>2. PICK t \in Session : t = [session[p] EXCEPT !.step = "ABANDON"]
    BY <2>1 DEF Session
  <2>3. t.step = "ABANDON" /\ t.known = session[p].known /\ t.attempt = session[p].attempt
        /\ t.aborted = session[p].aborted /\ t.fresh = session[p].fresh
    BY <2>1, <2>2 DEF Session
  <2>4. Placed(t) /\ Fresh(t) /\ Knows(t) /\ Waits(t) /\ Reports(t) /\ Over(t)
    BY <2>1, <2>3 DEF Settle, Good, Placed, Fresh, Knows, Waits, Reports, Over, Claimed
  <2>5. Become(p, t) /\ UNCHANGED maintenance
    BY <1>2, <2>2 DEF Settle, Goto, Become
  <2> QED BY <2>3, <2>4, <2>5, SessionOnly DEF Settle, Rows, Good, Driving, Claimed
<1> QED BY <1>1, <1>2

LEMMA AdvancedFields ==
  ASSUME NEW x \in Execution, NEW o \in Observation, Boundary(x), o.state \in Follows(x.state),
         NEW n, n = Advanced(x, o)
  PROVE  /\ n \in Execution /\ n.state = o.state /\ n.compactions = o.compactions /\ n.result = o.result
         /\ n.process = (x.process \/ o.state = "PROCESS_OBSERVED")
         /\ n.version = x.version + 1 /\ n.last = o /\ n.lastOf = x.version
         /\ Boundary(n)
<1>1. /\ x.state \in Open /\ o.state \in Observed
      /\ o.state = "PROCESS_OBSERVED" => x.state = "AUTHORIZED"
      /\ o.state = "SESSION_OBSERVED" => x.state = "PROCESS_OBSERVED"
      /\ o.state = "OPERATION_RUNNING" => x.state = "SESSION_OBSERVED"
  BY FollowsEdges
<1>2. x.version \in 1..4
  BY <1>1 DEF Boundary, Open
<1>3. /\ n.state = o.state /\ n.compactions = o.compactions /\ n.result = o.result
      /\ n.process = (x.process \/ o.state = "PROCESS_OBSERVED")
      /\ n.version = x.version + 1 /\ n.last = o /\ n.lastOf = x.version
  BY DEF Advanced
<1>4. /\ o.state \in {"NONE", "ABANDONED"} \union Open \union Closed
      /\ (x.process \/ o.state = "PROCESS_OBSERVED") \in BOOLEAN
      /\ o.compactions \in 0..1 /\ o.result \in BOOLEAN
      /\ x.version + 1 \in 0..6 /\ x.version \in 0..5 /\ o \in Observation \union {None}
  BY <1>1, <1>2 DEF Observation, Observed
<1>5. n \in Execution
  BY <1>4 DEF Advanced, Execution
<1>6. Boundary(n)
  BY <1>1, <1>2, <1>3 DEF Boundary, Observed, Open, Closed
<1> QED BY <1>3, <1>5, <1>6

LEMMA AdmitInv == ASSUME Inv, NEW p \in Procs, Admit(p) PROVE Inv'
<1>0. PICK a \in Attempts : a = Mine(p)
  BY GoodSession DEF Admit
<1>1. session[p] \in Session /\ Good(session[p]) /\ a = session[p].attempt /\ session[p].step = "ADMIT"
  BY <1>0, GoodSession DEF Mine, Admit
<1>2. PICK o \in Observation, x \in Execution : o = session[p].event /\ x = executions[a]
  BY <1>1 DEF Good, Reports, Inv, TypeOK
<1>3. /\ ~session[p].failed /\ ObservationValid(o)
      /\ o.result => processes[a] = "GONE"
      /\ o.state = "INTERRUPTED" => session[p].aborted
      /\ manual /\ o.state = "OPERATION_RUNNING" => o.compactions = 1
  BY <1>1, <1>2 DEF Good, Reports
<1>4. CASE Admissible(o, x, session[p].known, maintenance[a])
  <2>1. /\ executions' = [executions EXCEPT ![a] = Advanced(x, o)]
        /\ Written(p, [session[p] EXCEPT !.step = "RUN", !.event = None, !.known = o.state])
    BY <1>0, <1>2, <1>4 DEF Admit
  <2>2. x.state \in Open /\ o.state \in Observed /\ o.state \in Follows(x.state)
        /\ (o.state = "PROCESS_OBSERVED" => x.state = "AUTHORIZED")
        /\ (o.state = "SESSION_OBSERVED" => x.state = "PROCESS_OBSERVED")
        /\ (o.state = "OPERATION_RUNNING" => x.state = "SESSION_OBSERVED")
        /\ (o.state = "COMPLETED" => x.state = "OPERATION_RUNNING")
    BY <1>4, FollowsEdges DEF Admissible
  <2>3. PICK n : n = Advanced(x, o)
    OBVIOUS
  <2>4. /\ n \in Execution /\ n.state = o.state /\ n.compactions = o.compactions /\ n.result = o.result
        /\ n.process = (x.process \/ o.state = "PROCESS_OBSERVED")
        /\ n.version = x.version + 1 /\ n.last = o /\ n.lastOf = x.version
        /\ Boundary(n)
    BY <1>2, <2>2, <2>3, AdvancedFields DEF Inv, Row
  <2>5. executions'[a] = n /\ executions' \in [Attempts -> Execution]
        /\ \A b \in Attempts \ {a} : executions'[b] = executions[b]
    BY <2>1, <2>3, <2>4 DEF Inv, TypeOK
  <2>6. Row(a) /\ Boundary(x)
    BY <1>2 DEF Inv, Row
  <2>7. Row(a)'
    <3>1. Boundary(executions[a])' /\ ExecutionClosure(a)'
      <4>1. Boundary(executions[a])'
        BY <2>4, <2>5 DEF Boundary
      <4>2. RecordValid(x) /\ x.version \in 1..4
        BY <1>2, <2>2, <2>6 DEF Row, ExecutionClosure, Boundary, Open
      <4>3. RecordValid(n)
        BY <1>3, <2>2, <2>4, <4>2 DEF RecordValid, ObservationValid, Open, Closed, Observed,
                                            Execution, Observation
      <4>4. n.version # 1 /\ n.last # None /\ n.lastOf = n.version - 1 /\ n.lastOf < n.version
        BY <2>4, <4>2
      <4>5. ExecutionClosure(a)'
        BY <1>3, <2>4, <2>5, <4>3, <4>4 DEF ExecutionClosure, RecordValid, ObservationValid
      <4> QED BY <4>1, <4>5
    <3>2. MaintenanceClosure(a)'
      BY <1>2, <1>4, <2>2, <2>4, <2>5, <2>6
      DEF Admit, Row, MaintenanceClosure, Admissible, Observed, Open, Closed
    <3>3. Opened(a)' /\ run # "READY" /\ Newest(a)
      BY <1>2, <2>2, <2>5, <2>6 DEF Admit, Inv, Control, Active, Row, Opened, Begun, Newest, Open
    <3>4. Absent(a)'
      <4>1. run' # "READY" /\ Newest(a)' /\ processes' = processes
        BY <3>3 DEF Admit, Begun, Newest
      <4> QED BY <1>3, <2>4, <2>5, <4>1 DEF Absent, Execution, Observation
    <3>5. Maintained(a)'
      BY <1>2, <1>3, <1>4, <2>2, <2>4, <2>5, <2>6
      DEF Admit, Row, Maintained, Admissible, Open
    <3> QED BY <3>1, <3>2, <3>3, <3>4, <3>5 DEF Row
  <2>8. RowsInv' /\ Stable /\ \A b \in Attempts \ {a} : Untouched(b)
    BY <2>5, <2>7, RecordRows DEF Admit, Inv, TypeOK
  <2>9. PICK t \in Session : t = [session[p] EXCEPT !.step = "RUN", !.event = None, !.known = o.state]
    BY <1>1, <2>2 DEF Session, Observed
  <2>10. /\ t.step = "RUN" /\ t.known = o.state /\ t.attempt = a /\ ~t.failed /\ ~t.fresh
         /\ t.aborted = session[p].aborted /\ t.maint = session[p].maint
    <3>1. ~session[p].fresh
      BY <1>1 DEF Good, Fresh
    <3>2. /\ t.step = "RUN" /\ t.known = o.state /\ t.attempt = session[p].attempt
          /\ t.failed = session[p].failed /\ t.fresh = session[p].fresh
          /\ t.aborted = session[p].aborted /\ t.maint = session[p].maint
      BY <1>1, <2>9 DEF Session
    <3> QED BY <1>1, <1>3, <3>1, <3>2 DEF Session
  <2>11. Good(t)'
    <3>1. Placed(t)' /\ Fresh(t)' /\ Reports(t)' /\ Over(t)'
      BY <1>1, <2>10 DEF Good, Placed, Fresh, Reports, Over, Begun, Admit
    <3>2. Knows(t)'
      BY <1>3, <2>2, <2>4, <2>5, <2>10 DEF Knows, Claimed, Observed, Open, Closed
    <3>3. Waits(t)'
      BY <1>1, <1>2, <2>10 DEF Good, Waits, Admit
    <3> QED BY <3>1, <3>2, <3>3 DEF Good
  <2> QED BY <1>1, <2>1, <2>8, <2>9, <2>10, <2>11, WrittenStep DEF Driving, Claimed
<1>5. CASE ~Admissible(o, x, session[p].known, maintenance[a])
  <2>1. PICK t \in Session : t = [session[p] EXCEPT !.step = "RUN", !.event = None, !.failed = TRUE]
    BY <1>1 DEF Session
  <2>2. t.step = "RUN" /\ t.known = session[p].known /\ t.attempt = a /\ t.failed
        /\ t.aborted = session[p].aborted /\ t.fresh = session[p].fresh
    BY <1>1, <2>1 DEF Session
  <2>3. Placed(t) /\ Fresh(t) /\ Knows(t) /\ Waits(t) /\ Reports(t) /\ Over(t)
    BY <1>1, <2>2 DEF Good, Placed, Fresh, Knows, Waits, Reports, Over, Claimed
  <2>4. Become(p, t) /\ UNCHANGED executions
    BY <1>0, <1>2, <1>5, <2>1 DEF Admit
  <2> QED BY <1>1, <2>2, <2>3, <2>4, SessionOnly DEF Admit, Rows, Good, Driving, Claimed
<1> QED BY <1>4, <1>5

LEMMA AbandonedFields ==
  ASSUME NEW x \in Execution, x.state \in Open, Boundary(x), RecordValid(x), NEW n, n = Abandoned(x)
  PROVE  /\ n \in Execution /\ n.state = "ABANDONED" /\ n.compactions = x.compactions
         /\ n.process = x.process /\ n.version = x.version + 1 /\ n.last = x.last /\ n.lastOf = x.lastOf
         /\ Boundary(n) /\ RecordValid(n) /\ ~n.result /\ n.version # 1
<1>1. x.version \in 1..4 /\ ~x.result
  BY DEF Boundary, RecordValid, Open
<1>2. /\ n.state = "ABANDONED" /\ n.compactions = x.compactions /\ n.result = x.result
      /\ n.process = x.process /\ n.version = x.version + 1 /\ n.last = x.last /\ n.lastOf = x.lastOf
  BY DEF Abandoned, Execution
<1>3. n \in Execution
  <2>1. \A version \in 0..6 : [x EXCEPT !.state = "ABANDONED", !.version = version] \in Execution
    BY DEF Execution
  <2>2. x.version + 1 \in 0..6
    BY <1>1
  <2> QED BY <2>1, <2>2 DEF Abandoned
<1>4. Boundary(n) /\ RecordValid(n)
  BY <1>1, <1>2 DEF Boundary, RecordValid, Open, Execution
<1> QED BY <1>1, <1>2, <1>3, <1>4

(* What is left of a record that is abandoned passes the audit. *)
LEMMA AbandonedClosure ==
  ASSUME Inv, NEW a \in Attempts, executions[a].state \in Open,
         executions'[a] = Abandoned(executions[a])
  PROVE  /\ executions'[a] \in Execution /\ executions'[a].state = "ABANDONED"
         /\ executions'[a].process = executions[a].process /\ ~executions'[a].result
         /\ Boundary(executions'[a]) /\ ExecutionClosure(a)'
<1>1. PICK x, n : x \in Execution /\ x = executions[a] /\ n = Abandoned(x)
  BY DEF Inv, TypeOK
<1>2. Row(a) /\ Boundary(x) /\ RecordValid(x)
  BY <1>1 DEF Inv, Row, ExecutionClosure, Open
<1>3. /\ n \in Execution /\ n.state = "ABANDONED" /\ n.process = x.process /\ n.version = x.version + 1
      /\ n.last = x.last /\ n.lastOf = x.lastOf
      /\ Boundary(n) /\ RecordValid(n) /\ ~n.result /\ n.version # 1
  BY <1>1, <1>2, AbandonedFields
<1>4. x.version \in 1..4
  BY <1>1, <1>2 DEF Boundary, Open
<1>5. x.last # None => ObservationValid(x.last) /\ x.lastOf < x.version
  BY <1>1, <1>2 DEF Row, ExecutionClosure, Open
<1>6. n.last # None => ObservationValid(n.last) /\ n.lastOf < n.version
  BY <1>3, <1>4, <1>5 DEF Execution
<1>7. executions'[a] = n
  BY <1>1
<1>8. ExecutionClosure(a)'
  BY <1>3, <1>6, <1>7 DEF ExecutionClosure, RecordValid, ObservationValid
<1> QED BY <1>1, <1>3, <1>7, <1>8

LEMMA AbandonInv == ASSUME Inv, NEW p \in Procs, Abandon(p) PROVE Inv'
<1>0. PICK a \in Attempts : a = Mine(p)
  BY GoodSession DEF Abandon
<1>1. session[p] \in Session /\ Good(session[p]) /\ a = session[p].attempt /\ session[p].step = "ABANDON"
  BY <1>0, GoodSession DEF Mine, Abandon
<1>2. PICK t \in Session : t = [session[p] EXCEPT !.step = "PORT"]
  BY <1>1 DEF Session
<1>3. t.step = "PORT" /\ t.known = session[p].known /\ t.attempt = a
      /\ t.aborted = session[p].aborted /\ t.fresh = session[p].fresh
  BY <1>1, <1>2 DEF Session
<1>4. ~session[p].fresh
  BY <1>1 DEF Good, Fresh
<1>5. CASE executions[a].state \notin Open /\ Goto(p, "PORT") /\ UNCHANGED executions
  <2>1. Placed(t) /\ Fresh(t) /\ Knows(t) /\ Waits(t) /\ Reports(t) /\ Over(t)
    BY <1>1, <1>3, <1>5 DEF Good, Placed, Fresh, Knows, Waits, Reports, Over, Claimed
  <2>2. Become(p, t)
    BY <1>2, <1>5 DEF Goto, Become
  <2> QED BY <1>1, <1>3, <1>5, <2>1, <2>2, SessionOnly DEF Abandon, Rows, Good, Driving, Claimed
<1>6. CASE /\ executions[a].state \in Open /\ maintenance[a] # "AUTHORIZED"
           /\ executions' = [executions EXCEPT ![a] = Abandoned(@)]
           /\ Written(p, [session[p] EXCEPT !.step = "PORT"])
  <2>1. executions'[a] = Abandoned(executions[a])
        /\ \A b \in Attempts \ {a} : executions'[b] = executions[b]
    BY <1>6 DEF Inv, TypeOK
  <2>2. /\ executions'[a] \in Execution /\ executions'[a].state = "ABANDONED"
        /\ executions'[a].process = executions[a].process /\ ~executions'[a].result
        /\ Boundary(executions'[a]) /\ ExecutionClosure(a)'
    BY <1>6, <2>1, AbandonedClosure
  <2>3. executions' \in [Attempts -> Execution]
    BY <1>6, <2>1, <2>2 DEF Inv, TypeOK
  <2>4. Row(a)'
    <3>1. Row(a) /\ UNCHANGED <<run, attempts, maintenance, processes, manual>>
      BY DEF Inv, Abandon
    <3>2. MaintenanceClosure(a)'
      BY <1>6, <2>2, <3>1 DEF Row, MaintenanceClosure
    <3>3. Opened(a)'
      BY <1>6, <2>2, <3>1 DEF Row, Opened, Begun, Open
    <3>4. Absent(a)'
      BY <2>2, <3>1 DEF Row, Absent, Begun, Newest
    <3>5. Maintained(a)'
      BY <1>6, <2>2, <3>1 DEF Row, Maintained, Open
    <3> QED BY <2>2, <3>2, <3>3, <3>4, <3>5 DEF Row, Boundary
  <2>5. RowsInv' /\ Stable /\ \A b \in Attempts \ {a} : Untouched(b)
    BY <2>1, <2>3, <2>4, RecordRows DEF Abandon, Inv, TypeOK
  <2>6. Good(t)'
    <3>1. Placed(t)' /\ Fresh(t)' /\ Waits(t)' /\ Reports(t)' /\ Over(t)'
      BY <1>1, <1>3, <1>4 DEF Good, Placed, Fresh, Waits, Reports, Over, Begun, Abandon
    <3>2. Knows(t)'
      BY <1>1, <1>3, <2>2 DEF Good, Knows, Claimed, Open
    <3> QED BY <3>1, <3>2 DEF Good
  <2> QED BY <1>1, <1>2, <1>3, <1>6, <2>5, <2>6, WrittenStep DEF Driving, Claimed
<1> QED BY <1>0, <1>5, <1>6 DEF Abandon

LEMMA AdmitResultInv == ASSUME Inv, NEW p \in Procs, AdmitResult(p) PROVE Inv'
<1>0. PICK a \in Attempts : a = Mine(p)
  BY GoodSession DEF AdmitResult
<1>1. session[p] \in Session /\ Good(session[p]) /\ a = session[p].attempt /\ session[p].step = "RESULT"
  BY <1>0, GoodSession DEF Mine, AdmitResult
<1>2. Row(a) /\ executions[a].state \notin Open /\ executions[a].state # "NONE"
      /\ maintenance[a] # "AUTHORIZED"
  <2>1. executions[a].state \in Closed \union {"ABANDONED"}
    BY <1>1 DEF Good, Knows, Claimed
  <2> QED BY <2>1 DEF Inv, Row, MaintenanceClosure, Open, Closed
<1>3. CASE executions[a].result /\ attempts[a] = "RUNNING"
  <2>1. PICK status \in {"RESULT_RECORDED", "FAILED"}, to \in {"READY", "BLOCKED"} :
          /\ EndAttempt(a, status, to) /\ Written(p, [session[p] EXCEPT !.step = "DONE"])
          /\ status = "RESULT_RECORDED" => executions[a].state = "COMPLETED"
    BY <1>0, <1>3 DEF AdmitResult
  <2>2. Active(a) /\ ~session[p].aborted
    BY <1>1, <1>3 DEF Inv, Control, Active, Good, Placed
  <2>3. RowsInv' /\ Stable
    <3>1. ExecutionClosure(a)' /\ MaintenanceClosure(a)'
      BY <1>2 DEF AdmitResult, Row, ExecutionClosure, RecordValid, ObservationValid, MaintenanceClosure
    <3>2. Boundary(executions'[a])
      BY <1>2 DEF AdmitResult, Row, Boundary
    <3>3. processes[a] = "GONE" /\ (manual /\ executions[a].state = "COMPLETED" => maintenance[a] = "OBSERVED")
      BY <1>2, <1>3 DEF Row, Absent, Maintained
    <3> QED BY <1>2, <2>1, <2>2, <3>1, <3>2, <3>3, EndedRows DEF AdmitResult, Inv, TypeOK
  <2>4. PICK t \in Session : t = [session[p] EXCEPT !.step = "DONE"]
    BY <1>1 DEF Session
  <2>5. t.step = "DONE" /\ t.attempt = a /\ t.known = session[p].known /\ ~t.fresh /\ ~t.aborted
    BY <1>1, <2>2, <2>4 DEF Session, Good, Fresh
  <2>6. Good(t)'
    <3>1. attempts'[a] # "RUNNING" /\ Begun(a)'
      BY <2>1 DEF EndAttempt, Begun, Inv, TypeOK
    <3>2. t.known # "INTERRUPTED"
      BY <1>1, <2>2, <2>5 DEF Good, Knows
    <3>3. Placed(t)' /\ Fresh(t)' /\ Knows(t)'
      BY <2>5, <3>1, <3>2 DEF Placed, Fresh, Knows, Claimed
    <3>4. Waits(t)' /\ Reports(t)' /\ Over(t)'
      BY <1>2, <2>5, <3>1 DEF Waits, Reports, Over, AdmitResult
    <3> QED BY <3>3, <3>4 DEF Good
  <2>7. \A b \in Attempts : Untouched(b)
    BY DEF Untouched, AdmitResult
  <2> QED BY <1>1, <2>1, <2>3, <2>4, <2>5, <2>6, <2>7, WrittenStep DEF Driving, Claimed
<1>4. CASE ~(executions[a].result /\ attempts[a] = "RUNNING")
  <2>1. Goto(p, "PORT") /\ UNCHANGED <<attempts, run>>
    BY <1>0, <1>4 DEF AdmitResult
  <2>2. PICK t \in Session : t = [session[p] EXCEPT !.step = "PORT"]
    BY <1>1 DEF Session
  <2>3. t.step = "PORT" /\ t.known = session[p].known /\ t.attempt = a
        /\ t.aborted = session[p].aborted /\ t.fresh = session[p].fresh
    BY <1>1, <2>2 DEF Session
  <2>4. Placed(t) /\ Fresh(t) /\ Knows(t) /\ Waits(t) /\ Reports(t) /\ Over(t)
    BY <1>1, <1>2, <2>3 DEF Good, Placed, Fresh, Knows, Waits, Reports, Over, Claimed
  <2>5. Become(p, t)
    BY <2>1, <2>2 DEF Goto, Become
  <2> QED BY <1>1, <2>1, <2>3, <2>4, <2>5, SessionOnly DEF AdmitResult, Rows, Good, Driving, Claimed
<1> QED BY <1>3, <1>4

-----------------------------------------------------------------------------
(* A new Attempt, a cancellation, and the commits of recovery *)

LEMMA BeginAttemptInv == ASSUME Inv, NEW p \in Procs, BeginAttempt(p) PROVE Inv'
<1>1. PICK a \in Attempts :
        /\ ~Begun(a) /\ \A b \in 1..(a - 1) : Begun(b)
        /\ EndAttempt(a, "RUNNING", "RUNNING")
        /\ Written(p, [Quiet EXCEPT !.step = "PREPARE", !.attempt = a])
  BY DEF BeginAttempt
<1>2. run = "READY" /\ UNCHANGED <<executions, maintenance, processes, manual>>
  BY DEF BeginAttempt
<1>3. /\ attempts' \in [Attempts -> {"NONE", "RUNNING", "RESULT_RECORDED", "FAILED", "INTERRUPTED"}]
      /\ attempts'[a] = "RUNNING" /\ \A b \in Attempts \ {a} : attempts'[b] = attempts[b]
      /\ run' = "RUNNING" /\ attempts[a] = "NONE"
  BY <1>1 DEF Inv, TypeOK, EndAttempt, Begun
<1>4. \A b \in Attempts : Begun(b) => b < a
  <2>1. \A b \in Attempts : a < b => ~Begun(b)
    BY <1>1 DEF Inv, Control
  <2> QED BY <1>1, <2>1
<1>5. \A b \in Attempts : attempts[b] # "RUNNING"
  BY <1>2 DEF Inv, Control, Active
<1>6. Control'
  <2>1. \A b, c \in Attempts : b < c /\ Begun(c)' => Begun(b)'
    BY <1>1, <1>3, <1>4 DEF Begun
  <2>2. \A b \in Attempts : attempts'[b] = "RUNNING" <=> b = a
    BY <1>3, <1>5
  <2>3. Newest(a)' /\ \A b \in Attempts \ {a} : ~Newest(b)'
    BY <1>3, <1>4 DEF Newest, Begun
  <2> QED BY <1>3, <2>1, <2>2, <2>3 DEF Control, Active, Newest, Begun
<1>7. ASSUME NEW b \in Attempts PROVE Row(b)'
  <2>1. Row(b)
    BY DEF Inv
  <2>2. executions[b].state \notin Open
    BY <1>2, <1>5, <2>1 DEF Row, Opened
  <2>3. Boundary(executions[b])' /\ ExecutionClosure(b)' /\ MaintenanceClosure(b)'
    BY <1>2, <2>1 DEF Row, Boundary, ExecutionClosure, RecordValid, ObservationValid, MaintenanceClosure
  <2>4. Opened(b)' /\ Maintained(b)'
    BY <1>2, <1>3, <2>1, <2>2 DEF Row, Opened, Maintained, Begun
  <2>5. Absent(b)'
    BY <1>2, <2>1 DEF Row, Absent
  <2> QED BY <2>3, <2>4, <2>5 DEF Row
<1>8. RowsInv'
  BY <1>2, <1>3, <1>6, <1>7 DEF RowsInv, RowTypes, Inv, TypeOK
<1>9. Stable /\ \A b \in Attempts : Untouched(b)
  BY <1>2, <1>3, <1>5 DEF Stable, Untouched, Begun
<1>10. PICK t \in Session : t = [Quiet EXCEPT !.step = "PREPARE", !.attempt = a]
  <2>1. a \in 0..MaxAttempts
    OBVIOUS
  <2> QED BY <2>1, QuietGood DEF Session
<1>11. t.step = "PREPARE" /\ t.attempt = a /\ t.known = "NONE" /\ ~t.failed /\ ~t.aborted /\ ~t.fresh
  BY <1>10, QuietGood, QuietFields DEF Session
<1>12. Good(t)'
  <2>1. Placed(t)' /\ Fresh(t)' /\ Waits(t)' /\ Reports(t)' /\ Over(t)'
    BY <1>3, <1>11 DEF Placed, Fresh, Waits, Reports, Over, Begun
  <2>2. Knows(t)'
    BY <1>1, <1>2, <1>11 DEF Knows, Claimed, Inv, Row, Opened
  <2> QED BY <2>1, <2>2 DEF Good
<1> QED BY <1>1, <1>8, <1>9, <1>10, <1>11, <1>12, WrittenStep

LEMMA CancelGoalInv == ASSUME Inv, NEW p \in Procs, CancelGoal(p) PROVE Inv'
<1>1. /\ run # "CANCELLED" /\ run' = "CANCELLED"
      /\ attempts' = [a \in Attempts |-> IF attempts[a] = "RUNNING" THEN "INTERRUPTED" ELSE attempts[a]]
      /\ Written(p, [session[p] EXCEPT !.aborted = @ \/ session[p].step \in {"PREPARE", "RUN"}])
      /\ UNCHANGED <<executions, maintenance, processes, manual>>
      /\ session[p].step \in {"IDLE", "PREPARE", "RUN", "DONE"}
  BY DEF CancelGoal
<1>2. \A a \in Attempts : /\ attempts'[a] # "NONE" <=> attempts[a] # "NONE"
                         /\ attempts'[a] # "RUNNING"
                         /\ attempts[a] # "RUNNING" => attempts'[a] = attempts[a]
                         /\ attempts'[a] = "RESULT_RECORDED" <=> attempts[a] = "RESULT_RECORDED"
  BY <1>1
<1>3. Control'
  BY <1>1, <1>2 DEF Inv, Control, Begun, Active
<1>4. ASSUME NEW a \in Attempts PROVE Row(a)'
  <2>1. Row(a) /\ (Newest(a)' <=> Newest(a))
    <3>1. \A b \in Attempts : attempts'[b] # "NONE" <=> attempts[b] # "NONE"
      BY <1>1
    <3> QED BY <3>1 DEF Inv, Newest, Begun
  <2>2. Boundary(executions[a])' /\ ExecutionClosure(a)' /\ MaintenanceClosure(a)'
    BY <1>1, <2>1 DEF Row, Boundary, ExecutionClosure, RecordValid, ObservationValid, MaintenanceClosure
  <2>3. Opened(a)' /\ Absent(a)' /\ Maintained(a)'
    BY <1>1, <1>2, <2>1 DEF Row, Opened, Absent, Maintained, Begun
  <2> QED BY <2>2, <2>3 DEF Row
<1>5. RowsInv'
  BY <1>1, <1>3, <1>4 DEF RowsInv, RowTypes, Inv, TypeOK
<1>6. Stable /\ \A a \in Attempts : Untouched(a)
  BY <1>1, <1>2 DEF Stable, Untouched, Begun
<1>7. session[p] \in Session /\ Good(session[p])
  BY GoodSession
<1>8. PICK t \in Session : t = [session[p] EXCEPT !.aborted = @ \/ session[p].step \in {"PREPARE", "RUN"}]
  BY <1>7 DEF Session
<1>9. /\ t.step = session[p].step /\ t.attempt = session[p].attempt /\ t.known = session[p].known
      /\ t.failed = session[p].failed /\ t.maint = session[p].maint /\ t.fresh = session[p].fresh
      /\ t.control = session[p].control /\ t.event = session[p].event
      /\ session[p].aborted => t.aborted
  BY <1>7, <1>8 DEF Session
<1>10. ~t.fresh /\ (t.step # "IDLE" => t.attempt \in Attempts /\ Begun(t.attempt))
  BY <1>1, <1>7, <1>9 DEF Good, Fresh, Placed, Session
<1>11. Good(t)'
  <2>1. Placed(t)' /\ Fresh(t)'
    BY <1>1, <1>2, <1>10 DEF Placed, Fresh, Begun
  <2>2. Knows(t)'
    BY <1>1, <1>7, <1>9 DEF Good, Knows, Claimed, Session
  <2>3. Waits(t)'
    BY <1>1, <1>7, <1>9 DEF Good, Waits, Session
  <2>4. Reports(t)'
    BY <1>1, <1>9 DEF Reports
  <2>5. Over(t)'
    BY <1>1, <1>2, <1>7, <1>9, <1>10 DEF Good, Over, Session
  <2> QED BY <2>1, <2>2, <2>3, <2>4, <2>5 DEF Good
<1> QED BY <1>1, <1>5, <1>6, <1>8, <1>9, <1>11, WrittenStep DEF Driving, Claimed

LEMMA CommitRecoveryInv == ASSUME Inv, NEW p \in Procs, CommitRecovery(p) PROVE Inv'
<1>0. PICK a \in Attempts : a = Mine(p)
  BY GoodSession DEF CommitRecovery
<1>1. Good(session[p]) /\ a = session[p].attempt /\ session[p].step = "RECOVER"
  BY <1>0, GoodSession DEF Mine, CommitRecovery
<1> DEFINE open == executions[a].state \in Open
<1>2. CASE session[p].fresh
  <2>1. /\ EndAttempt(a, "INTERRUPTED", "BLOCKED")
        /\ maintenance' = IF open THEN EndMaintenance(a, "ABANDONED") ELSE maintenance
        /\ executions' = [executions EXCEPT ![a] = IF open THEN Abandoned(@) ELSE @]
        /\ Written(p, Quiet) /\ UNCHANGED <<processes, manual>>
    BY <1>0, <1>2 DEF CommitRecovery
  <2>2. Active(a) /\ Row(a)
    BY <1>1, <1>2 DEF Good, Fresh, Active, Inv
  <2>3. /\ executions'[a] = IF open THEN Abandoned(executions[a]) ELSE executions[a]
        /\ maintenance'[a] = IF open /\ maintenance[a] = "AUTHORIZED" THEN "ABANDONED" ELSE maintenance[a]
        /\ maintenance' \in [Attempts -> Intent]
        /\ \A b \in Attempts \ {a} : executions'[b] = executions[b] /\ maintenance'[b] = maintenance[b]
    BY <2>1 DEF EndMaintenance, Inv, TypeOK, Intent
  <2>4. /\ executions'[a] \in Execution /\ executions'[a].state \notin Open
        /\ Boundary(executions'[a]) /\ ExecutionClosure(a)'
        /\ executions'[a].result => processes[a] = "GONE"
        /\ executions'[a].state = "COMPLETED" => executions[a].state = "COMPLETED"
        /\ executions[a].state # "NONE" => executions'[a].state # "NONE"
    <3>1. CASE open
      BY <2>3, <3>1, AbandonedClosure DEF Open
    <3>2. CASE ~open
      <4>1. executions'[a] = executions[a] /\ executions[a] \in Execution
        BY <2>3, <3>2 DEF Inv, TypeOK
      <4>2. ExecutionClosure(a)'
        BY <2>2, <4>1 DEF Row, ExecutionClosure, RecordValid, ObservationValid
      <4> QED BY <2>2, <3>2, <4>1, <4>2 DEF Row, Absent
    <3> QED BY <3>1, <3>2
  <2>5. MaintenanceClosure(a)'
    BY <2>1, <2>2, <2>3, <2>4 DEF Row, MaintenanceClosure
  <2>6. executions' \in [Attempts -> Execution]
    BY <2>1, <2>4 DEF Inv, TypeOK
  <2>7. manual /\ executions'[a].state = "COMPLETED" => maintenance'[a] = "OBSERVED"
    BY <2>2, <2>3, <2>4 DEF Row, Maintained, Open
  <2>8. RowsInv' /\ Stable
    BY <2>1, <2>2, <2>3, <2>4, <2>5, <2>6, <2>7, EndedRows
  <2>9. \A b \in Attempts : Untouched(b)
    <3>1. Untouched(a)
      BY <2>3, <2>4, AbandonedClosure DEF Untouched
    <3> QED BY <2>3, <3>1 DEF Untouched
  <2>10. Good(Quiet)'
    BY QuietFields DEF Good, Placed, Fresh, Knows, Waits, Reports, Over, Claimed
  <2> QED BY <2>1, <2>8, <2>9, <2>10, QuietGood, QuietFields, WrittenStep DEF Driving, Claimed
<1>3. CASE ~session[p].fresh
  <2>1. Become(p, Quiet) /\ UNCHANGED <<Rows, processes, manual>>
    BY <1>3 DEF CommitRecovery
  <2> QED BY <2>1, QuietGood, QuietFields, SessionOnly DEF Driving, Claimed
<1> QED BY <1>2, <1>3

LEMMA CommitResumeInv == ASSUME Inv, NEW p \in Procs, CommitResume(p) PROVE Inv'
<1>0. PICK a \in Attempts : a = Mine(p)
  BY GoodSession DEF CommitResume
<1>1. Good(session[p]) /\ a = session[p].attempt /\ session[p].step = "RESUME"
  BY <1>0, GoodSession DEF Mine, CommitResume
<1>2. UNCHANGED <<attempts, executions, maintenance, processes, manual>>
  BY DEF CommitResume
<1>3. CASE session[p].fresh
  <2>1. /\ Written(p, Quiet) /\ run = "BLOCKED" /\ Newest(a)
        /\ run' = "BLOCKED" \/ (run' = "READY" /\ (executions[a].process => processes[a] = "GONE"))
    BY <1>1, <1>3 DEF CommitResume, Good, Fresh
  <2>2. Control'
    BY <1>2, <2>1 DEF Inv, Control, Begun, Active
  <2>3. ASSUME NEW b \in Attempts PROVE Row(b)'
    <3>1. Row(b) /\ (Newest(b) => b = a)
      BY <2>1, OneNewest DEF Inv
    <3>2. Boundary(executions[b])' /\ ExecutionClosure(b)' /\ MaintenanceClosure(b)'
      BY <1>2, <3>1 DEF Row, Boundary, ExecutionClosure, RecordValid, ObservationValid, MaintenanceClosure
    <3>3. Opened(b)' /\ Maintained(b)'
      BY <1>2, <2>1, <3>1 DEF Row, Opened, Maintained, Begun, Newest
    <3>4. Absent(b)'
      BY <1>2, <2>1, <3>1 DEF Row, Absent, Begun, Newest
    <3> QED BY <3>2, <3>3, <3>4 DEF Row
  <2>4. RowsInv'
    BY <1>2, <2>1, <2>2, <2>3 DEF RowsInv, RowTypes, Inv, TypeOK
  <2>5. Stable /\ \A b \in Attempts : Untouched(b)
    BY <1>2, <2>1 DEF Stable, Untouched, Begun
  <2>6. Good(Quiet)'
    BY QuietFields DEF Good, Placed, Fresh, Knows, Waits, Reports, Over, Claimed
  <2> QED BY <2>1, <2>4, <2>5, <2>6, QuietGood, QuietFields, WrittenStep DEF Driving, Claimed
<1>4. CASE ~session[p].fresh
  <2>1. Become(p, Quiet) /\ UNCHANGED <<Rows, processes, manual>>
    BY <1>2, <1>4 DEF CommitResume, Rows
  <2> QED BY <2>1, QuietGood, QuietFields, SessionOnly DEF Driving, Claimed
<1> QED BY <1>3, <1>4

-----------------------------------------------------------------------------
(* The theorems *)

LEMMA InitInv == Init => Inv
<1> SUFFICES ASSUME Init PROVE Inv
  OBVIOUS
<1>1. TypeOK
  BY QuietGood, AuthorizedFields DEF Init, TypeOK, Intent
<1>2. Control
  BY DEF Init, Control, Active, Newest, Begun
<1>3. Exclusive
  BY QuietFields DEF Init, Exclusive, Driving, Claimed
<1>4. ASSUME NEW a \in Attempts PROVE Row(a)
  <2>1. executions[a] = NoExecution /\ maintenance[a] = "NONE" /\ attempts[a] = "NONE"
    BY DEF Init
  <2>2. ~NoExecution.process /\ ~NoExecution.result
    BY DEF NoExecution
  <2>3. Boundary(executions[a]) /\ ExecutionClosure(a) /\ MaintenanceClosure(a)
    BY <2>1, AuthorizedFields DEF Boundary, ExecutionClosure, MaintenanceClosure
  <2>4. Opened(a) /\ Absent(a) /\ Maintained(a)
    BY <2>1, <2>2, AuthorizedFields DEF Opened, Absent, Maintained, Begun, Open
  <2> QED BY <2>3, <2>4 DEF Row
<1>5. \A p \in Procs : Good(session[p])
  BY QuietGood DEF Init
<1> QED BY <1>1, <1>2, <1>3, <1>4, <1>5 DEF Inv

LEMMA StepInv == Inv /\ [Next]_vars => Inv'
<1> SUFFICES ASSUME Inv, [Next]_vars PROVE Inv'
  OBVIOUS
<1>1. CASE UNCHANGED vars
  <2>1. RowsInv' /\ Stable /\ \A b \in Attempts : Untouched(b)
    BY <1>1, RowsKept DEF vars, Rows, Inv, TypeOK
  <2>2. \A p \in Procs : Good(session[p])'
    BY <1>1 DEF vars, Inv, Good, Placed, Fresh, Knows, Waits, Reports, Over, Begun, Newest
  <2> QED BY <1>1, <2>1, <2>2 DEF vars, Inv, RowsInv, RowTypes, TypeOK, Exclusive
<1>2. ASSUME NEW p \in Procs, Step(p) PROVE Inv'
  <2>1. CASE Claim(p) \/ AuthorizeMaintenance(p) \/ CreateWorker(p) \/ CompleteMaintenance(p)
    BY <2>1, ClaimInv, AuthorizeMaintenanceInv, CreateWorkerInv, CompleteMaintenanceInv
  <2>2. CASE Admit(p) \/ EndStream(p) \/ Settle(p) \/ Abandon(p)
    BY <2>2, AdmitInv, EndStreamInv, SettleInv, AbandonInv
  <2>3. CASE ReportFailure(p) \/ AdmitResult(p) \/ CommitRecovery(p) \/ CommitResume(p)
    BY <2>3, ReportFailureInv, AdmitResultInv, CommitRecoveryInv, CommitResumeInv
  <2> QED BY <1>2, <2>1, <2>2, <2>3 DEF Step
<1>3. ASSUME NEW p \in Procs,
             \/ BeginAttempt(p) \/ DispatchFails(p) \/ Launch(p)
             \/ (\E o \in Observation : Report(p, o)) \/ BadReport(p) \/ StoreFails(p)
             \/ CancelGoal(p) \/ BeginRecovery(p) \/ BeginResume(p) \/ Crash(p)
      PROVE  Inv'
  <2>1. CASE BeginAttempt(p) \/ DispatchFails(p) \/ Launch(p) \/ \E o \in Observation : Report(p, o)
    BY <2>1, BeginAttemptInv, DispatchFailsInv, LaunchInv, ReportInv
  <2>2. CASE BadReport(p) \/ StoreFails(p) \/ CancelGoal(p)
    BY <2>2, BadReportInv, StoreFailsInv, CancelGoalInv
  <2>3. CASE BeginRecovery(p) \/ BeginResume(p) \/ Crash(p)
    BY <2>3, BeginRecoveryInv, BeginResumeInv, CrashInv
  <2> QED BY <1>3, <2>1, <2>2, <2>3
<1>4. ASSUME NEW a \in Attempts, ProcessExits(a) PROVE Inv'
  BY <1>4, ProcessExitsInv
<1> QED BY <1>1, <1>2, <1>3, <1>4 DEF Next

LEMMA Invariance == Spec => []Inv
<1> QED BY InitInv, StepInv, PTL DEF Spec

(* Every variable keeps its type; in particular no record crosses more than the *)
(* five boundaries that its version can count.                                 *)
THEOREM TypeCorrect == Spec => []TypeOK
<1>1. Inv => TypeOK
  BY DEF Inv
<1> QED BY <1>1, Invariance, PTL

(* Whoever died, recovered or reported late in between: when a later Attempt    *)
(* has begun, every process recorded for an earlier one is gone.               *)
THEOREM AbsenceBeforeReplacement == Spec => []ReplacementAfterAbsence
<1>1. Inv => ReplacementAfterAbsence
  <2> SUFFICES ASSUME Inv, NEW a \in Attempts, NEW b \in Attempts, a < b, Begun(b), executions[a].process
               PROVE  processes[a] = "GONE"
    BY DEF ReplacementAfterAbsence
  <2>1. ~Newest(a)
    BY DEF Newest
  <2> QED BY <2>1 DEF Inv, Row, Absent
<1> QED BY <1>1, Invariance, PTL

(* A result is believed only of an operation that ran to its end, whose process *)
(* exited, and which was compacted first where the profile demands it.         *)
THEOREM ResultIsOfCompletion == Spec => []ResultFromCompletion
<1>1. Inv => ResultFromCompletion
  <2> SUFFICES ASSUME Inv, NEW a \in Attempts, attempts[a] = "RESULT_RECORDED"
               PROVE  /\ executions[a].state = "COMPLETED" /\ processes[a] = "GONE"
                      /\ manual => maintenance[a] = "OBSERVED"
    BY DEF ResultFromCompletion
  <2>1. executions[a].state = "COMPLETED" /\ (manual => maintenance[a] = "OBSERVED")
    BY DEF Inv, Row, Maintained
  <2>2. executions[a].result
    BY <2>1 DEF Inv, Row, ExecutionClosure, RecordValid
  <2> QED BY <2>1, <2>2 DEF Inv, Row, Absent
<1> QED BY <1>1, Invariance, PTL

(* The audit that opening the store makes accepts whatever interleaving of      *)
(* drivers, recoveries and crashes wrote.                                      *)
THEOREM AuditedRecords == Spec => []RecordsCoherent
<1>1. Inv => RecordsCoherent
  <2> SUFFICES ASSUME Inv, NEW a \in Attempts
               PROVE  /\ ClaimClosure(a) /\ ExecutionClosure(a) /\ MaintenanceClosure(a)
                      /\ executions[a].state \in Open => attempts[a] = "RUNNING" \/ run = "CANCELLED"
                      /\ executions[a].state = "OPERATION_RUNNING" /\ manual => maintenance[a] = "OBSERVED"
    BY DEF RecordsCoherent
  <2>1. Row(a)
    BY DEF Inv
  <2>2. ClaimClosure(a)
    BY <2>1 DEF ClaimClosure, Inv, Control, Row, Opened
  <2> QED BY <2>1, <2>2 DEF Row, Opened, Maintained
<1> QED BY <1>1, Invariance, PTL

(* A driver that is done left no running Attempt, no open execution and no      *)
(* active maintenance, unless its control plane failed it.                     *)
THEOREM DriverLeavesNothing == Spec => []NothingLeftOpen
<1>1. Inv => NothingLeftOpen
  BY DEF Inv, Good, Over, NothingLeftOpen
<1> QED BY <1>1, Invariance, PTL

-----------------------------------------------------------------------------
(* What the triggers and checks of the schema take *)

Triggered(a) ==
  /\ ExecutionTriggers(a) /\ MaintenanceTriggers(a)
  /\ executions[a].state \in Closed \union {"ABANDONED"} => executions'[a] = executions[a]
  /\ maintenance[a] \notin {"NONE", "AUTHORIZED"} => maintenance'[a] = maintenance[a]
  /\ executions[a].process => executions'[a].process

LEMMA NothingWritten ==
  ASSUME NEW a \in Attempts, executions'[a] = executions[a], maintenance'[a] = maintenance[a]
  PROVE  Triggered(a)
BY DEF Triggered, ExecutionTriggers, MaintenanceTriggers

LEMMA Edges == ASSUME NEW known, NEW state \in Follows(known) PROVE <<known, state>> \in LifecycleEdges
<1>1. CASE known \in Open /\ state \in {"FAILED", "INTERRUPTED"}
  BY <1>1 DEF LifecycleEdges
<1>2. CASE known \in Open /\ state \in Observed /\ state \notin {"FAILED", "INTERRUPTED"}
  <2>1. /\ state \in {"PROCESS_OBSERVED", "SESSION_OBSERVED", "OPERATION_RUNNING", "COMPLETED"}
        /\ state = "PROCESS_OBSERVED" => known = "AUTHORIZED"
        /\ state = "SESSION_OBSERVED" => known = "PROCESS_OBSERVED"
        /\ state = "OPERATION_RUNNING" => known = "SESSION_OBSERVED"
        /\ state = "COMPLETED" => known = "OPERATION_RUNNING"
    BY <1>2, FollowsEdges DEF Observed, Open, Closed
  <2> QED BY <2>1 DEF LifecycleEdges
<1> QED BY <1>1, <1>2, FollowsEdges

LEMMA ClaimTriggers ==
  ASSUME Inv, NEW p \in Procs, Claim(p), NEW a \in Attempts
  PROVE  Triggered(a)
<1>1. UNCHANGED maintenance
  BY DEF Claim
<1>2. CASE executions'[a] = executions[a]
  BY <1>1, <1>2, NothingWritten
<1>3. CASE executions'[a] # executions[a]
  <2>1. a = Mine(p) /\ attempts[a] = "RUNNING" /\ executions[a] = NoExecution /\ executions'[a] = Authorized
    BY <1>3 DEF Claim, Inv, TypeOK
  <2>2. ClaimInserted(a)
    BY <2>1 DEF ClaimInserted, Inv, Control
  <2>3. ~NoExecution.process
    BY DEF NoExecution
  <2>4. ExecutionTriggers(a)
    BY <2>1, <2>2, AuthorizedFields DEF ExecutionTriggers, ExecutionInserted, RecordShape, Open
  <2> QED BY <1>1, <2>1, <2>3, <2>4, AuthorizedFields DEF Triggered, MaintenanceTriggers, Closed
<1> QED BY <1>2, <1>3

LEMMA AdmitTriggers ==
  ASSUME Inv, NEW p \in Procs, Admit(p), NEW a \in Attempts
  PROVE  Triggered(a)
<1>1. UNCHANGED maintenance
  BY DEF Admit
<1>2. CASE executions'[a] = executions[a]
  BY <1>1, <1>2, NothingWritten
<1>3. CASE executions'[a] # executions[a]
  <2>1. Good(session[p])
    BY GoodSession
  <2>2. session[p].event \in Observation /\ ObservationValid(session[p].event)
    BY <2>1 DEF Good, Reports, Admit
  <2>3. PICK o, x, n :
          /\ o \in Observation /\ o = session[p].event
          /\ x \in Execution /\ x = executions[a] /\ n = Advanced(x, o)
    BY <2>2 DEF Inv, TypeOK
  <2>4. a = Mine(p) /\ executions'[a] = n /\ Admissible(o, x, session[p].known, maintenance[a])
    BY <1>3, <2>3 DEF Admit, Inv, TypeOK
  <2>5. Boundary(x) /\ RecordValid(x) /\ o.state \in Follows(x.state) /\ x.state \in Open
    BY <2>3, <2>4, FollowsEdges DEF Inv, Row, ExecutionClosure, Admissible, Open
  <2>6. /\ o.state \in Observed
        /\ o.state = "PROCESS_OBSERVED" => x.state = "AUTHORIZED"
        /\ o.state = "SESSION_OBSERVED" => x.state = "PROCESS_OBSERVED"
        /\ o.state = "OPERATION_RUNNING" => x.state = "SESSION_OBSERVED"
        /\ o.state = "COMPLETED" => x.state = "OPERATION_RUNNING"
    BY <2>5, FollowsEdges
  <2>7. /\ n \in Execution /\ n.state = o.state /\ n.compactions = o.compactions /\ n.result = o.result
        /\ n.process = (x.process \/ o.state = "PROCESS_OBSERVED")
        /\ n.version = x.version + 1 /\ n.last = o /\ n.lastOf = x.version
    BY <2>3, <2>5, AdvancedFields
  <2>8. <<x.state, o.state>> \in LifecycleEdges
    BY <2>5, Edges
  <2>9. ~x.process <=> x.state = "AUTHORIZED"
    BY <2>5 DEF RecordValid, Open, Execution
  <2>10. ExecutionUpdated(x, n, maintenance'[a])
    <3>1. n.process = x.process \/ <<x.state, n.state>> = <<"AUTHORIZED", "PROCESS_OBSERVED">>
      BY <2>3, <2>6, <2>7 DEF Execution
    <3>2. n.state \in Closed \union {"ABANDONED"} => maintenance'[a] # "AUTHORIZED"
      BY <1>1, <2>4, <2>6, <2>7 DEF Admissible, Observed, Open, Closed
    <3> QED BY <2>5, <2>7, <2>8, <3>1, <3>2 DEF ExecutionUpdated
  <2>11. RecordShape(n)
    <3>1. n.state = "COMPLETED" => n.result
      BY <2>2, <2>3, <2>7 DEF ObservationValid
    <3>2. n.result => n.state \in {"COMPLETED", "FAILED"}
      BY <2>2, <2>3, <2>7 DEF ObservationValid
    <3>3. n.state # "AUTHORIZED"
      BY <2>6, <2>7 DEF Observed, Open, Closed
    <3>4. n.state \in Open => n.process
      <4>1. CASE o.state = "PROCESS_OBSERVED"
        BY <2>3, <2>7, <4>1 DEF Execution
      <4>2. CASE o.state # "PROCESS_OBSERVED" /\ n.state \in Open
        <5>1. x.state # "AUTHORIZED"
          BY <2>6, <2>7, <3>3, <4>2 DEF Open
        <5> QED BY <2>3, <2>7, <2>9, <5>1 DEF Execution
      <4> QED BY <4>1, <4>2
    <3> QED BY <3>1, <3>2, <3>3, <3>4 DEF RecordShape
  <2>12. ObservationInserted(o, x.version, x, maintenance[a])
    BY <2>2, <2>3, <2>4, <2>6, <2>8, <2>9 DEF ObservationInserted, ObservationValid, Admissible
  <2>13. ExecutionTriggers(a)
    BY <2>3, <2>4, <2>5, <2>7, <2>10, <2>11, <2>12 DEF ExecutionTriggers, Open
  <2> QED BY <1>1, <2>3, <2>4, <2>5, <2>7, <2>13 DEF Triggered, MaintenanceTriggers, Open, Closed, Execution
<1> QED BY <1>2, <1>3

LEMMA AbandonedTriggers ==
  ASSUME Inv, NEW a \in Attempts, executions[a].state \in Open,
         executions'[a] = Abandoned(executions[a]), maintenance'[a] # "AUTHORIZED"
  PROVE  ExecutionTriggers(a) /\ (executions[a].process => executions'[a].process)
<1>1. PICK x, n : x \in Execution /\ x = executions[a] /\ n = Abandoned(x)
  BY DEF Inv, TypeOK
<1>2. Boundary(x) /\ RecordValid(x)
  BY <1>1 DEF Inv, Row, ExecutionClosure, Open
<1>3. /\ n.state = "ABANDONED" /\ n.process = x.process /\ n.version = x.version + 1
      /\ n.lastOf = x.lastOf /\ ~n.result
  BY <1>1, <1>2, AbandonedFields
<1>4. ExecutionUpdated(x, n, maintenance'[a]) /\ RecordShape(n)
  BY <1>1, <1>3 DEF ExecutionUpdated, RecordShape, Open
<1> QED BY <1>1, <1>3, <1>4 DEF ExecutionTriggers, Open

LEMMA AbandonTriggers ==
  ASSUME Inv, NEW p \in Procs, Abandon(p), NEW a \in Attempts
  PROVE  Triggered(a)
<1>1. UNCHANGED maintenance
  BY DEF Abandon
<1>2. CASE executions'[a] = executions[a]
  BY <1>1, <1>2, NothingWritten
<1>3. CASE executions'[a] # executions[a]
  <2>1. /\ executions[a].state \in Open /\ maintenance[a] # "AUTHORIZED"
        /\ executions'[a] = Abandoned(executions[a])
    BY <1>3 DEF Abandon, Inv, TypeOK
  <2> QED BY <1>1, <2>1, AbandonedTriggers DEF Triggered, MaintenanceTriggers, Open, Closed
<1> QED BY <1>2, <1>3

LEMMA CommitRecoveryTriggers ==
  ASSUME Inv, NEW p \in Procs, CommitRecovery(p), NEW a \in Attempts
  PROVE  Triggered(a)
<1>1. CASE session[p].fresh /\ a = Mine(p) /\ executions[a].state \in Open
  <2>1. /\ executions'[a] = Abandoned(executions[a])
        /\ maintenance'[a] = IF maintenance[a] = "AUTHORIZED" THEN "ABANDONED" ELSE maintenance[a]
    BY <1>1 DEF CommitRecovery, EndMaintenance, Inv, TypeOK
  <2>2. MaintenanceTriggers(a)
    BY <2>1 DEF MaintenanceTriggers, MaintenanceUpdated
  <2> QED BY <1>1, <2>1, <2>2, AbandonedTriggers DEF Triggered, Open, Closed
<1>2. CASE ~(session[p].fresh /\ a = Mine(p) /\ executions[a].state \in Open)
  <2>1. executions'[a] = executions[a] /\ maintenance'[a] = maintenance[a]
    BY <1>2 DEF CommitRecovery, EndMaintenance, Rows, Inv, TypeOK
  <2> QED BY <2>1, NothingWritten
<1> QED BY <1>1, <1>2

LEMMA AuthorizeTriggers ==
  ASSUME Inv, NEW p \in Procs, AuthorizeMaintenance(p), NEW a \in Attempts
  PROVE  Triggered(a)
<1>1. UNCHANGED executions
  BY DEF AuthorizeMaintenance
<1>2. CASE maintenance'[a] = maintenance[a]
  BY <1>1, <1>2, NothingWritten
<1>3. CASE maintenance'[a] # maintenance[a]
  <2>1. maintenance[a] = "NONE" /\ executions[a].state \in Open /\ maintenance'[a] = "AUTHORIZED"
    BY <1>3 DEF AuthorizeMaintenance, Inv, TypeOK
  <2>2. manual
    BY GoodSession DEF AuthorizeMaintenance, Good, Knows
  <2> QED BY <1>1, <2>1, <2>2
          DEF Triggered, ExecutionTriggers, MaintenanceTriggers, MaintenanceInserted
<1> QED BY <1>2, <1>3

LEMMA CompleteTriggers ==
  ASSUME Inv, NEW p \in Procs, CompleteMaintenance(p) \/ Settle(p), NEW a \in Attempts
  PROVE  Triggered(a)
<1>1. UNCHANGED executions
  BY DEF CompleteMaintenance, Settle
<1>2. CASE maintenance'[a] = maintenance[a]
  BY <1>1, <1>2, NothingWritten
<1>3. CASE maintenance'[a] # maintenance[a]
  <2>1. maintenance[a] = "AUTHORIZED" /\ maintenance'[a] \in {"OBSERVED", "FAILED", "ABANDONED"}
    BY <1>3 DEF CompleteMaintenance, Settle, Complete, EndMaintenance, Inv, TypeOK
  <2> QED BY <1>1, <2>1 DEF Triggered, ExecutionTriggers, MaintenanceTriggers, MaintenanceUpdated
<1> QED BY <1>2, <1>3

(* How an execution or its maintenance ended is never revised and no recorded   *)
(* process is forgotten; and each row that a driver or a recovery writes, in    *)
(* whatever order they come, is one that the triggers of the schema take.      *)
THEOREM EndedIsFinal == Spec => EndedOnce
<1>1. Inv /\ [Next]_vars =>
        [\A a \in Attempts :
           /\ ExecutionTriggers(a) /\ MaintenanceTriggers(a)
           /\ executions[a].state \in Closed \union {"ABANDONED"} => executions'[a] = executions[a]
           /\ maintenance[a] \notin {"NONE", "AUTHORIZED"} => maintenance'[a] = maintenance[a]
           /\ executions[a].process => executions'[a].process]_vars
  <2> SUFFICES ASSUME Inv, Next, NEW a \in Attempts PROVE Triggered(a)
    BY DEF Triggered
  <2>1. ASSUME NEW p \in Procs, Step(p) PROVE Triggered(a)
    <3>1. CASE Claim(p) \/ AuthorizeMaintenance(p) \/ CompleteMaintenance(p) \/ Settle(p)
      BY <3>1, ClaimTriggers, AuthorizeTriggers, CompleteTriggers
    <3>2. CASE Admit(p) \/ Abandon(p) \/ CommitRecovery(p)
      BY <3>2, AdmitTriggers, AbandonTriggers, CommitRecoveryTriggers
    <3>3. CASE CreateWorker(p) \/ EndStream(p) \/ ReportFailure(p) \/ AdmitResult(p) \/ CommitResume(p)
      <4>1. UNCHANGED <<executions, maintenance>>
        BY <3>3 DEF CreateWorker, EndStream, ReportFailure, AdmitResult, CommitResume, Rows
      <4> QED BY <4>1, NothingWritten
    <3> QED BY <2>1, <3>1, <3>2, <3>3 DEF Step
  <2>2. CASE ~\E p \in Procs : Step(p)
    <3>1. UNCHANGED <<executions, maintenance>>
      BY <2>2 DEF Next, BeginAttempt, DispatchFails, Launch, Report, BadReport, StoreFails, CancelGoal,
                  BeginRecovery, BeginResume, Crash, ProcessExits, Rows
    <3> QED BY <3>1, NothingWritten
  <2> QED BY <2>1, <2>2
<1> QED BY <1>1, Invariance, PTL DEF Spec, EndedOnce
=============================================================================
