------------------------------- MODULE CodexTurn -------------------------------
(***************************************************************************)
(* One invocation of the Codex Worker Adapter: it starts an App Server,    *)
(* checks the configuration the server reports, opens or resumes a Thread, *)
(* compacts it when the directive says so, runs one Turn, and ends the     *)
(* server.  An observer in the callbacks of the client records what the    *)
(* server does and decides whether the Turn's result may be used; the      *)
(* boundaries are reported to the driver, which may refuse a report.       *)
(*                                                                         *)
(* The host is one JavaScript thread.  A promise that was settled is       *)
(* continued before the next event is taken up, except that the rest of the*)
(* messages of the same chunk of output comes first: messages may come     *)
(* between settlement and continuation, other events may not (AwaitSettled).*)
(* After a host crash the next one ends the recorded process.              *)
(***************************************************************************)
EXTENDS AppServerClient, Sequences

CONSTANTS
  Messages,          \* completed agent messages, by their digest
  Final, Unphased,   \* those marked as a final answer, those with no mark
  MaxAgentMessages,  \* completed messages the observer keeps
  Directives         \* what an invocation may be directed to do

VARIABLES
  observer,  \* the InvocationObserver
  host,      \* the adapter's run
  report     \* the driver's record of the reported boundaries

vars == <<client, server, observer, host, report>>

\* What an invocation is directed to do, of all its profile says: compact the
\* Thread first or not, and resume a Thread or start one.
Directive == [manual : BOOLEAN, resume : Threads \union {None}]
ASSUME DirectivesAssumption == Directives \subseteq Directive /\ MaxAgentMessages \in Nat

\* Why a run is refused before it starts: its phase, a request or a launch that
\* the directive does not bind, a workspace or an instruction file that changed.
RequestRefusals == {"UNSUPPORTED_PHASE", "INVALID_REQUEST_BINDING"}
WorkspaceRefusals == {"INVALID_WORKSPACE_LEASE", "EFFECTIVE_INPUT_MISMATCH"}

FailureCodes == RequestRefusals \union WorkspaceRefusals \union
  { "THREAD_BINDING_MISMATCH",
   "TURN_BINDING_MISMATCH", "COMPACTION_POLICY_VIOLATION", "UNSUPPORTED_BACKEND_ACTIVITY",
   "DECLINED_APPROVAL_REQUEST", "INVALID_TERMINAL_PAYLOAD", "NO_TERMINAL_PAYLOAD",
   "BACKEND_TURN_FAILED", "HOST_CANCELLED", "CLIENT_FAILURE", "CLEAN_SHUTDOWN_FAILED"}

\* An item that is neither a compaction nor a well-formed item of a kind the
\* policy allows.  Of the allowed kinds only a message leaves a trace.
Foreign == "FOREIGN"
AllowedItem(item) == item \in Messages
NotOne == "NOT_ONE"  \* a terminal Turn whose summary is not one item

Notification ==
  [method : {"thread/started"}, thread : Threads]
    \union [method : {"turn/started"}, thread : Threads, turn : Turns]
    \union [method : {"item/started", "item/completed"}, thread : Threads, turn : Turns,
            item : Items \union Messages \union {Foreign}]
    \union [method : {"turn/completed"}, thread : Threads, turn : Turns,
            status : {"completed", "completed with error", "failed"},
            item : Items \union Messages \union {Foreign, NotOne}]
    \union [method : {"forbidden"}]

\* What ends a wait for the end of the Turn, and what the next host says of the
\* recorded process.
Firsts == {"POLICY_FAILURE", "TERMINAL"}
Wakes == {"ABORT", "TIMEOUT"}
Dispositions == {"ABSENT", "TERMINATED", "UNAVAILABLE", "IDENTITY_MISMATCH",
                 "TERMINATION_FAILED", "NOT_RECORDED"}

ASSUME NoneIsNoObservation ==
  None \notin FailureCodes \union Notification \union Wakes \union Firsts \union Dispositions

Binding == [item : Items, thread : Threads, turn : Turns]

Observer ==
  [state : {"READY", "RUNNING", "COMPLETED", "FAILED", "INTERRUPTED"},
   failure : FailureCodes \union {None}, first : Firsts \union {None},
   session : Threads \union {None}, operation : Turns \union {None},
   threads : SUBSET Threads, turns : SUBSET Turns,
   manual : BOOLEAN, maintTurn : Turns \union {None}, maintDone : BOOLEAN,
   open : SUBSET Binding, authorized : SUBSET Binding, compactions : Nat,
   policy : BOOLEAN, messages : Seq(Messages), terminal : Notification \union {None},
   interrupts : 0..1, launches : 0..1, result : BOOLEAN]

Reads == {"REQUIREMENTS", "CONFIG", "PROFILES", "POST_CONFIG"}
Awaits == Reads \union {"INIT", "THREAD", "COMPACT", "TURN", "WAIT", "INTERRUPT", "SHUTDOWN"}
Over == {"ENDED", "RECOVERED"}

Host ==
  [pc : Awaits \union Over \union {"IDLE", "CRASHED", "TERM_WAIT", "KILL_WAIT"},
   directive : Directive, connected : BOOLEAN, aborted : BOOLEAN, thread : Threads \union {None},
   wake : Wakes \union {None}, event : {"NONE", "FAILURE", "RESULT"}, yielded : BOOLEAN,
   disposition : Dispositions \union {None}]

Report ==
  [stage : {"AUTHORIZED", "PROCESS_OBSERVED", "SESSION_OBSERVED", "OPERATION_RUNNING",
            "COMPLETED", "FAILED", "INTERRUPTED"},
   session : Threads \union {None}, operation : Turns \union {None},
   result : BOOLEAN, refused : {"NO", "DRIVER", "STORE"}]

NewObserver ==
  [state |-> "READY", failure |-> None, first |-> None, session |-> None, operation |-> None,
   threads |-> {}, turns |-> {}, manual |-> FALSE, maintTurn |-> None, maintDone |-> FALSE,
   open |-> {}, authorized |-> {}, compactions |-> 0, policy |-> FALSE, messages |-> <<>>,
   terminal |-> None, interrupts |-> 0, launches |-> 0, result |-> FALSE]

Init ==
  /\ client = NoClient /\ server = NoServer /\ observer = NewObserver
  /\ host \in [pc : {"IDLE"}, directive : Directives, connected : {FALSE}, aborted : {FALSE},
               thread : {None}, wake : {None}, event : {"NONE"}, yielded : {FALSE},
               disposition : {None}]
  /\ report = [stage |-> "AUTHORIZED", session |-> None, operation |-> None,
               result |-> FALSE, refused |-> "NO"]

-----------------------------------------------------------------------------
(* The observer: failures *)

First(o, which) == [o EXCEPT !.first = IF @ = None THEN which ELSE @]

\* The first failure decides, and what was seen until then decides nothing more.
FailWith(o, code) ==
  IF o.failure # None THEN o
  ELSE First([o EXCEPT !.failure = code, !.threads = {}, !.turns = {}, !.messages = <<>>,
                !.state = IF code = "HOST_CANCELLED" THEN "INTERRUPTED" ELSE "FAILED"],
             "POLICY_FAILURE")

\* A failure for each condition that holds; the first one decides.
FailIf(o, condition, code) == IF condition THEN FailWith(o, code) ELSE o

\* A cancellation replaces the failure the server reported, and no other.
Cancel(o) ==
  IF o.failure \notin {None, "BACKEND_TURN_FAILED"} THEN o
  ELSE First([o EXCEPT !.failure = "HOST_CANCELLED", !.state = "INTERRUPTED"], "POLICY_FAILURE")

\* Mutant: only what is seen after the Thread was bound must agree with it.
ValidateTurnsOnly(o) ==
  FailIf(o, o.operation # None /\ ~(o.turns \subseteq {o.operation}), "TURN_BINDING_MISMATCH")

\* Every Thread and Turn the server ever named is the bound one.
ValidateRefs(o) ==
  FailIf(FailIf(o, o.session # None /\ ~(o.threads \subseteq {o.session}),
                "THREAD_BINDING_MISMATCH"),
         o.operation # None /\ ~(o.turns \subseteq {o.operation}), "TURN_BINDING_MISMATCH")

BindThread(o, thread) == ValidateRefs([o EXCEPT !.session = thread])

\* The Turn of the compaction is not the Turn of the operation.
BindTurn(o, turn) ==
  IF o.maintTurn = turn THEN FailWith(o, "TURN_BINDING_MISMATCH")
  ELSE ValidateRefs([o EXCEPT !.operation = turn])

-----------------------------------------------------------------------------
(* The observer: manual compaction *)

BeginManualCompaction(o, d) ==
  IF ~d.manual \/ o.manual \/ o.compactions # 0 THEN FailWith(o, "COMPACTION_POLICY_VIOLATION")
  ELSE [o EXCEPT !.manual = TRUE]

FinishManualCompaction(o) ==
  IF o.manual /\ o.compactions = 1 /\ o.open = {} /\ o.maintTurn # None /\ o.maintDone
  THEN [o EXCEPT !.manual = FALSE]
  ELSE FailWith(o, "COMPACTION_POLICY_VIOLATION")

\* A lifecycle event of the client.  It counts a compaction the directive
\* forbids, and refuses one that the host did not ask for.
RecordCompaction(o, d, e) ==
  LET seen == IF o.failure # None THEN o ELSE [o EXCEPT !.threads = @ \union {e.thread}]
      binding == [item |-> e.item, thread |-> e.thread, turn |-> e.turn]
      violation == FailWith(seen, "COMPACTION_POLICY_VIOLATION") IN
  IF ~d.manual
  THEN FailWith(ValidateRefs([seen EXCEPT !.compactions = @ + 1]), "COMPACTION_POLICY_VIOLATION")
  ELSE IF ~e.manual \/ o.session = None \/ e.thread # o.session THEN violation
  ELSE IF e.stage = "STARTED"
  THEN IF ~o.manual \/ o.maintTurn # e.turn \/ o.compactions # 0 THEN violation
       ELSE [seen EXCEPT !.open = @ \union {binding}, !.authorized = @ \union {binding}]
  ELSE IF binding \notin o.open THEN violation
  ELSE [seen EXCEPT !.open = @ \ {binding}, !.compactions = @ + 1]

-----------------------------------------------------------------------------
(* The observer: notifications *)

SeeThread(o, n) ==
  IF n.method = "forbidden" THEN FailWith(o, "UNSUPPORTED_BACKEND_ACTIVITY")
  ELSE [o EXCEPT !.threads = @ \union {n.thread}]

\* While a compaction is awaited, the Turn that starts is its Turn.
SeeTurn(o, n) ==
  CASE n.method = "turn/started" ->
         LET other == o.manual /\ o.maintTurn \notin {None, n.turn}
             bound == IF o.manual /\ ~other THEN [o EXCEPT !.maintTurn = n.turn]
                      ELSE FailIf(o, other, "COMPACTION_POLICY_VIOLATION") IN
         IF bound.maintTurn = n.turn THEN bound
         ELSE [bound EXCEPT !.turns = @ \union {n.turn}]
    [] n.method \in {"item/started", "item/completed"} /\ n.turn # o.maintTurn ->
         [o EXCEPT !.turns = @ \union {n.turn}]
    [] OTHER -> o

\* An item outside a compaction: the policy must be bound and must allow it.
RecordItem(o, item, location) ==
  IF o.policy /\ item \in Items THEN FailWith(o, "COMPACTION_POLICY_VIOLATION")
  ELSE IF ~o.policy \/ ~AllowedItem(item) THEN FailWith(o, "UNSUPPORTED_BACKEND_ACTIVITY")
  ELSE IF location # "COMPLETED" THEN o
  ELSE IF Len(o.messages) >= MaxAgentMessages THEN FailWith(o, "INVALID_TERMINAL_PAYLOAD")
  ELSE [o EXCEPT !.messages = Append(@, item)]

SeeItem(o, n) ==
  IF n.method \notin {"item/started", "item/completed"} THEN o
  ELSE IF n.item \in Items
  THEN FailIf(o, \/ [item |-> n.item, thread |-> n.thread, turn |-> n.turn] \notin o.authorized
                 \/ n.turn # o.maintTurn,
              "COMPACTION_POLICY_VIOLATION")
  ELSE IF o.manual THEN FailWith(o, "COMPACTION_POLICY_VIOLATION")
  ELSE RecordItem(o, n.item, IF n.method = "item/completed" THEN "COMPLETED" ELSE "STARTED")

\* The end of a Turn: of the compaction's Turn, during the compaction, or of
\* the one Turn of the operation.
SeeTerminal(o, n) ==
  IF n.method # "turn/completed" THEN o
  ELSE IF n.turn = o.maintTurn
  THEN IF /\ o.manual /\ ~o.maintDone /\ n.status = "completed"
          /\ [item |-> n.item, thread |-> n.thread, turn |-> n.turn] \in o.authorized
       THEN [o EXCEPT !.maintDone = TRUE]
       ELSE FailWith(o, "COMPACTION_POLICY_VIOLATION")
  ELSE IF o.manual THEN FailWith(o, "COMPACTION_POLICY_VIOLATION")
  ELSE LET recorded == IF n.item = NotOne THEN o ELSE RecordItem(o, n.item, "TERMINAL")
           seen == [recorded EXCEPT !.turns = @ \union {n.turn}] IN
       IF o.terminal # None THEN FailWith(seen, "TURN_BINDING_MISMATCH")
       ELSE First([seen EXCEPT !.terminal = n], "TERMINAL")

\* What a failed observer is notified of decides nothing more.
RecordNotification(o, n) ==
  IF o.failure # None THEN o
  ELSE ValidateRefs(SeeTerminal(SeeItem(SeeTurn(SeeThread(o, n), n), n), n))

RecordApproval(o, thread, turn) ==
  IF o.failure # None THEN o
  ELSE FailWith(ValidateRefs([o EXCEPT !.threads = @ \union {thread}, !.turns = @ \union {turn}]),
           "DECLINED_APPROVAL_REQUEST")

\* Mutant: any completed message may be repeated as the final one.
SelectsAnyMessage(o) ==
  \E i \in 1..Len(o.messages) : o.messages[i] = o.terminal.item

\* The summary of the Turn is its one final message, or its one message when
\* the server marks none.
SelectsFinalMessage(o) ==
  LET finals == {i \in 1..Len(o.messages) : o.messages[i] \in Final} IN
  \/ \E i \in finals : finals = {i} /\ o.messages[i] = o.terminal.item
  \/ finals = {} /\ o.terminal.item \in Unphased /\ o.messages = <<o.terminal.item>>

-----------------------------------------------------------------------------
(* The driver's side of the reports *)

\* After one report was refused every later one is.
Reported(r, bound, stored, accepted) ==
  IF r.refused # "NO" THEN r
  ELSE IF ~bound THEN [r EXCEPT !.refused = "DRIVER"]
  ELSE IF ~stored THEN [r EXCEPT !.refused = "STORE"]
  ELSE accepted

ProcessStarted(r, stored) ==
  Reported(r, r.stage = "AUTHORIZED", stored, [r EXCEPT !.stage = "PROCESS_OBSERVED"])

SessionStarted(r, thread, stored) ==
  Reported(r, r.stage = "PROCESS_OBSERVED", stored,
           [r EXCEPT !.stage = "SESSION_OBSERVED", !.session = thread])

OperationStarted(r, o, d, stored) ==
  Reported(r, /\ r.stage = "SESSION_OBSERVED" /\ r.session = o.session
              /\ d.manual => o.compactions = 1,
           stored, [r EXCEPT !.stage = "OPERATION_RUNNING", !.operation = o.operation])

\* The last report repeats the boundaries that were recorded.
TerminalBound(r, o, yielded) ==
  /\ o.launches = (IF r.stage = "AUTHORIZED" THEN 0 ELSE 1)
  /\ o.session = r.session /\ o.operation = r.operation
  /\ o.result = yielded

\* What the driver demands of the observation when the stream is over.
ObservationAllowed(o, d) ==
  /\ o.launches = 0 => o.session = None /\ o.operation = None
  /\ o.operation # None => o.session # None
  /\ o.state = "COMPLETED" => o.operation # None /\ o.result /\ o.failure = None
  /\ o.state \in {"FAILED", "INTERRUPTED"} => o.failure # None
  /\ o.state = "INTERRUPTED" => ~o.result
  /\ o.state = "FAILED" => (o.failure = "BACKEND_TURN_FAILED") = o.result
  /\ o.result => o.operation # None
  /\ o.state # "INTERRUPTED" => o.interrupts = 0
  /\ IF d.manual THEN o.compactions <= 1 /\ (o.state = "COMPLETED" => o.compactions = 1)
     ELSE o.compactions = 0

TerminalReported(r, o, d, yielded, stored) ==
  Reported(r, TerminalBound(r, o, yielded) /\ ObservationAllowed(o, d), stored,
           [r EXCEPT !.stage = o.state, !.result = yielded])

-----------------------------------------------------------------------------
(* The adapter's run: before the Turn *)

WaitResult ==
  CASE host.wake # None -> host.wake
    [] host.wake = None /\ observer.first # None -> observer.first
    [] host.wake = None /\ observer.first = None /\ client.closed -> "CLOSED"
    [] OTHER -> None

RejectedOutcome(x) == x # None /\ ~x.ok
AcceptedOutcome(x) == x # None /\ x.ok

\* Mutant: a lifecycle that was seen through is not asked what became of its request.
LifecycleSettled == client.compacted # None \/ RejectedOutcome(client.outcome)

\* A compaction is awaited twice: its request first, and then, when the server
\* accepted it, its lifecycle, which may have ended long before.
CompactionSettled == client.outcome # None /\ (client.outcome.ok => client.compacted # None)

\* The promise the host awaits is settled.
AwaitSettled ==
  CASE host.pc = "WAIT" -> WaitResult # None
    [] host.pc = "COMPACT" -> CompactionSettled
    [] host.pc = "SHUTDOWN" -> client.closed \/ client.stage = "EXPIRED"
    [] host.pc \in Awaits \ {"WAIT", "COMPACT", "SHUTDOWN"} -> client.outcome # None
    [] OTHER -> FALSE

Continues(pc) == host.pc = pc /\ AwaitSettled

\* What the driver refuses before a process exists has no report.
Decline ==
  /\ host.pc = "IDLE"
  /\ \/ host.aborted /\ observer' = Cancel(observer)
     \/ \E code \in RequestRefusals \union WorkspaceRefusals : observer' = FailWith(observer, code)
  /\ host' = [host EXCEPT !.pc = "ENDED"]
  /\ report' = [report EXCEPT !.refused = "DRIVER"]
  /\ UNCHANGED <<client, server>>

Start ==
  /\ host.pc = "IDLE" /\ ~host.aborted
  /\ observer' = [observer EXCEPT !.state = "RUNNING"]
  /\ client' = Constructed
  /\ server' = [server EXCEPT !.state = "STARTING"]
  /\ host' = [host EXCEPT !.pc = "INIT"]
  /\ UNCHANGED report

\* The spawn event, or the error event: the process never ran.
SpawnOutcome ==
  /\ server.state = "STARTING" /\ host.pc = "INIT"
  /\ \/ /\ client' = Spawned(client, FALSE)
        /\ server' = [server EXCEPT !.state = "EXITED", !.failed = TRUE]
        /\ UNCHANGED <<observer, report>>
     \/ /\ client' = Spawned(client, FALSE)  \* its identity cannot be read
        /\ server' = [server EXCEPT !.state = "RUNNING"]
        /\ UNCHANGED <<observer, report>>
     \/ \E stored \in BOOLEAN :
          /\ report' = ProcessStarted(report, stored)
          /\ observer' = [observer EXCEPT !.launches = @ + 1]
          /\ client' = Spawned(client, report'.refused = "NO")
          /\ server' = [server EXCEPT !.state = "RUNNING"]
  /\ UNCHANGED host

\* The failure of an error that was thrown in the run.
Caught(o, code) ==
  IF host.aborted \/ code = "HOST_CANCELLED" THEN Cancel(o) ELSE FailWith(o, code)

RequestFailure == IF client.outcome.code = "HOST_CANCELLED" THEN "HOST_CANCELLED" ELSE "CLIENT_FAILURE"

\* An error ends the run, once the process is shut down.
Throw(o, code) ==
  /\ observer' = Caught(o, code)
  /\ client' = Shutdown(Taken(client))
  /\ host' = [host EXCEPT !.pc = "SHUTDOWN"]

Ask(o, c, method, h) ==
  /\ observer' = o
  /\ client' = CancellableRequest(Taken(c), method, host.aborted)
  /\ host' = h

\* initialize ended: the first request, or the shutdown of the client's start.
ContinueInit ==
  /\ Continues("INIT")
  /\ LET c == Initialized(client) IN
     IF c.ready
     THEN Ask(observer, c, "configRequirements/read",
              [host EXCEPT !.pc = "REQUIREMENTS", !.connected = TRUE])
     ELSE client' = Shutdown(Taken(c)) /\ host' = [host EXCEPT !.pc = "SHUTDOWN"] /\ UNCHANGED observer
  /\ UNCHANGED <<server, report>>

AfterRead ==
  [REQUIREMENTS |-> [pc |-> "CONFIG", method |-> "config/read"],
   CONFIG |-> [pc |-> "PROFILES", method |-> "permissionProfile/list"],
   PROFILES |-> [pc |-> "THREAD",
                 method |-> IF host.directive.resume = None THEN "thread/start" ELSE "thread/resume"]]

\* What the server is configured to do is compared with the directive.
ContinueRead ==
  /\ \E pc \in DOMAIN AfterRead :
       /\ Continues(pc)
       /\ IF ~client.outcome.ok THEN Throw(observer, RequestFailure)
          ELSE IF client.outcome.value # "FITS" THEN Throw(observer, "EFFECTIVE_INPUT_MISMATCH")
          ELSE Ask(observer, client, AfterRead[pc].method, [host EXCEPT !.pc = AfterRead[pc].pc])
  /\ UNCHANGED <<server, report>>

ContinueThread ==
  /\ Continues("THREAD")
  /\ IF ~client.outcome.ok THEN Throw(observer, RequestFailure)
     ELSE IF client.outcome.value \notin Threads THEN Throw(observer, "EFFECTIVE_INPUT_MISMATCH")
     ELSE IF host.directive.resume \notin {None, client.outcome.value}
     THEN Throw(observer, "THREAD_BINDING_MISMATCH")
     ELSE Ask(observer, client, "config/read",
              [host EXCEPT !.pc = "POST_CONFIG", !.thread = client.outcome.value])
  /\ UNCHANGED <<server, report>>

\* The prompt fits the directive, and the items of the Turn are judged from now on.
StartTurn(o) ==
  \E fits \in BOOLEAN :
    IF ~fits THEN Throw(o, "EFFECTIVE_INPUT_MISMATCH")
    ELSE Ask([o EXCEPT !.policy = TRUE], client, "turn/start", [host EXCEPT !.pc = "TURN"])

StartCompaction(o) ==
  LET begun == BeginManualCompaction(o, host.directive) IN
  IF begun.failure # None THEN Throw(begun, begun.failure)
  ELSE /\ observer' = begun
       /\ client' = CompactThread(client, o.session)
       /\ host' = [host EXCEPT !.pc = "COMPACT"]

\* The configuration still fits: the Thread is bound and reported.
ContinueSession ==
  /\ Continues("POST_CONFIG")
  /\ IF ~client.outcome.ok \/ client.outcome.value # "FITS"
     THEN /\ Throw(observer, IF client.outcome.ok THEN "EFFECTIVE_INPUT_MISMATCH" ELSE RequestFailure)
          /\ UNCHANGED report
     ELSE LET bound == BindThread(observer, host.thread) IN
          IF bound.failure # None THEN Throw(bound, bound.failure) /\ UNCHANGED report
          ELSE \E stored \in BOOLEAN :
                 /\ report' = SessionStarted(report, host.thread, stored)
                 /\ IF report'.refused # "NO" THEN Throw(bound, "CLIENT_FAILURE")
                    ELSE IF host.directive.manual THEN StartCompaction(bound)
                    ELSE StartTurn(bound)
  /\ UNCHANGED server

\* A request that was refused or failed ends the run, whatever the lifecycle.
ContinueCompaction ==
  /\ Continues("COMPACT")
  /\ IF RejectedOutcome(client.outcome) \/ RejectedOutcome(client.compacted)
     THEN /\ observer' = Caught(observer, "CLIENT_FAILURE")
          /\ client' = Shutdown(Taken(CompactionRefused(client)))
          /\ host' = [host EXCEPT !.pc = "SHUTDOWN"]
     ELSE LET finished == FinishManualCompaction(observer) IN
          IF finished.failure # None THEN Throw(finished, finished.failure)
          ELSE IF host.aborted THEN Throw(finished, "HOST_CANCELLED")
          ELSE StartTurn(finished)
  /\ UNCHANGED <<server, report>>

-----------------------------------------------------------------------------
(* The adapter's run: the Turn and its end *)

\* The Turn is bound and reported; the wait for its end begins.
ContinueTurn ==
  /\ Continues("TURN")
  /\ IF ~client.outcome.ok THEN Throw(observer, RequestFailure) /\ UNCHANGED report
     ELSE LET bound == BindTurn(observer, client.outcome.value) IN
          IF bound.failure # None THEN Throw(bound, bound.failure) /\ UNCHANGED report
          ELSE \E stored \in BOOLEAN :
                 /\ report' = OperationStarted(report, bound, host.directive, stored)
                 /\ IF report'.refused # "NO" THEN Throw(bound, "CLIENT_FAILURE")
                    ELSE /\ observer' = bound
                         /\ host' = [host EXCEPT !.pc = "WAIT",
                                                 !.wake = IF host.aborted THEN "ABORT" ELSE None]
                         /\ client' = Taken(client)
  /\ UNCHANGED server

\* The result of the Turn that ended, when it is the bound one.
UseTerminal(event, o) ==
  /\ observer' = o
  /\ client' = Shutdown(Taken(client))
  /\ host' = [host EXCEPT !.pc = "SHUTDOWN", !.event = event]

\* What the text of the final message says, when it is decoded.
Payloads == {"FITS", "DIFFERS"}

Ended(payload) ==
  LET t == observer.terminal IN
  IF host.aborted THEN Throw(observer, "HOST_CANCELLED")
  ELSE IF t.thread # observer.session \/ t.turn # observer.operation
  THEN Throw(observer, "TURN_BINDING_MISMATCH")
  ELSE IF t.status = "failed" THEN UseTerminal("FAILURE", FailWith(observer, "BACKEND_TURN_FAILED"))
  ELSE IF t.status # "completed" \/ ~SelectsFinalMessage(observer) \/ payload # "FITS"
  THEN Throw(observer, "INVALID_TERMINAL_PAYLOAD")
  ELSE UseTerminal("RESULT", observer)

ContinueWait ==
  /\ Continues("WAIT")
  /\ CASE WaitResult \in {"ABORT", "TIMEOUT"} ->
            /\ observer' = [observer EXCEPT !.interrupts = @ + 1]
            /\ client' = Request(client, "turn/interrupt")
            /\ host' = [host EXCEPT !.pc = "INTERRUPT"]
       [] WaitResult = "POLICY_FAILURE" -> Throw(observer, observer.failure)
       [] WaitResult = "CLOSED" -> Throw(observer, "CLIENT_FAILURE")
       [] WaitResult = "TERMINAL" -> \E payload \in Payloads : Ended(payload)
  /\ UNCHANGED <<server, report>>

\* The interruption was acknowledged or not.
ContinueInterrupt ==
  /\ Continues("INTERRUPT")
  /\ Throw(observer, IF host.wake = "ABORT" THEN "HOST_CANCELLED" ELSE "NO_TERMINAL_PAYLOAD")
  /\ UNCHANGED <<server, report>>

\* What is left of the event and of the failure once the process was shut down.
Swept(o) ==
  IF ~host.connected THEN [o |-> Caught(o, "CLIENT_FAILURE"), event |-> "NONE"]
  ELSE IF CleanClose(client, server) THEN [o |-> o, event |-> host.event]
  ELSE [o |-> FailWith(o, "CLEAN_SHUTDOWN_FAILED"), event |-> "NONE"]

\* Mutant: a result that was built survives a cancellation during the shutdown.
FinishedDespiteCancel(s) ==
  IF s.event # "NONE" /\ s.o.failure \in {None, "BACKEND_TURN_FAILED"}
  THEN [s EXCEPT !.o.result = TRUE, !.o.state = IF s.o.failure = None THEN "COMPLETED" ELSE @]
  ELSE [o |-> s.o, event |-> "NONE"]

Finished(s) ==
  IF host.aborted THEN [o |-> Cancel(s.o), event |-> "NONE"]
  ELSE IF s.event # "NONE" /\ s.o.failure \in {None, "BACKEND_TURN_FAILED"}
  THEN [s EXCEPT !.o.result = TRUE, !.o.state = IF s.o.failure = None THEN "COMPLETED" ELSE @]
  ELSE [o |-> FailIf(s.o, s.o.state = "RUNNING", "CLIENT_FAILURE"), event |-> "NONE"]

\* The event, if it is still to be used, and the last report.
Conclude ==
  /\ Continues("SHUTDOWN")
  /\ \E stored \in BOOLEAN :
       LET end == Finished(Swept(observer)) IN
       /\ observer' = end.o
       /\ host' = [host EXCEPT !.pc = "ENDED", !.event = end.event, !.yielded = end.event # "NONE"]
       /\ report' = TerminalReported(report, end.o, host.directive, end.event # "NONE", stored)
  /\ UNCHANGED <<client, server>>

HostStep ==
  \/ Decline \/ Start \/ ContinueInit \/ ContinueRead \/ ContinueThread \/ ContinueSession
  \/ ContinueCompaction \/ ContinueTurn \/ ContinueWait \/ ContinueInterrupt \/ Conclude

-----------------------------------------------------------------------------
(* Events of the host *)

Event == host.pc \in Awaits /\ ~AwaitSettled

\* The driver asks the worker to stop; a request that may be cancelled is.
Abort ==
  /\ host.pc = "IDLE" \/ Event
  /\ ~host.aborted
  /\ host' = [host EXCEPT !.aborted = TRUE,
                !.wake = IF host.pc = "WAIT" THEN "ABORT" ELSE @]
  /\ client' = IF client.pending \in Methods \ {"spawn", "initialize", "thread/compact/start",
                                                "turn/interrupt"}
               THEN Fail(client, "HOST_CANCELLED") ELSE client
  /\ UNCHANGED <<server, observer, report>>

\* The timer of a request, or of the lifecycle of a compaction.
RequestTimeout ==
  /\ Event
  /\ client.pending \notin {None, "spawn"} \/ client.tracker # None
  /\ client' = Fail(client, "FAILED")
  /\ UNCHANGED <<server, observer, host, report>>

TurnTimeout ==
  /\ Event /\ host.pc = "WAIT"
  /\ host' = [host EXCEPT !.wake = "TIMEOUT"]
  /\ UNCHANGED <<client, server, observer, report>>

ShutdownTimeout ==
  /\ Event /\ client.stage \in {"GRACE", "TERM", "KILL"}
  /\ client' = ShutdownTimer(client)
  /\ UNCHANGED <<server, observer, host, report>>

\* The refusal of an unsupported request was written, or could not be.
RefusalSent ==
  /\ Event /\ client.refusing
  /\ client' = RefusalWritten(client)
  /\ UNCHANGED <<server, observer, host, report>>

\* Standard output ends before the process is closed.
OutputEnds ==
  /\ Event /\ server.state = "RUNNING"
  /\ \E partial \in BOOLEAN : client' = StdoutEnded(client, partial)
  /\ UNCHANGED <<server, observer, host, report>>

\* The process is closed: it left, and all its output was read.
Close ==
  /\ Event /\ ~client.closed /\ server.state \in {"RUNNING", "EXITED"}
  /\ \E failed \in BOOLEAN :
       server' = [server EXCEPT !.state = "EXITED", !.failed = @ \/ failed]
  /\ client' = ProcessExited(client)
  /\ UNCHANGED <<observer, host, report>>

-----------------------------------------------------------------------------
(* Messages of the server *)

Listening ==
  /\ host.pc \in Awaits /\ server.state = "RUNNING"
  /\ client.failure = None /\ ~client.closed

\* The messages a server sends that does what it was asked for.  Others are
\* stray, and their number is bounded.
Expected(n) ==
  LET tracker == client.tracker IN
  \/ /\ tracker # None /\ n.method # "forbidden" /\ n.thread = observer.session
     /\ \/ n.method = "turn/started" /\ observer.maintTurn = None
        \/ n.method = "item/started" /\ tracker.item = None /\ n.item \in Items
           /\ n.turn = observer.maintTurn
        \/ n.method = "item/completed" /\ ~tracker.itemDone
           /\ n.item = tracker.item /\ n.turn = tracker.turn
        \/ n.method = "turn/completed" /\ ~tracker.turnDone /\ n.status = "completed"
           /\ n.item = tracker.item /\ n.turn = tracker.turn
  \/ /\ host.pc = "WAIT" /\ n.method \in {"item/completed", "turn/completed"}
     /\ n.thread = observer.session /\ n.turn = observer.operation /\ observer.terminal = None
     /\ IF n.method = "item/completed" THEN n.item \in Messages /\ Len(observer.messages) < MaxAgentMessages
        ELSE n.item \in Messages

Sends(stray) ==
  /\ stray => server.stray < MaxStray
  /\ server' = [server EXCEPT !.stray = IF stray THEN @ + 1 ELSE @]

ReadReplies == {"FITS", "DIFFERS"}
ThreadReplies == Threads \union {"DIFFERS"}
Replies ==
  CASE client.pending \in {"configRequirements/read", "config/read", "permissionProfile/list"} ->
         ReadReplies
    [] client.pending \in {"thread/start", "thread/resume"} -> ThreadReplies
    [] client.pending = "turn/start" -> Turns
    [] client.pending \in {"initialize", "thread/compact/start", "turn/interrupt"} -> {"FITS"}

Reply ==
  /\ Listening /\ client.pending \notin {None, "spawn"}
  /\ \E body \in Replies \union {"ERROR", "MALFORMED"} : client' = ReceiveResponse(client, body)
  /\ UNCHANGED <<server, observer, host, report>>

\* Every message the client refuses, and a broken stream.
Garbage ==
  /\ Listening
  /\ client' = Fail(client, "FAILED")
  /\ UNCHANGED <<server, observer, host, report>>

\* The client follows a compaction first, and tells the observer.  The
\* notification itself comes after, unless the client failed.
Notify(n) ==
  LET c == ObserveCompaction(client, n)
      e == CompactionEvent(client, n)
      o == IF e = None THEN observer ELSE RecordCompaction(observer, host.directive, e) IN
  /\ client' = c
  /\ observer' = IF c.failure # None THEN o ELSE RecordNotification(o, n)

ServerNotifies ==
  /\ Listening
  /\ IF client.handshake THEN \E n \in Notification : Sends(~Expected(n)) /\ Notify(n)
     ELSE Sends(TRUE) /\ client' = BeforeHandshake(client) /\ UNCHANGED observer
  /\ UNCHANGED <<host, report>>

\* An approval is declined, and another request refused.
ServerRequests ==
  /\ Listening /\ client.handshake /\ Sends(TRUE)
  /\ \/ /\ \E thread \in Threads, turn \in Turns : observer' = RecordApproval(observer, thread, turn)
        /\ UNCHANGED client
     \/ /\ client' = RefuseServerRequest(client)
        /\ UNCHANGED observer
  /\ UNCHANGED <<host, report>>

-----------------------------------------------------------------------------
(* The processes, a crash of the host, and the next host *)

\* Killed by the host that started it, before that host learns of it.
Killed ==
  /\ client.signal = "KILL" /\ (server.state = "RUNNING" \/ server.helper)
  /\ server' = [server EXCEPT !.state = "EXITED", !.failed = TRUE, !.helper = FALSE]
  /\ UNCHANGED <<client, observer, host, report>>

\* What the host kept in memory is lost.  The server, and another process of
\* its group, may outlive the host.
Crash ==
  /\ host.pc \in Awaits
  /\ host' = [host EXCEPT !.pc = "CRASHED", !.connected = FALSE, !.thread = None,
                          !.wake = None, !.event = "NONE"]
  /\ client' = NoClient /\ observer' = NewObserver
  /\ \E survives \in (IF server.state = "EXITED" THEN {FALSE} ELSE BOOLEAN), helper \in BOOLEAN :
       server' = [server EXCEPT !.state = IF survives THEN "RUNNING" ELSE "EXITED", !.helper = helper,
                                   !.stray = 0]
  /\ UNCHANGED report

\* After a crash the processes leave when they like.
ProcessesLeave ==
  /\ host.pc \in {"CRASHED", "TERM_WAIT", "KILL_WAIT"}
  /\ \/ server.state = "RUNNING" /\ server' = [server EXCEPT !.state = "EXITED"]
     \/ server.helper /\ server' = [server EXCEPT !.helper = FALSE]
  /\ UNCHANGED <<client, observer, host, report>>

\* A number is given away again only when no process of its group is left,
\* and not within the few milliseconds in which the next host looks at it.
NumberReused ==
  /\ host.pc = "CRASHED"
  /\ server.state = "EXITED" /\ ~server.helper /\ ~server.reused
  /\ server' = [server EXCEPT !.reused = TRUE]
  /\ UNCHANGED <<client, observer, host, report>>

Concluded(disposition) == host' = [host EXCEPT !.pc = "RECOVERED", !.disposition = disposition]

\* The next host looks at the recorded process and tells it to terminate.
Reconcile ==
  /\ host.pc = "CRASHED"
  /\ IF report.stage = "AUTHORIZED" THEN Concluded("NOT_RECORDED") /\ UNCHANGED client
     ELSE IF Inspect(server) # "SIGNAL" THEN Concluded(Inspect(server)) /\ UNCHANGED client
     ELSE \/ Concluded("TERMINATION_FAILED") /\ UNCHANGED client
          \/ /\ client' = Signalled(client, "TERM")
             /\ host' = [host EXCEPT !.pc = "TERM_WAIT"]
  /\ UNCHANGED <<server, observer, report>>

\* Mutant: the leader is gone, so the group is taken to be gone.
SeesLeaderGone ==
  /\ host.pc \in {"TERM_WAIT", "KILL_WAIT"} /\ ~LeaderExists(server)
  /\ Concluded("TERMINATED")
  /\ UNCHANGED <<client, server, observer, report>>

SeesProcessGone ==
  /\ host.pc \in {"TERM_WAIT", "KILL_WAIT"} /\ OwnedProcessGone(server)
  /\ Concluded("TERMINATED")
  /\ UNCHANGED <<client, server, observer, report>>

\* A wait is over, or the processes cannot be looked at.
ReconcileTimeout ==
  /\ \/ /\ host.pc = "TERM_WAIT" /\ client' = Signalled(client, "KILL")
        /\ host' = [host EXCEPT !.pc = "KILL_WAIT"]
     \/ /\ host.pc \in {"TERM_WAIT", "KILL_WAIT"} /\ Concluded("TERMINATION_FAILED")
        /\ UNCHANGED client
  /\ UNCHANGED <<server, observer, report>>

Next ==
  \/ HostStep \/ SpawnOutcome \/ Abort \/ RequestTimeout \/ TurnTimeout \/ ShutdownTimeout
  \/ RefusalSent \/ OutputEnds \/ Close \/ Reply \/ Garbage \/ ServerNotifies \/ ServerRequests
  \/ ProcessesLeave \/ Killed \/ Crash \/ NumberReused
  \/ Reconcile \/ SeesProcessGone \/ ReconcileTimeout

\* The host's own steps and its timers come; nothing is asked of the server.
Fairness ==
  /\ WF_vars(HostStep) /\ WF_vars(SpawnOutcome)
  /\ WF_vars(RequestTimeout) /\ WF_vars(TurnTimeout) /\ WF_vars(ShutdownTimeout)
  /\ WF_vars(Reconcile) /\ WF_vars(ReconcileTimeout)

Spec == Init /\ [][Next]_vars /\ Fairness

-----------------------------------------------------------------------------
(* Properties *)

\* The types of the client, the observer, the host and the driver's record.
TypeOK ==
  /\ ClientTypeOK /\ observer \in Observer /\ host \in Host /\ report \in Report
  /\ Len(observer.messages) <= MaxAgentMessages

\* A result the driver accepts is of the Turn that was bound and reported, on
\* the bound Thread, with nothing recorded against it, neither before nor
\* after the Turn ended; its text is the first final message; its process left with success; a compaction happened
\* exactly when it was directed; and no result of a completed Turn is yielded that
\* the driver refuses for what the worker did (adapter.ts run, recordNotification).
ResultIsOwnTurn ==
  /\ report.result =>
       /\ host.yielded /\ ~host.aborted
       /\ observer.terminal # None
       /\ observer.terminal.thread = report.session /\ observer.session = report.session
       /\ observer.terminal.turn = report.operation /\ observer.operation = report.operation
       /\ IF observer.terminal.status = "completed"
          THEN /\ observer.failure = None
               /\ observer.threads = {report.session} /\ observer.turns = {report.operation}
               /\ \E i \in 1..Len(observer.messages) :
                    /\ observer.messages[i] = observer.terminal.item
                    /\ \A j \in 1..(i - 1) : observer.messages[j] \notin Final
          ELSE observer.failure = "BACKEND_TURN_FAILED"
       /\ client.closed /\ client.failure = None /\ ~server.failed
       /\ observer.compactions = (IF host.directive.manual THEN 1 ELSE 0)
       /\ observer.open = {} /\ report.operation # observer.maintTurn
  /\ host.yielded /\ observer.state = "COMPLETED" => report.refused # "DRIVER"

\* A process the host talks to is in the driver's record, so the next host can
\* find it.  When the run is over the server is gone, or every wait for it
\* expired and SIGKILL was sent; and when the next host says that the process
\* is absent or terminated, neither it nor any process of its group is left
\* (client.ts shutdown, process-ownership.ts reconcileAppServerProcess).
LeavesNoProcess ==
  /\ client.ready => report.stage # "AUTHORIZED"
  /\ host.pc = "ENDED" /\ server.state = "RUNNING" =>
       client.stage = "EXPIRED" /\ client.signal = "KILL"
  /\ host.disposition \in {"ABSENT", "TERMINATED"} => OwnedProcessGone(server)

\* The host never has two requests in flight: it sends one when the last was
\* answered.  It asks for the Turn of a manual compaction only when the server
\* accepted the compaction and saw it through, in either order, and the observer
\* counted it (client.ts compactThread, adapter.ts 1171-1179).
RequestDue ==
  client'.pending \notin {None, client.pending} =>
    /\ client.pending \in {None, "spawn"}
    /\ client'.pending = "turn/start" /\ host.directive.manual =>
         /\ AcceptedOutcome(client.outcome) /\ AcceptedOutcome(client.compacted)
         /\ observer.compactions = 1 /\ observer.open = {}
RequestsAwaited == [][RequestDue]_vars

\* Every run ends, whatever the server does, even when it says nothing or does
\* not leave: what is in flight is settled by a reply, by a failure or by a
\* timer, and the shutdown by its waits (client.ts #fail, shutdown; adapter.ts
\* waitForTerminal).
TurnEnds == <>(host.pc \in Over)

\* The adapter, its client and the driver's checks implement the stream of
\* boundaries that the driver relies on.
WorkerProcess == CASE server.state = "NONE" -> "NONE"
                   [] server.state \in {"STARTING", "RUNNING"} -> "ALIVE"
                   [] server.state = "EXITED" -> "GONE"
WorkerStage == IF report.refused # "NO" THEN "REFUSED" ELSE report.stage
Worker == INSTANCE WorkerStream WITH
  process <- WorkerProcess, stage <- WorkerStage,
  result <- report.result, aborted <- host.aborted
ImplementsWorker == Worker!Spec
=============================================================================
