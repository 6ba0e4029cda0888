---------------------------- MODULE CodexTurnProofs ----------------------------
(* Theorems about CodexTurn for any number of identities, items and messages. *)
EXTENDS CodexTurn, TLAPS

USE ClientAssumption, DirectivesAssumption, NoneIsNoObservation

-----------------------------------------------------------------------------
(* The inductive invariant, on a client c, a server s, an observer o, a run h *)
(* and a record r: the client and the processes                              *)

(* A request that was sent, or answered, is of a process in the driver's record. *)
Recorded(c, r) ==
  c.ready \/ c.pending \notin {None, "spawn"} \/ (c.outcome # None /\ c.outcome.ok) =>
    r.stage # "AUTHORIZED"

(* The client is stopped by a cancellation only when the driver asked for one. *)
CancelledByHost(c, h) ==
  c.failure = "HOST_CANCELLED" \/ c.outcome = Rejected("HOST_CANCELLED") => h.aborted

Killing(c) == c.stage \in {"KILL", "EXPIRED"} => c.signal = "KILL"

(* Until its shutdown begins, a client that did not fail takes requests, and *)
(* the answer to the Turn's request names a Turn.  Nothing is in flight once *)
(* the request the run waits for was answered, nor during the Turn.          *)
Asking(c, h) ==
  /\ h.pc \in Awaits \ {"SHUTDOWN"} => ~c.stopping /\ c.stage = "NONE"
  /\ h.pc \in Awaits \ {"INIT", "SHUTDOWN"} /\ c.failure = None /\ ~c.closed => c.ready
  /\ h.pc = "TURN" /\ c.failure = None /\ ~c.closed => c.pending \in {None, "turn/start"}
  /\ h.pc \in Awaits \ {"SHUTDOWN"} /\ c.outcome # None => c.pending = None
  /\ h.pc = "WAIT" => c.pending = None
  /\ h.pc = "TURN" /\ c.outcome # None /\ c.outcome.ok => c.outcome.value \in Turns

Talk(c, h, r) ==
  Recorded(c, r) /\ CancelledByHost(c, h) /\ Killing(c) /\ Asking(c, h)

Spawning(c, o, h, r) ==
  h.pc = "INIT" /\ c = Constructed /\ o.launches = 0 /\ r.stage = "AUTHORIZED"

Searching == {"CRASHED", "TERM_WAIT", "KILL_WAIT"}

(* The process, its group and its number. *)
Processes(c, s, o, h, r) ==
  /\ s.state = "NONE" <=> h.pc = "IDLE" \/ (h.pc = "ENDED" /\ c = NoClient)
  /\ s.state = "STARTING" => Spawning(c, o, h, r)
  /\ c.closed => s.state = "EXITED"
  /\ h.pc = "ENDED" => c = NoClient \/ c.closed \/ c.stage = "EXPIRED"
  /\ h.pc \in Searching \union {"RECOVERED"} => ~c.ready
  /\ s.helper \/ s.reused => h.pc \in Searching \union {"RECOVERED"}
  /\ s.reused => s.state = "EXITED" /\ ~s.helper
  /\ h.disposition # None => h.pc = "RECOVERED"
  /\ h.disposition \in {"ABSENT", "TERMINATED"} => OwnedProcessGone(s)

-----------------------------------------------------------------------------
(* The inductive invariant: the observer and the run *)

(* How a run failed agrees with how it ended, and a Turn's end is a Turn's end. *)
Flagged(o, h) ==
  /\ o.failure # None <=> o.state \in {"FAILED", "INTERRUPTED"}
  /\ o.failure = "HOST_CANCELLED" <=> o.state = "INTERRUPTED"
  /\ o.state = "INTERRUPTED" => h.aborted
  /\ o.first = "POLICY_FAILURE" => o.failure # None
  /\ o.first = "TERMINAL" => o.terminal # None
  /\ o.terminal # None => o.terminal.method = "turn/completed"

(* While nothing failed, every Thread and Turn the server named is the bound *)
(* one, and those of the Turn's end are among them.                          *)
Bound(o) ==
  /\ o.failure = None /\ o.session # None => o.threads \subseteq {o.session}
  /\ o.failure = None /\ o.operation # None => o.turns \subseteq {o.operation}
Witnessed(o) ==
  o.failure = None /\ o.terminal # None =>
    o.terminal.thread \in o.threads /\ o.terminal.turn \in o.turns

(* What the directive does not allow did not happen, or was noticed. *)
Compacted(o, d) ==
  ~d.manual => ~o.manual /\ o.open = {} /\ (o.failure = None => o.compactions = 0)

Observed(o, h) ==
  Flagged(o, h) /\ Bound(o) /\ Witnessed(o) /\ Compacted(o, h.directive)

(* The compaction is over, once and for all. *)
Sealed(o, d) == ~o.manual /\ o.open = {} /\ (d.manual => o.compactions = 1)

(* The Turn that is reported running is the bound one. *)
Attached(o, r) ==
  /\ r.refused = "NO" /\ r.stage = "OPERATION_RUNNING"
  /\ r.session = o.session /\ o.session # None
  /\ r.operation = o.operation /\ o.operation # None /\ o.operation # o.maintTurn
  /\ o.launches = 1

(* The summary of the Turn is a message before which no final message came. *)
FirstFinal(o) ==
  \E i \in 1..Len(o.messages) :
    /\ o.messages[i] = o.terminal.item
    /\ \A j \in 1..(i - 1) : o.messages[j] \notin Final

(* The event that waits for the shutdown is of the bound Turn. *)
Waiting(o, event) ==
  /\ o.interrupts = 0 /\ o.terminal # None
  /\ o.terminal.thread = o.session /\ o.terminal.turn = o.operation
  /\ event = "RESULT" =>
       /\ o.terminal.status = "completed" /\ o.failure # "BACKEND_TURN_FAILED"
       /\ o.failure = None => FirstFinal(o)
  /\ event = "FAILURE" => o.terminal.status = "failed" /\ o.failure # None

OpenStages == {"AUTHORIZED", "PROCESS_OBSERVED", "SESSION_OBSERVED", "OPERATION_RUNNING"}

(* How far a run has come. *)
Running(o, h, r) ==
  /\ r.stage \in OpenStages /\ o.state \in {"RUNNING", "FAILED", "INTERRUPTED"} /\ ~o.result
  /\ r.stage # "AUTHORIZED" => o.launches = 1
  /\ h.pc \notin {"INTERRUPT", "SHUTDOWN"} => o.interrupts = 0
  /\ h.pc = "POST_CONFIG" => h.thread # None
  /\ h.pc \in {"COMPACT", "TURN"} => o.session # None
  /\ h.pc \in {"TURN", "WAIT", "INTERRUPT"} \/ h.event # "NONE" => Sealed(o, h.directive)
  /\ h.pc \in {"WAIT", "INTERRUPT"} \/ h.event # "NONE" => Attached(o, r)
  /\ h.event # "NONE" => Waiting(o, h.event)
  /\ o.failure = "BACKEND_TURN_FAILED" => h.event = "FAILURE"

Placed(c, s, o, h, r) ==
  /\ h.pc = "IDLE" => /\ c = NoClient /\ s = NoServer /\ o = NewObserver
                      /\ r.stage = "AUTHORIZED" /\ r.refused = "NO"
  /\ h.pc \in Awaits => Running(o, h, r)
  /\ h.pc \notin {"SHUTDOWN", "ENDED"} => h.event = "NONE"
  /\ h.pc # "ENDED" => ~h.yielded /\ ~r.result
  /\ h.wake = "ABORT" => h.aborted

(* Every result the driver accepts, and every one it refuses, comes at the end. *)
Inv ==
  /\ TypeOK
  /\ Talk(client, host, report)
  /\ Processes(client, server, observer, host, report)
  /\ Observed(observer, host)
  /\ Placed(client, server, observer, host, report)
  /\ ResultIsOwnTurn

-----------------------------------------------------------------------------
(* The client's operators *)

(* A client after a failure with the given code, or as it was. *)
Disturbed(c, f, code) ==
  /\ f.closed = c.closed /\ f.stage = c.stage /\ f.stopping = c.stopping
  /\ f.ready => c.ready
  /\ \/ f.pending = c.pending /\ f.outcome = c.outcome
     \/ f.pending = None /\ f.outcome = Rejected(code)
  /\ f.failure \in {c.failure, code}
  /\ f.failure = None => f.ready = c.ready
  /\ c.signal = "KILL" => f.signal = "KILL"

LEMMA SettleType ==
  ASSUME NEW c \in Client, NEW outcome \in Outcome \union {None}
  PROVE  Settle(c, outcome) \in Client
BY DEF Settle, Client

LEMMA SignalledType ==
  ASSUME NEW c \in Client, NEW signal \in {"TERM", "KILL"}
  PROVE  /\ Signalled(c, signal) \in Client
         /\ c.signal = "KILL" => Signalled(c, signal).signal = "KILL"
         /\ Signalled(c, "KILL").signal = "KILL"
BY DEF Signalled, Client

LEMMA RejectedType == ASSUME NEW code \in Codes PROVE Rejected(code) \in Outcome
BY DEF Rejected, Outcome

LEMMA AnsweredType ==
  ASSUME NEW value \in Values
  PROVE  Answered(value) \in Outcome /\ Answered(value).ok /\ Answered(value).value = value
BY DEF Answered, Outcome

(* What was in flight is rejected; nothing else changes. *)
LEMMA RejectPendingEffect ==
  ASSUME NEW c \in Client, NEW code \in Codes
  PROVE  /\ RejectPending(c, code) \in Client
         /\ Disturbed(c, RejectPending(c, code), code)
         /\ RejectPending(c, code).pending = None
         /\ RejectPending(c, code).failure = c.failure
         /\ RejectPending(c, code).ready = c.ready
         /\ RejectPending(c, code).signal = c.signal
<1>1. Rejected(code) \in Outcome  BY RejectedType
<1>2. CASE c.pending = None
  BY <1>2 DEF RejectPending, Disturbed, Client
<1>3. CASE c.pending # None
  <2> DEFINE f == Settle(c, Rejected(code))
  <2>1. RejectPending(c, code) = f  BY <1>3 DEF RejectPending
  <2>2. f \in Client  BY <1>1, SettleType
  <2>3. /\ f.pending = None /\ f.outcome = Rejected(code) /\ f.closed = c.closed
        /\ f.stage = c.stage /\ f.stopping = c.stopping /\ f.ready = c.ready
        /\ f.failure = c.failure /\ f.signal = c.signal
    BY DEF Settle, Client
  <2> QED BY <2>1, <2>2, <2>3 DEF Disturbed
<1> QED BY <1>2, <1>3

LEMMA RejectCompactionsEffect ==
  ASSUME NEW c \in Client, NEW code \in Codes
  PROVE  /\ RejectCompactions(c, code) \in Client
         /\ Disturbed(c, RejectCompactions(c, code), code)
         /\ RejectCompactions(c, code).outcome = c.outcome
         /\ RejectCompactions(c, code).pending = c.pending
         /\ RejectCompactions(c, code).failure = c.failure
         /\ RejectCompactions(c, code).ready = c.ready
<1>1. Rejected(code) \in Outcome  BY RejectedType
<1> QED BY <1>1 DEF RejectCompactions, Disturbed, Client

LEMMA FailEffect ==
  ASSUME NEW c \in Client, NEW code \in Codes
  PROVE  /\ Fail(c, code) \in Client
         /\ Disturbed(c, Fail(c, code), code)
<1>1. CASE c.failure # None \/ c.closed
  BY <1>1 DEF Fail, Disturbed
<1>2. CASE ~(c.failure # None \/ c.closed)
  <2> DEFINE a == [c EXCEPT !.failure = code, !.ready = FALSE]
             b == RejectPending(a, code)
             e == RejectCompactions(b, code)
  <2>1. a \in Client  BY DEF Client
  <2>2. /\ b \in Client /\ Disturbed(a, b, code) /\ b.pending = None
        /\ b.failure = a.failure /\ b.ready = a.ready /\ b.signal = a.signal
    BY <2>1, RejectPendingEffect
  <2>3. /\ e \in Client /\ Disturbed(b, e, code) /\ e.outcome = b.outcome
        /\ e.pending = b.pending /\ e.failure = b.failure /\ e.ready = b.ready
    BY <2>2, RejectCompactionsEffect
  <2>4. Fail(c, code) = Signalled(e, "TERM")  BY <1>2 DEF Fail
  <2>5. Fail(c, code) \in Client  BY <2>3, <2>4, SignalledType
  <2>6. /\ a.failure = code /\ ~a.ready /\ a.closed = c.closed /\ a.stage = c.stage
        /\ a.stopping = c.stopping /\ a.pending = c.pending /\ a.outcome = c.outcome
        /\ a.signal = c.signal
    BY DEF Client
  <2> HIDE DEF a, e, b
  <2>7. /\ b.failure = code /\ ~b.ready /\ b.closed = c.closed /\ b.stage = c.stage
        /\ b.stopping = c.stopping /\ b.pending = None
        /\ (b.pending = c.pending /\ b.outcome = c.outcome) \/ b.outcome = Rejected(code)
        /\ b.signal = c.signal
    BY <2>2, <2>6 DEF Disturbed
  <2>8. /\ Signalled(e, "TERM").closed = e.closed /\ Signalled(e, "TERM").stage = e.stage
        /\ Signalled(e, "TERM").stopping = e.stopping /\ Signalled(e, "TERM").ready = e.ready
        /\ Signalled(e, "TERM").pending = e.pending /\ Signalled(e, "TERM").outcome = e.outcome
        /\ Signalled(e, "TERM").failure = e.failure
        /\ e.signal = "KILL" => Signalled(e, "TERM").signal = "KILL"
    BY <2>3 DEF Signalled, Client
  <2> QED BY <2>3, <2>4, <2>5, <2>7, <2>8 DEF Disturbed, Codes
<1> QED BY <1>1, <1>2

(* A client that was asked for the method, or that refused to be. *)
Asked(c, f, method, aborted) ==
  /\ f.closed = c.closed /\ f.stage = c.stage /\ f.stopping = c.stopping /\ f.ready = c.ready
  /\ f.failure = c.failure /\ f.signal = c.signal
  /\ \/ f.pending = method /\ f.outcome = None /\ c.ready
     \/ /\ f.pending = c.pending
        /\ ~c.ready \/ c.stopping \/ c.closed \/ c.failure # None \/ aborted
        /\ \/ f.outcome = Rejected("SHUTDOWN")
           \/ f.outcome = Rejected("HOST_CANCELLED") /\ aborted

LEMMA RequestEffect ==
  ASSUME NEW c \in Client, NEW method \in Methods, NEW aborted \in BOOLEAN
  PROVE  /\ Request(c, method) \in Client
         /\ Asked(c, Request(c, method), method, FALSE)
         /\ CancellableRequest(c, method, aborted) \in Client
         /\ Asked(c, CancellableRequest(c, method, aborted), method, aborted)
<1>1. Rejected("SHUTDOWN") \in Outcome /\ Rejected("HOST_CANCELLED") \in Outcome
  BY RejectedType DEF Codes
<1>2. Request(c, method) \in Client /\ Asked(c, Request(c, method), method, FALSE)
  BY <1>1 DEF Request, Asked, Client
<1>3. CASE c.ready /\ ~c.stopping /\ ~c.closed /\ aborted
  BY <1>1, <1>2, <1>3 DEF CancellableRequest, Asked, Client
<1>4. CASE ~(c.ready /\ ~c.stopping /\ ~c.closed /\ aborted)
  BY <1>2, <1>4 DEF CancellableRequest, Asked
<1> QED BY <1>3, <1>4

(* The host took its outcome: a client that may be asked again. *)
Same(c, f) ==
  /\ f.closed = c.closed /\ f.stage = c.stage /\ f.stopping = c.stopping /\ f.ready = c.ready
  /\ f.failure = c.failure /\ f.signal = c.signal /\ f.pending = c.pending

LEMMA TakenEffect ==
  ASSUME NEW c \in Client
  PROVE  Taken(c) \in Client /\ Same(c, Taken(c)) /\ Taken(c).outcome = None
BY DEF Taken, Same, Client

LEMMA CompactionRefusedEffect ==
  ASSUME NEW c \in Client
  PROVE  /\ CompactionRefused(c) \in Client /\ Same(c, CompactionRefused(c))
         /\ CompactionRefused(c).outcome = c.outcome
BY DEF CompactionRefused, Same, Client

LEMMA CompactThreadEffect ==
  ASSUME NEW c \in Client, NEW thread \in Threads
  PROVE  /\ CompactThread(c, thread) \in Client
         /\ Asked(c, CompactThread(c, thread), "thread/compact/start", FALSE)
<1> DEFINE t == [thread |-> thread, item |-> None, turn |-> None,
                 itemDone |-> FALSE, turnDone |-> FALSE]
           tracked == [c EXCEPT !.compacted = None, !.tracker = t]
           asked == Request(tracked, "thread/compact/start")
<1>1. t \in Tracker  BY DEF Tracker
<1>2. tracked \in Client /\ Same(c, tracked) /\ tracked.outcome = c.outcome
  <2> HIDE DEF t
  <2> QED BY <1>1 DEF Same, Client
<1>3. "thread/compact/start" \in Methods  BY DEF Methods
<1> HIDE DEF tracked
<1>4. asked \in Client /\ Asked(tracked, asked, "thread/compact/start", FALSE)
  BY <1>2, <1>3, RequestEffect
<1>5. CompactThread(c, thread) = IF asked.pending = None THEN [asked EXCEPT !.tracker = None]
                                 ELSE asked
  BY DEF CompactThread, tracked
<1> HIDE DEF asked
<1>6. [asked EXCEPT !.tracker = None] \in Client /\ Same(asked, [asked EXCEPT !.tracker = None])
        /\ [asked EXCEPT !.tracker = None].outcome = asked.outcome
  BY <1>4 DEF Same, Client
<1> QED BY <1>2, <1>4, <1>5, <1>6 DEF Same, Asked

(* A client in shutdown, or one whose process was closed before. *)
Closing(c, f) ==
  /\ f.closed = c.closed /\ f.failure = c.failure /\ f.signal = c.signal
  /\ f.ready => c.ready
  /\ \/ f.pending = c.pending /\ f.outcome = c.outcome
     \/ f.pending = None /\ f.outcome = Rejected("SHUTDOWN")
  /\ f.stage \in {c.stage, "GRACE"} /\ (c.closed \/ f.stage # "NONE")

LEMMA ShutdownEffect ==
  ASSUME NEW c \in Client
  PROVE  Shutdown(c) \in Client /\ Closing(c, Shutdown(c))
<1>1. CASE c.closed
  BY <1>1 DEF Shutdown, Closing
<1>2. CASE ~c.closed
  <2> DEFINE a == [c EXCEPT !.stopping = TRUE, !.ready = FALSE, !.stage = "GRACE"]
             b == RejectPending(a, "SHUTDOWN")
             e == RejectCompactions(b, "SHUTDOWN")
  <2>1. /\ a \in Client /\ a.closed = c.closed /\ a.failure = c.failure /\ a.signal = c.signal
        /\ ~a.ready /\ a.pending = c.pending /\ a.outcome = c.outcome /\ a.stage = "GRACE"
    BY DEF Client
  <2>2. "SHUTDOWN" \in Codes  BY DEF Codes
  <2>3. Shutdown(c) = e  BY <1>2 DEF Shutdown
  <2> HIDE DEF a
  <2>4. /\ b \in Client /\ Disturbed(a, b, "SHUTDOWN")
        /\ b.failure = a.failure /\ b.ready = a.ready /\ b.signal = a.signal
    BY <2>1, <2>2, RejectPendingEffect
  <2> HIDE DEF b
  <2>5. /\ e \in Client /\ Disturbed(b, e, "SHUTDOWN") /\ e.outcome = b.outcome
        /\ e.pending = b.pending /\ e.failure = b.failure /\ e.ready = b.ready
    BY <2>2, <2>4, RejectCompactionsEffect
  <2>6. e.signal = b.signal
    BY <2>4 DEF e, RejectCompactions, Client
  <2> QED BY <2>1, <2>3, <2>4, <2>5, <2>6, <1>2 DEF Disturbed, Closing
<1> QED BY <1>1, <1>2

LEMMA SpawnedEffect ==
  ASSUME NEW admitted \in BOOLEAN
  PROVE  /\ Spawned(Constructed, admitted) \in Client
         /\ ~Spawned(Constructed, admitted).ready /\ ~Spawned(Constructed, admitted).closed
         /\ ~Spawned(Constructed, admitted).stopping
         /\ Spawned(Constructed, admitted).stage = "NONE"
         /\ Spawned(Constructed, admitted).failure \in {None, "FAILED"}
         /\ \/ /\ Spawned(Constructed, admitted).pending = "initialize" /\ admitted
               /\ Spawned(Constructed, admitted).outcome = None
            \/ /\ Spawned(Constructed, admitted).pending = None
               /\ Spawned(Constructed, admitted).outcome = Rejected("FAILED")
<1> DEFINE c == Constructed
<1>1. /\ c \in Client /\ ~c.ready /\ ~c.closed /\ ~c.stopping /\ c.stage = "NONE"
      /\ c.failure = None /\ c.outcome = None /\ c.pending = "spawn"
  BY DEF Constructed, NoClient, Client, Methods
<1>2. "FAILED" \in Codes /\ "initialize" \in Methods  BY DEF Codes, Methods
<1> HIDE DEF c
<1>3. CASE ~admitted
  <2>1. Spawned(c, admitted) = Fail(c, "FAILED")  BY <1>3 DEF Spawned
  <2>2. Fail(c, "FAILED") \in Client /\ Disturbed(c, Fail(c, "FAILED"), "FAILED")
    BY <1>1, <1>2, FailEffect
  <2>3. Fail(c, "FAILED").pending = None
    <3> DEFINE a == [c EXCEPT !.failure = "FAILED", !.ready = FALSE]
               b == RejectPending(a, "FAILED")
               e == RejectCompactions(b, "FAILED")
    <3>1. a \in Client  BY <1>1, <1>2 DEF Client
    <3> HIDE DEF a
    <3>2. b \in Client /\ b.pending = None  BY <3>1, <1>2, RejectPendingEffect
    <3> HIDE DEF b
    <3>3. e \in Client /\ e.pending = None  BY <3>2, <1>2, RejectCompactionsEffect
    <3> HIDE DEF e
    <3>4. Signalled(e, "TERM").pending = None  BY <3>3 DEF Signalled, Client
    <3>5. Fail(c, "FAILED") = Signalled(e, "TERM")  BY <1>1 DEF Fail, e, b, a
    <3> QED BY <3>4, <3>5
  <2>4. "spawn" # None  BY DEF Methods
  <2> QED BY <1>1, <2>1, <2>2, <2>3, <2>4 DEF Disturbed, c
<1>4. CASE admitted
  <2>1. Spawned(c, admitted) = [c EXCEPT !.pending = "initialize"]
    BY <1>1, <1>4 DEF Spawned
  <2> QED BY <1>1, <1>2, <1>4, <2>1 DEF Client, c
<1> QED BY <1>3, <1>4

(* initialize made the client ready, or it failed. *)
LEMMA InitializedEffect ==
  ASSUME NEW c \in Client
  PROVE  /\ Initialized(c) \in Client
         /\ \/ Disturbed(c, Initialized(c), "FAILED")
            \/ /\ c.outcome.ok /\ c.failure = None /\ ~c.closed
               /\ Same([c EXCEPT !.ready = TRUE], Initialized(c))
               /\ Initialized(c).outcome = c.outcome
<1>1. "FAILED" \in Codes  BY DEF Codes
<1>2. [c EXCEPT !.ready = TRUE] \in Client /\ [c EXCEPT !.ready = TRUE].outcome = c.outcome
  BY DEF Client
<1>3. CASE c.outcome.ok /\ c.failure = None /\ ~c.closed
  <2>1. Initialized(c) = [c EXCEPT !.ready = TRUE]  BY <1>3 DEF Initialized
  <2> QED BY <1>2, <1>3, <2>1 DEF Same
<1>4. CASE ~(c.outcome.ok /\ c.failure = None /\ ~c.closed)
  <2>1. Initialized(c) = Fail(c, "FAILED")  BY <1>4 DEF Initialized
  <2> QED BY <1>1, <2>1, FailEffect
<1> QED BY <1>3, <1>4

LEMMA ShutdownTimerEffect ==
  ASSUME NEW c \in Client, c.stage \in {"GRACE", "TERM", "KILL"}, Killing(c)
  PROVE  LET f == ShutdownTimer(c) IN
         /\ f \in Client /\ Killing(f)
         /\ f.closed = c.closed /\ f.ready = c.ready /\ f.pending = c.pending
         /\ f.outcome = c.outcome /\ f.failure \in {c.failure, "FAILED"}
         /\ f.stage \in {"TERM", "KILL", "EXPIRED"}
<1>1. CASE c.stage = "GRACE"
  <2>1. ShutdownTimer(c) = Signalled([c EXCEPT !.stage = "TERM"], "TERM")
    BY <1>1 DEF ShutdownTimer
  <2> QED BY <1>1, <2>1 DEF Signalled, Client, Killing
<1>2. CASE c.stage = "TERM"
  <2>1. ShutdownTimer(c) = Signalled([c EXCEPT !.stage = "KILL"], "KILL")
    BY <1>2 DEF ShutdownTimer
  <2> QED BY <1>2, <2>1 DEF Signalled, Client, Killing
<1>3. CASE c.stage = "KILL"
  <2>1. ShutdownTimer(c) = [c EXCEPT !.stage = "EXPIRED",
                                     !.failure = IF @ = None THEN "FAILED" ELSE @]
    BY <1>3 DEF ShutdownTimer
  <2> QED BY <1>3, <2>1 DEF Client, Codes, Killing
<1> QED BY <1>1, <1>2, <1>3

(* The request in flight is settled by what the server replied. *)
Responded(c, f, body) ==
  /\ f.closed = c.closed /\ f.stage = c.stage /\ f.stopping = c.stopping
  /\ f.ready => c.ready
  /\ f.pending = None
  /\ \/ f.outcome = Answered(body) /\ body \in Values
     \/ f.outcome \in {Rejected("REQUEST_REJECTED"), Rejected("FAILED")}
  /\ f.failure \in {c.failure, "FAILED"}
  /\ f.failure = None => f.ready = c.ready
  /\ c.signal = "KILL" => f.signal = "KILL"

LEMMA ReceiveResponseEffect ==
  ASSUME NEW c \in Client, NEW body \in Values \union {"ERROR", "MALFORMED"}
  PROVE  ReceiveResponse(c, body) \in Client /\ Responded(c, ReceiveResponse(c, body), body)
<1>1. CASE body \in Values
  <2> DEFINE a == Settle(c, Answered(body))
  <2>1. ReceiveResponse(c, body) = [a EXCEPT !.handshake = @ \/ c.pending = "initialize"]
    BY <1>1 DEF ReceiveResponse
  <2>2. a \in Client  BY <1>1, AnsweredType, SettleType
  <2>3. /\ a.closed = c.closed /\ a.stage = c.stage /\ a.stopping = c.stopping
        /\ a.ready = c.ready /\ a.pending = None /\ a.outcome = Answered(body)
        /\ a.failure = c.failure /\ a.signal = c.signal
    BY DEF Settle, Client
  <2> HIDE DEF a
  <2>4. PICK h \in BOOLEAN : ReceiveResponse(c, body) = [a EXCEPT !.handshake = h]
    <3>1. (a.handshake \/ c.pending = "initialize") \in BOOLEAN  OBVIOUS
    <3> QED BY <2>1, <3>1 DEF Client
  <2> QED BY <1>1, <2>2, <2>3, <2>4 DEF Responded, Client
<1>2. CASE body = "ERROR"
  <2>1. ReceiveResponse(c, body) = Settle(c, Rejected("REQUEST_REJECTED"))
    BY <1>2 DEF ReceiveResponse
  <2>2. Rejected("REQUEST_REJECTED") \in Outcome  BY RejectedType DEF Codes
  <2> QED BY <2>1, <2>2 DEF Settle, Responded, Client
<1>3. CASE body = "MALFORMED"
  <2> DEFINE a == Settle(c, Rejected("FAILED"))
  <2>1. ReceiveResponse(c, body) = Fail(a, "FAILED")  BY <1>3 DEF ReceiveResponse
  <2>2. "FAILED" \in Codes /\ Rejected("FAILED") \in Outcome  BY RejectedType DEF Codes
  <2>3. a \in Client  BY <2>2, SettleType
  <2>4. /\ a.closed = c.closed /\ a.stage = c.stage /\ a.stopping = c.stopping
        /\ a.ready = c.ready /\ a.pending = None /\ a.outcome = Rejected("FAILED")
        /\ a.failure = c.failure /\ a.signal = c.signal
    BY DEF Settle, Client
  <2> HIDE DEF a
  <2>5. Fail(a, "FAILED") \in Client /\ Disturbed(a, Fail(a, "FAILED"), "FAILED")
    BY <2>2, <2>3, FailEffect
  <2> QED BY <2>1, <2>4, <2>5 DEF Responded, Disturbed
<1> QED BY <1>1, <1>2, <1>3

LEMMA ProcessExitedEffect ==
  ASSUME NEW c \in Client, ~c.closed
  PROVE  LET f == ProcessExited(c) IN
         /\ f \in Client /\ f.closed /\ ~f.ready /\ f.stage = c.stage /\ f.stopping = c.stopping
         /\ f.signal = c.signal
         /\ f.failure = c.failure \/ f.failure = "FAILED"
         /\ ~c.stopping => f.failure # None
         /\ \/ f.pending = c.pending /\ f.outcome = c.outcome
            \/ f.pending = None /\ f.outcome = Rejected("FAILED")
<1> DEFINE a == [c EXCEPT !.closed = TRUE, !.ready = FALSE]
           b == [a EXCEPT !.failure = "FAILED"]
           e == RejectPending(b, "FAILED")
           g == RejectCompactions(e, "FAILED")
<1>1. "FAILED" \in Codes /\ None \notin Codes  BY DEF Codes
<1>2. CASE ~c.stopping /\ c.failure = None
  <2>1. ProcessExited(c) = g  BY <1>2 DEF ProcessExited
  <2>2. /\ b \in Client /\ b.closed /\ ~b.ready /\ b.stage = c.stage /\ b.stopping = c.stopping
        /\ b.signal = c.signal /\ b.failure = "FAILED" /\ b.pending = c.pending
        /\ b.outcome = c.outcome
    BY <1>1 DEF Client
  <2> HIDE DEF b
  <2>3. /\ e \in Client /\ Disturbed(b, e, "FAILED") /\ e.failure = b.failure
        /\ e.ready = b.ready /\ e.signal = b.signal
    BY <1>1, <2>2, RejectPendingEffect
  <2> HIDE DEF e
  <2>4. /\ g \in Client /\ Disturbed(e, g, "FAILED") /\ g.outcome = e.outcome
        /\ g.pending = e.pending /\ g.failure = e.failure /\ g.ready = e.ready
    BY <1>1, <2>3, RejectCompactionsEffect
  <2>5. g.signal = e.signal  BY <2>3 DEF g, RejectCompactions, Client
  <2> HIDE DEF g
  <2> QED BY <1>1, <2>1, <2>2, <2>3, <2>4, <2>5 DEF Disturbed
<1>3. CASE ~(~c.stopping /\ c.failure = None)
  <2>1. ProcessExited(c) = a  BY <1>3 DEF ProcessExited
  <2>2. /\ a \in Client /\ a.closed /\ ~a.ready /\ a.stage = c.stage /\ a.stopping = c.stopping
        /\ a.signal = c.signal /\ a.failure = c.failure /\ a.pending = c.pending
        /\ a.outcome = c.outcome
    BY DEF Client
  <2> HIDE DEF a
  <2> QED BY <1>3, <2>1, <2>2
<1> QED BY <1>2, <1>3

LEMMA StdoutEndedEffect ==
  ASSUME NEW c \in Client, NEW partial \in BOOLEAN
  PROVE  StdoutEnded(c, partial) \in Client /\ Disturbed(c, StdoutEnded(c, partial), "FAILED")
<1>1. "FAILED" \in Codes  BY DEF Codes
<1>2. Fail(c, "FAILED") \in Client /\ Disturbed(c, Fail(c, "FAILED"), "FAILED")
  BY <1>1, FailEffect
<1>3. Disturbed(c, c, "FAILED")  BY DEF Disturbed
<1>4. StdoutEnded(c, partial) = c \/ StdoutEnded(c, partial) = Fail(c, "FAILED")
  BY DEF StdoutEnded
<1> QED BY <1>2, <1>3, <1>4

-----------------------------------------------------------------------------
(* What the client makes of a notification *)

LEMMA NotificationFields ==
  ASSUME NEW n \in Notification
  PROVE  /\ n.method # "forbidden" => n.thread \in Threads
         /\ n.method \notin {"forbidden", "thread/started"} => n.turn \in Turns
BY DEF Notification

(* The event of an item, when there is one. *)
EventOf(e, n) ==
  /\ IsCompaction(n)
  /\ e.item = n.item /\ e.thread = n.thread /\ e.turn = n.turn /\ e.manual \in BOOLEAN
  /\ \/ e.stage = "STARTED" /\ n.method = "item/started"
     \/ e.stage = "COMPLETED" /\ n.method = "item/completed"

LEMMA CompactionEventType ==
  ASSUME NEW c \in Client, NEW n \in Notification, CompactionEvent(c, n) # None
  PROVE  /\ EventOf(CompactionEvent(c, n), n)
         /\ CompactionEvent(c, n).stage = "STARTED" /\ CompactionEvent(c, n).manual =>
              c.tracker # None
<1>1. IsCompaction(n)  BY DEF CompactionEvent
<1>2. CASE n.method = "item/started"
  <2>1. CompactionEvent(c, n) = [stage |-> "STARTED", item |-> n.item, thread |-> n.thread,
                                 turn |-> n.turn, manual |-> Tracks(c, n.thread)]
    BY <1>1, <1>2 DEF CompactionEvent
  <2>2. Tracks(c, n.thread) \in BOOLEAN /\ (Tracks(c, n.thread) => c.tracker # None)
    BY DEF Tracks
  <2>3. PICK t \in BOOLEAN : t = Tracks(c, n.thread)  BY <2>2
  <2>4. t => c.tracker # None  BY <2>2, <2>3
  <2>5. CompactionEvent(c, n) = [stage |-> "STARTED", item |-> n.item, thread |-> n.thread,
                                 turn |-> n.turn, manual |-> t]
    BY <2>1, <2>3
  <2>6. EventOf(CompactionEvent(c, n), n)  BY <1>1, <1>2, <2>5 DEF EventOf
  <2>7. CompactionEvent(c, n).manual = t  BY <2>5
  <2> QED BY <2>4, <2>6, <2>7
<1>3. CASE n.method # "item/started"
  <2>1. n.method = "item/completed"  BY <1>1, <1>3 DEF IsCompaction
  <2>2. CompactionEvent(c, n) = [stage |-> "COMPLETED", item |-> n.item, thread |-> n.thread,
                    turn |-> n.turn, manual |-> \E x \in Matching(c, n) : x.manual]
    BY <1>1, <1>3 DEF CompactionEvent
  <2>3. (\E x \in Matching(c, n) : x.manual) \in BOOLEAN  OBVIOUS
  <2> QED BY <1>1, <2>1, <2>2, <2>3 DEF EventOf
<1> QED BY <1>2, <1>3

(* A client that follows a compaction, as it was for its host. *)
Follows(c, f) ==
  f \in Client /\ Same(c, f) /\ f.outcome = c.outcome

LEMMA CompleteManualCompactionEffect ==
  ASSUME NEW c \in Client
  PROVE  Follows(c, CompleteManualCompaction(c))
<1>1. Answered("FITS") \in Outcome  BY AnsweredType DEF Values
<1>2. [c EXCEPT !.tracker = None, !.compacted = Answered("FITS")] \in Client
  BY <1>1 DEF Client
<1>3. Follows(c, [c EXCEPT !.tracker = None, !.compacted = Answered("FITS")])
  BY <1>2 DEF Follows, Same, Client
<1>4. Follows(c, c)  BY DEF Follows, Same
<1> QED BY <1>3, <1>4 DEF CompleteManualCompaction

LEMMA ObserveCompactionEffect ==
  ASSUME NEW c \in Client, NEW n \in Notification
  PROVE  /\ ObserveCompaction(c, n) \in Client
         /\ Disturbed(c, ObserveCompaction(c, n), "FAILED")
<1> DEFINE e == CompactionEvent(c, n)
           f == ObserveCompaction(c, n)
           done == [c EXCEPT !.tracker.turnDone = TRUE]
           begun == [c EXCEPT !.observed = @ \union {[item |-> e.item, thread |-> e.thread,
                                                      turn |-> e.turn, manual |-> e.manual]}]
           ended == [c EXCEPT !.observed = @ \ Matching(c, n)]
<1>1. ASSUME NEW a \in Client, Follows(c, a)
      PROVE  /\ Disturbed(c, a, "FAILED")
             /\ Fail(a, "FAILED") \in Client /\ Disturbed(c, Fail(a, "FAILED"), "FAILED")
  <2>1. "FAILED" \in Codes  BY DEF Codes
  <2>2. Fail(a, "FAILED") \in Client /\ Disturbed(a, Fail(a, "FAILED"), "FAILED")
    BY <2>1, FailEffect
  <2> QED BY <1>1, <2>2 DEF Disturbed, Follows, Same
<1>2. Follows(c, c)  BY DEF Follows, Same
<1>3. ASSUME NEW a \in Client, Follows(c, a)
      PROVE  /\ CompleteManualCompaction(a) \in Client
             /\ Follows(c, CompleteManualCompaction(a))
  BY <1>3, CompleteManualCompactionEffect DEF Follows, Same
<1>4. c.tracker # None => done \in Client /\ Follows(c, done)
  <2> HAVE c.tracker # None
  <2>1. c.tracker \in Tracker  BY DEF Client
  <2>2. [c.tracker EXCEPT !.turnDone = TRUE] \in Tracker  BY <2>1 DEF Tracker
  <2>3. done = [c EXCEPT !.tracker = [c.tracker EXCEPT !.turnDone = TRUE]]  OBVIOUS
  <2> QED BY <2>2, <2>3 DEF Follows, Same, Client
<1>5. ended \in Client /\ Follows(c, ended) /\ ended.tracker = c.tracker
  BY DEF Follows, Same, Client
<1>6. e # None => begun \in Client /\ Follows(c, begun) /\ begun.tracker = c.tracker
  <2> HAVE e # None
  <2>1. EventOf(e, n)  BY CompactionEventType
  <2>2. n.item \in Items /\ n.thread \in Threads /\ n.turn \in Turns
    BY <2>1, NotificationFields DEF EventOf, IsCompaction
  <2>3. [item |-> e.item, thread |-> e.thread, turn |-> e.turn, manual |-> e.manual] \in Compaction
    BY <2>1, <2>2 DEF EventOf, Compaction
  <2> HIDE DEF e
  <2> QED BY <2>3 DEF Follows, Same, Client
<1>7. e # None /\ e.stage = "STARTED" /\ e.manual =>
        LET b == [begun EXCEPT !.tracker.item = e.item, !.tracker.turn = e.turn] IN
        b \in Client /\ Follows(c, b)
  <2> HAVE e # None /\ e.stage = "STARTED" /\ e.manual
  <2>1. EventOf(e, n) /\ c.tracker # None  BY CompactionEventType
  <2>2. n.item \in Items /\ n.thread \in Threads /\ n.turn \in Turns
    BY <2>1, NotificationFields DEF EventOf, IsCompaction
  <2>3. e.item \in Items /\ e.turn \in Turns  BY <2>1, <2>2 DEF EventOf
  <2>4. c.tracker \in Tracker  BY <2>1 DEF Client
  <2>5. begun \in Client /\ Follows(c, begun) /\ begun.tracker \in Tracker  BY <1>6, <2>4
  <2> HIDE DEF e, begun
  <2>6. [begun.tracker EXCEPT !.item = e.item, !.turn = e.turn] \in Tracker
    BY <2>3, <2>5 DEF Tracker
  <2>7. [begun EXCEPT !.tracker.item = e.item, !.tracker.turn = e.turn]
          = [begun EXCEPT !.tracker = [begun.tracker EXCEPT !.item = e.item, !.turn = e.turn]]
    BY <2>5 DEF Client
  <2> QED BY <2>5, <2>6, <2>7 DEF Follows, Same, Client
<1>8. c.tracker # None =>
        LET b == [ended EXCEPT !.tracker.itemDone = TRUE] IN b \in Client /\ Follows(c, b)
  <2> HAVE c.tracker # None
  <2>1. ended.tracker \in Tracker  BY <1>5 DEF Client
  <2> HIDE DEF ended
  <2>2. [ended.tracker EXCEPT !.itemDone = TRUE] \in Tracker  BY <2>1 DEF Tracker
  <2>3. [ended EXCEPT !.tracker.itemDone = TRUE]
          = [ended EXCEPT !.tracker = [ended.tracker EXCEPT !.itemDone = TRUE]]
    OBVIOUS
  <2> QED BY <1>5, <2>2, <2>3 DEF Follows, Same, Client
<1>9. CASE n.method = "turn/completed" /\ Tracks(c, n.thread) /\ c.tracker.turn = n.turn
  <2>1. c.tracker # None  BY <1>9 DEF Tracks
  <2>2. f = IF c.tracker.turnDone THEN Fail(c, "FAILED") ELSE CompleteManualCompaction(done)
    BY <1>9 DEF ObserveCompaction, IsCompaction
  <2> HIDE DEF done
  <2> QED BY <1>1, <1>2, <1>3, <1>4, <2>1, <2>2
<1>10. CASE IsCompaction(n) /\ e = None
  <2>1. f = Fail(c, "FAILED")  BY <1>10 DEF ObserveCompaction, IsCompaction
  <2> QED BY <1>1, <1>2, <2>1
<1>11. CASE IsCompaction(n) /\ e # None /\ e.stage = "STARTED"
  <2>1. f = IF e.manual THEN [begun EXCEPT !.tracker.item = e.item, !.tracker.turn = e.turn]
            ELSE begun
    BY <1>11 DEF ObserveCompaction, IsCompaction
  <2> HIDE DEF begun, e
  <2> QED BY <1>1, <1>6, <1>7, <1>11, <2>1
<1>12. CASE IsCompaction(n) /\ e # None /\ e.stage = "COMPLETED"
  <2>1. f = IF ~e.manual THEN ended
            ELSE IF Tracks(c, n.thread) /\ c.tracker.item = n.item /\ c.tracker.turn = n.turn
            THEN CompleteManualCompaction([ended EXCEPT !.tracker.itemDone = TRUE])
            ELSE Fail(ended, "FAILED")
    BY <1>12 DEF ObserveCompaction, IsCompaction
  <2>2. Tracks(c, n.thread) => c.tracker # None  BY DEF Tracks
  <2> HIDE DEF ended, e
  <2> QED BY <1>1, <1>3, <1>5, <1>8, <2>1, <2>2
<1>13. CASE /\ ~(n.method = "turn/completed" /\ Tracks(c, n.thread) /\ c.tracker.turn = n.turn)
            /\ ~IsCompaction(n)
  <2>1. f = c  BY <1>13 DEF ObserveCompaction
  <2> QED BY <1>1, <1>2, <2>1
<1>14. IsCompaction(n) /\ e # None => e.stage \in {"STARTED", "COMPLETED"}
  BY CompactionEventType DEF EventOf
<1> QED BY <1>9, <1>10, <1>11, <1>12, <1>13, <1>14

-----------------------------------------------------------------------------
(* What the observer makes of the server's messages *)

Formed(o) == o \in Observer /\ Len(o.messages) <= MaxAgentMessages

(* What holds of an observer even while it looks at a message. *)
Partial(o, h) == Formed(o) /\ Flagged(o, h) /\ Compacted(o, h.directive)

(* The failures an observer finds by itself. *)
Ordinary(code) == code \in FailureCodes \ {"HOST_CANCELLED", "BACKEND_TURN_FAILED"}

(* p is o after a message: what was bound stays bound, the first failure and *)
(* the end of the Turn stay, and a compaction that is over stays over.       *)
Later(o, p, d) ==
  /\ p.session = o.session /\ p.operation = o.operation
  /\ p.interrupts = o.interrupts /\ p.launches = o.launches /\ p.result = o.result
  /\ p.failure = o.failure \/ (o.failure = None /\ Ordinary(p.failure))
  /\ p.state \in {o.state, "FAILED"}
  /\ o.terminal # None => p.terminal = o.terminal
  /\ p.failure = None =>
       /\ o.threads \subseteq p.threads /\ o.turns \subseteq p.turns
       /\ Len(o.messages) <= Len(p.messages)
       /\ \A i \in 1..Len(o.messages) : p.messages[i] = o.messages[i]
  /\ ~o.manual => ~p.manual /\ p.maintTurn = o.maintTurn
  /\ Sealed(o, d) => p.open = {} /\ (d.manual => p.compactions = o.compactions)

LEMMA FormedFacts ==
  ASSUME NEW o, Formed(o)
  PROVE  Len(o.messages) \in Nat /\ o.messages \in Seq(Messages)
BY DEF Formed, Observer

LEMMA LaterItself == ASSUME NEW o, NEW d, Formed(o) PROVE Later(o, o, d)
BY FormedFacts DEF Later, Sealed

LEMMA LaterTransitive ==
  ASSUME NEW o, NEW p, NEW q, NEW d, Formed(o), Formed(p), Formed(q),
         Later(o, p, d), Later(p, q, d)
  PROVE  Later(o, q, d)
<1>1. q.failure = None => p.failure = None
  BY DEF Later, Ordinary
<1>2. q.failure = None =>
       /\ o.threads \subseteq q.threads /\ o.turns \subseteq q.turns
       /\ Len(o.messages) <= Len(q.messages)
       /\ \A i \in 1..Len(o.messages) : q.messages[i] = o.messages[i]
  <2> HAVE q.failure = None
  <2>1. /\ o.threads \subseteq p.threads /\ o.turns \subseteq p.turns
        /\ Len(o.messages) <= Len(p.messages)
        /\ \A i \in 1..Len(o.messages) : p.messages[i] = o.messages[i]
    BY <1>1 DEF Later
  <2>2. /\ p.threads \subseteq q.threads /\ p.turns \subseteq q.turns
        /\ Len(p.messages) <= Len(q.messages)
        /\ \A i \in 1..Len(p.messages) : q.messages[i] = p.messages[i]
    BY DEF Later
  <2>3. Len(o.messages) \in Nat /\ Len(p.messages) \in Nat /\ Len(q.messages) \in Nat
    BY FormedFacts
  <2> QED BY <2>1, <2>2, <2>3
<1>3. Sealed(o, d) => Sealed(p, d)  BY DEF Later, Sealed
<1>4. /\ q.session = o.session /\ q.operation = o.operation
      /\ q.interrupts = o.interrupts /\ q.launches = o.launches /\ q.result = o.result
      /\ q.failure = o.failure \/ (o.failure = None /\ Ordinary(q.failure))
      /\ q.state \in {o.state, "FAILED"}
      /\ o.terminal # None => q.terminal = o.terminal
      /\ ~o.manual => ~q.manual /\ q.maintTurn = o.maintTurn
  BY DEF Later
<1>5. Sealed(o, d) => q.open = {} /\ (d.manual => q.compactions = o.compactions)
  BY <1>3 DEF Later
<1> QED BY <1>2, <1>4, <1>5 DEF Later

(* An observer as another, but for what came first. *)
Alike(o, p) ==
  /\ p.session = o.session /\ p.operation = o.operation
  /\ p.interrupts = o.interrupts /\ p.launches = o.launches /\ p.result = o.result
  /\ p.failure = o.failure /\ p.state = o.state /\ p.terminal = o.terminal
  /\ p.threads = o.threads /\ p.turns = o.turns /\ p.messages = o.messages
  /\ p.manual = o.manual /\ p.maintTurn = o.maintTurn
  /\ p.open = o.open /\ p.compactions = o.compactions

LEMMA FirstEffect ==
  ASSUME NEW o \in Observer, NEW which \in Firsts
  PROVE  /\ First(o, which) \in Observer /\ Alike(o, First(o, which))
         /\ First(o, which).first \in {o.first, which}
<1> DEFINE v == IF o.first = None THEN which ELSE o.first
<1>1. v \in (Firsts \union {None}) \intersect {o.first, which}  BY DEF Observer
<1>2. First(o, which) = [o EXCEPT !.first = v]  BY DEF First
<1> HIDE DEF v
<1> QED BY <1>1, <1>2 DEF Alike, Observer

(* A new failure that is none of the host's. *)
LEMMA FailWithEffect ==
  ASSUME NEW o, NEW h, NEW code, Partial(o, h), Ordinary(code)
  PROVE  /\ Partial(FailWith(o, code), h) /\ Later(o, FailWith(o, code), h.directive)
         /\ FailWith(o, code).failure # None
<1> DEFINE p == [o EXCEPT !.failure = code, !.threads = {}, !.turns = {}, !.messages = <<>>,
                   !.state = IF code = "HOST_CANCELLED" THEN "INTERRUPTED" ELSE "FAILED"]
           q == First(p, "POLICY_FAILURE")
<1>1. CASE o.failure # None
  BY <1>1, LaterItself DEF FailWith, Partial
<1>2. CASE o.failure = None
  <2>1. FailWith(o, code) = q  BY <1>2 DEF FailWith
  <2>2. code \in FailureCodes /\ code # None /\ code # "HOST_CANCELLED" /\ code # "BACKEND_TURN_FAILED"
    BY DEF Ordinary
  <2>3. p = [o EXCEPT !.failure = code, !.threads = {}, !.turns = {}, !.messages = <<>>,
               !.state = "FAILED"]
    BY <2>2
  <2>4. <<>> \in Seq(Messages) /\ Len(<<>>) = 0  OBVIOUS
  <2>5. p \in Observer  BY <2>2, <2>3, <2>4 DEF Partial, Formed, Observer
  <2>6. /\ q \in Observer /\ q.failure = code /\ q.state = "FAILED" /\ q.messages = <<>>
        /\ q.session = o.session /\ q.operation = o.operation /\ q.interrupts = o.interrupts
        /\ q.launches = o.launches /\ q.result = o.result /\ q.terminal = o.terminal
        /\ q.manual = o.manual /\ q.maintTurn = o.maintTurn /\ q.open = o.open
        /\ q.compactions = o.compactions
        /\ q.first \in {o.first, "POLICY_FAILURE"}
    <3>1. /\ p.failure = code /\ p.state = "FAILED" /\ p.messages = <<>>
          /\ p.session = o.session /\ p.operation = o.operation /\ p.interrupts = o.interrupts
          /\ p.launches = o.launches /\ p.result = o.result /\ p.terminal = o.terminal
          /\ p.manual = o.manual /\ p.maintTurn = o.maintTurn /\ p.open = o.open
          /\ p.compactions = o.compactions /\ p.first = o.first
      BY <2>3 DEF Observer, Partial, Formed
    <3>2. "POLICY_FAILURE" \in Firsts  BY DEF Firsts
    <3> HIDE DEF p
    <3> QED BY <2>5, <3>1, <3>2, FirstEffect DEF Alike
  <2> HIDE DEF p, q
  <2>7. Formed(q)  BY <2>4, <2>6 DEF Formed
  <2>8. Flagged(q, h)  BY <1>2, <2>2, <2>6 DEF Partial, Flagged
  <2>9. Compacted(q, h.directive)  BY <2>2, <2>6 DEF Partial, Compacted
  <2>10. Later(o, q, h.directive)  BY <1>2, <2>2, <2>6 DEF Later, Sealed, Ordinary
  <2> QED BY <2>1, <2>2, <2>6, <2>7, <2>8, <2>9, <2>10 DEF Partial
<1> QED BY <1>1, <1>2

LEMMA FailIfEffect ==
  ASSUME NEW o, NEW h, NEW condition \in BOOLEAN, NEW code, Partial(o, h), Ordinary(code)
  PROVE  /\ Partial(FailIf(o, condition, code), h)
         /\ Later(o, FailIf(o, condition, code), h.directive)
         /\ FailIf(o, condition, code).failure = None => ~condition
         /\ ~condition => FailIf(o, condition, code) = o
<1>1. CASE condition
  BY <1>1, FailWithEffect DEF FailIf
<1>2. CASE ~condition
  BY <1>2, LaterItself DEF FailIf, Partial
<1> QED BY <1>1, <1>2

(* What the validation lets pass agrees with what is bound. *)
LEMMA ValidateRefsEffect ==
  ASSUME NEW o, NEW h, Partial(o, h)
  PROVE  /\ Partial(ValidateRefs(o), h) /\ Later(o, ValidateRefs(o), h.directive)
         /\ Bound(ValidateRefs(o))
         /\ ValidateRefs(o).failure = None => ValidateRefs(o) = o
<1> DEFINE a == o.session # None /\ ~(o.threads \subseteq {o.session})
           p == FailIf(o, a, "THREAD_BINDING_MISMATCH")
           b == o.operation # None /\ ~(o.turns \subseteq {o.operation})
           q == FailIf(p, b, "TURN_BINDING_MISMATCH")
<1>1. ValidateRefs(o) = q  BY DEF ValidateRefs
<1>2. Ordinary("THREAD_BINDING_MISMATCH") /\ Ordinary("TURN_BINDING_MISMATCH")
  BY DEF Ordinary, FailureCodes
<1>3. PICK a1 \in BOOLEAN : a1 = a  OBVIOUS
<1>4. PICK b1 \in BOOLEAN : b1 = b  OBVIOUS
<1>5. p = FailIf(o, a1, "THREAD_BINDING_MISMATCH") /\ q = FailIf(p, b1, "TURN_BINDING_MISMATCH")
  BY <1>3, <1>4
<1>6. (a1 <=> a) /\ (b1 <=> b)  BY <1>3, <1>4
<1> HIDE DEF p, q, a, b
<1>7. /\ Partial(p, h) /\ Later(o, p, h.directive)
      /\ p.failure = None => ~a1
      /\ ~a1 => p = o
  BY <1>2, <1>5, FailIfEffect
<1>8. /\ Partial(q, h) /\ Later(p, q, h.directive)
      /\ q.failure = None => ~b1
      /\ ~b1 => q = p
  <2>1. Partial(p, h)  BY <1>7
  <2>2. q = FailIf(p, b1, "TURN_BINDING_MISMATCH")  BY <1>5
  <2> QED BY <1>2, <2>1, <2>2, FailIfEffect
<1>9. Later(o, q, h.directive)  BY <1>7, <1>8, LaterTransitive DEF Partial
<1>10. q.failure = None => p.failure = None  BY <1>8 DEF Later, Ordinary
<1>11. q.failure = None => q = o /\ ~a /\ ~b  BY <1>6, <1>7, <1>8, <1>10
<1>12. Bound(q)  BY <1>11 DEF Bound, a, b
<1> QED BY <1>1, <1>8, <1>9, <1>11, <1>12

(* An observer that only learned more names. *)
Added(o, p) ==
  /\ p.session = o.session /\ p.operation = o.operation
  /\ p.interrupts = o.interrupts /\ p.launches = o.launches /\ p.result = o.result
  /\ p.failure = o.failure /\ p.state = o.state /\ p.terminal = o.terminal /\ p.first = o.first
  /\ o.threads \subseteq p.threads /\ o.turns \subseteq p.turns /\ p.messages = o.messages
  /\ p.manual = o.manual /\ (~o.manual => p.maintTurn = o.maintTurn)
  /\ p.open = o.open /\ p.compactions = o.compactions

LEMMA AddedEffect ==
  ASSUME NEW o, NEW h, NEW p \in Observer, Partial(o, h), Added(o, p)
  PROVE  Partial(p, h) /\ Later(o, p, h.directive)
<1>1. Formed(p)  BY DEF Partial, Formed, Added
<1>2. Flagged(p, h) /\ Compacted(p, h.directive)  BY DEF Partial, Flagged, Compacted, Added
<1>3. Len(o.messages) \in Nat  BY FormedFacts DEF Partial
<1>4. Later(o, p, h.directive)  BY <1>3 DEF Later, Added, Sealed
<1> QED BY <1>1, <1>2, <1>4 DEF Partial

LEMMA SeeThreadEffect ==
  ASSUME NEW o, NEW h, NEW n \in Notification, Partial(o, h)
  PROVE  /\ Partial(SeeThread(o, n), h) /\ Later(o, SeeThread(o, n), h.directive)
         /\ SeeThread(o, n).failure = None => n.method # "forbidden" /\ n.thread \in SeeThread(o, n).threads
         /\ SeeThread(o, n).terminal = o.terminal
<1>1. CASE n.method = "forbidden"
  <2>1. SeeThread(o, n) = FailWith(o, "UNSUPPORTED_BACKEND_ACTIVITY")
    BY <1>1 DEF SeeThread
  <2>2. Ordinary("UNSUPPORTED_BACKEND_ACTIVITY")  BY DEF Ordinary, FailureCodes
  <2>3. FailWith(o, "UNSUPPORTED_BACKEND_ACTIVITY").terminal = o.terminal
    BY DEF FailWith, First, Partial, Formed, Observer
  <2> QED BY <2>1, <2>2, <2>3, FailWithEffect
<1>2. CASE n.method # "forbidden"
  <2> DEFINE p == [o EXCEPT !.threads = @ \union {n.thread}]
  <2>1. SeeThread(o, n) = p  BY <1>2 DEF SeeThread
  <2>2. n.thread \in Threads  BY <1>2, NotificationFields
  <2>3. p \in Observer /\ Added(o, p) /\ n.thread \in p.threads
    BY <2>2 DEF Partial, Formed, Observer, Added
  <2> HIDE DEF p
  <2> QED BY <1>2, <2>1, <2>3, AddedEffect DEF Added
<1> QED BY <1>1, <1>2

LEMMA SeeTurnEffect ==
  ASSUME NEW o, NEW h, NEW n \in Notification, Partial(o, h)
  PROVE  /\ Partial(SeeTurn(o, n), h) /\ Later(o, SeeTurn(o, n), h.directive)
         /\ SeeTurn(o, n).terminal = o.terminal
<1> DEFINE p == SeeTurn(o, n)
<1>1. n.method \notin {"forbidden", "thread/started"} => n.turn \in Turns
  BY NotificationFields
<1>2. o \in Observer  BY DEF Partial, Formed
<1>3. ASSUME NEW q, Partial(q, h), Later(o, q, h.directive), q.terminal = o.terminal,
             n.turn \in Turns
      PROVE  LET r == [q EXCEPT !.turns = @ \union {n.turn}] IN
             Partial(r, h) /\ Later(o, r, h.directive) /\ r.terminal = o.terminal
  <2> DEFINE r == [q EXCEPT !.turns = @ \union {n.turn}]
  <2>5. q \in Observer  BY <1>3 DEF Partial, Formed
  <2>1. r \in Observer /\ Added(q, r)  BY <1>3, <2>5 DEF Observer, Added
  <2> HIDE DEF r
  <2>2. Partial(r, h) /\ Later(q, r, h.directive)  BY <1>3, <2>1, AddedEffect
  <2>3. Later(o, r, h.directive)  BY <1>3, <2>2, LaterTransitive DEF Partial
  <2>4. r.terminal = o.terminal  BY <1>3, <2>1 DEF Added
  <2> QED BY <2>2, <2>3, <2>4 DEF r
<1>4. Later(o, o, h.directive)  BY LaterItself DEF Partial
<1>5. CASE n.method = "turn/started"
  <2> DEFINE other == o.manual /\ o.maintTurn \notin {None, n.turn}
             bound == IF o.manual /\ ~other THEN [o EXCEPT !.maintTurn = n.turn]
                      ELSE FailIf(o, other, "COMPACTION_POLICY_VIOLATION")
  <2>1. p = IF bound.maintTurn = n.turn THEN bound ELSE [bound EXCEPT !.turns = @ \union {n.turn}]
    BY <1>5 DEF SeeTurn
  <2>2. n.turn \in Turns  BY <1>1, <1>5
  <2>3. CASE o.manual /\ ~other
    <3>1. [o EXCEPT !.maintTurn = n.turn] \in Observer /\ Added(o, [o EXCEPT !.maintTurn = n.turn])
      BY <1>2, <2>2, <2>3 DEF Observer, Added
    <3>2. Partial(bound, h) /\ Later(o, bound, h.directive) /\ bound.terminal = o.terminal
      BY <2>3, <3>1, AddedEffect DEF Added
    <3> HIDE DEF bound
    <3> QED BY <1>3, <2>1, <2>2, <3>2
  <2>4. CASE ~(o.manual /\ ~other)
    <3>1. Ordinary("COMPACTION_POLICY_VIOLATION")  BY DEF Ordinary, FailureCodes
    <3>2. PICK b \in BOOLEAN : b = other  OBVIOUS
    <3>3. bound = FailIf(o, b, "COMPACTION_POLICY_VIOLATION")  BY <2>4, <3>2
    <3>4. Partial(bound, h) /\ Later(o, bound, h.directive)
      BY <3>1, <3>3, FailIfEffect
    <3>5. bound.terminal = o.terminal
      BY <1>2, <3>3 DEF FailIf, FailWith, First, Observer
    <3> HIDE DEF bound, other
    <3> QED BY <1>3, <2>1, <2>2, <3>4, <3>5
  <2> QED BY <2>3, <2>4
<1>6. CASE n.method \in {"item/started", "item/completed"} /\ n.turn # o.maintTurn
  <2>1. p = [o EXCEPT !.turns = @ \union {n.turn}]  BY <1>6 DEF SeeTurn
  <2>2. n.turn \in Turns  BY <1>1, <1>6
  <2> QED BY <1>3, <1>4, <2>1, <2>2
<1>7. CASE /\ n.method # "turn/started"
           /\ ~(n.method \in {"item/started", "item/completed"} /\ n.turn # o.maintTurn)
  <2>1. p = o  BY <1>7 DEF SeeTurn
  <2> QED BY <1>4, <2>1
<1> QED BY <1>5, <1>6, <1>7

LEMMA FailWithKeepsTerminal ==
  ASSUME NEW o \in Observer, NEW code
  PROVE  FailWith(o, code).terminal = o.terminal
BY DEF FailWith, First, Observer

LEMMA RecordItemEffect ==
  ASSUME NEW o, NEW h, NEW item, NEW location, Partial(o, h)
  PROVE  /\ Partial(RecordItem(o, item, location), h)
         /\ Later(o, RecordItem(o, item, location), h.directive)
         /\ RecordItem(o, item, location).terminal = o.terminal
<1> DEFINE p == RecordItem(o, item, location)
<1>1. o \in Observer /\ Len(o.messages) \in Nat /\ o.messages \in Seq(Messages)
  BY FormedFacts DEF Partial, Formed
<1>2. ASSUME NEW code, Ordinary(code), p = FailWith(o, code)
      PROVE  Partial(p, h) /\ Later(o, p, h.directive) /\ p.terminal = o.terminal
  BY <1>1, <1>2, FailWithEffect, FailWithKeepsTerminal
<1>3. /\ Ordinary("COMPACTION_POLICY_VIOLATION") /\ Ordinary("UNSUPPORTED_BACKEND_ACTIVITY")
      /\ Ordinary("INVALID_TERMINAL_PAYLOAD")
  BY DEF Ordinary, FailureCodes
<1>4. CASE p = o
  BY <1>4, LaterItself DEF Partial
<1>5. CASE item \in Messages /\ Len(o.messages) < MaxAgentMessages
           /\ p = [o EXCEPT !.messages = Append(@, item)]
  <2> DEFINE m == Append(o.messages, item)
  <2>1. /\ m \in Seq(Messages) /\ Len(m) = Len(o.messages) + 1
        /\ \A i \in 1..Len(o.messages) : m[i] = o.messages[i]
    BY <1>1, <1>5
  <2>2. p = [o EXCEPT !.messages = m]  BY <1>5
  <2> HIDE DEF m
  <2>3. p \in Observer /\ p.messages = m  BY <1>1, <2>1, <2>2 DEF Observer
  <2>4. /\ p.session = o.session /\ p.operation = o.operation
        /\ p.interrupts = o.interrupts /\ p.launches = o.launches /\ p.result = o.result
        /\ p.failure = o.failure /\ p.state = o.state /\ p.terminal = o.terminal
        /\ p.first = o.first /\ p.threads = o.threads /\ p.turns = o.turns
        /\ p.manual = o.manual /\ p.maintTurn = o.maintTurn
        /\ p.open = o.open /\ p.compactions = o.compactions
    BY <1>1, <2>2 DEF Observer
  <2>5. Len(m) <= MaxAgentMessages  BY <1>1, <1>5, <2>1
  <2>6. Formed(p)  BY <2>3, <2>5 DEF Formed
  <2>7. Flagged(p, h) /\ Compacted(p, h.directive)
    BY <2>4 DEF Partial, Flagged, Compacted
  <2>8. Later(o, p, h.directive)
    BY <1>1, <2>1, <2>3, <2>4 DEF Later, Sealed
  <2> QED BY <2>4, <2>6, <2>7, <2>8 DEF Partial
<1>6. \/ p = FailWith(o, "COMPACTION_POLICY_VIOLATION")
      \/ p = FailWith(o, "UNSUPPORTED_BACKEND_ACTIVITY")
      \/ p = FailWith(o, "INVALID_TERMINAL_PAYLOAD")
      \/ p = o
      \/ /\ item \in Messages /\ Len(o.messages) < MaxAgentMessages
         /\ p = [o EXCEPT !.messages = Append(@, item)]
  BY <1>1 DEF RecordItem, AllowedItem
<1> QED BY <1>2, <1>3, <1>4, <1>5, <1>6

LEMMA SeeItemEffect ==
  ASSUME NEW o, NEW h, NEW n \in Notification, Partial(o, h)
  PROVE  /\ Partial(SeeItem(o, n), h) /\ Later(o, SeeItem(o, n), h.directive)
         /\ SeeItem(o, n).terminal = o.terminal
<1> DEFINE p == SeeItem(o, n)
           bad == \/ [item |-> n.item, thread |-> n.thread, turn |-> n.turn] \notin o.authorized
                  \/ n.turn # o.maintTurn
<1>1. Ordinary("COMPACTION_POLICY_VIOLATION")  BY DEF Ordinary, FailureCodes
<1>2. o \in Observer  BY DEF Partial, Formed
<1>3. \/ p = o
      \/ p = FailIf(o, bad, "COMPACTION_POLICY_VIOLATION")
      \/ p = FailWith(o, "COMPACTION_POLICY_VIOLATION")
      \/ \E location \in {"COMPLETED", "STARTED"} : p = RecordItem(o, n.item, location)
  <2>1. CASE n.method \notin {"item/started", "item/completed"}
    BY <2>1 DEF SeeItem
  <2>2. CASE n.method \in {"item/started", "item/completed"}
    <3>1. CASE n.item \in Items
      BY <2>2, <3>1 DEF SeeItem
    <3>2. CASE n.item \notin Items /\ o.manual
      BY <2>2, <3>2 DEF SeeItem
    <3>3. CASE n.item \notin Items /\ ~o.manual
      <4>1. p = RecordItem(o, n.item, IF n.method = "item/completed" THEN "COMPLETED" ELSE "STARTED")
        BY <2>2, <3>3 DEF SeeItem
      <4> QED BY <4>1
    <3> QED BY <3>1, <3>2, <3>3
  <2> QED BY <2>1, <2>2
<1>4. CASE p = o
  BY <1>4, LaterItself DEF Partial
<1>5. FailWith(o, "COMPACTION_POLICY_VIOLATION").terminal = o.terminal
  BY <1>2, FailWithKeepsTerminal
<1>6. CASE p = FailWith(o, "COMPACTION_POLICY_VIOLATION")
  BY <1>1, <1>5, <1>6, FailWithEffect
<1>7. CASE p = FailIf(o, bad, "COMPACTION_POLICY_VIOLATION")
  <2>1. p = o \/ p = FailWith(o, "COMPACTION_POLICY_VIOLATION")  BY <1>7 DEF FailIf
  <2> QED BY <2>1, <1>4, <1>6
<1>8. CASE \E location \in {"COMPLETED", "STARTED"} : p = RecordItem(o, n.item, location)
  BY <1>8, RecordItemEffect
<1> HIDE DEF bad
<1> QED BY <1>3, <1>4, <1>6, <1>7, <1>8

LEMMA SeeTerminalEffect ==
  ASSUME NEW o, NEW h, NEW n \in Notification, Partial(o, h)
  PROVE  /\ Partial(SeeTerminal(o, n), h) /\ Later(o, SeeTerminal(o, n), h.directive)
         /\ Witnessed(o) /\ (o.failure = None => n.thread \in o.threads) =>
              Witnessed(SeeTerminal(o, n))
<1> DEFINE p == SeeTerminal(o, n)
<1>1. o \in Observer  BY DEF Partial, Formed
<1>2. /\ Ordinary("COMPACTION_POLICY_VIOLATION") /\ Ordinary("TURN_BINDING_MISMATCH")
  BY DEF Ordinary, FailureCodes
<1>3. CASE n.method # "turn/completed"
  <2>1. p = o  BY <1>3 DEF SeeTerminal
  <2> QED BY <2>1, LaterItself DEF Partial
<1>4. CASE p = FailWith(o, "COMPACTION_POLICY_VIOLATION")
  BY <1>2, <1>4, FailWithEffect DEF Witnessed
<1>5. CASE p = [o EXCEPT !.maintDone = TRUE]
  <2>1. p \in Observer /\ Added(o, p)  BY <1>1, <1>5 DEF Observer, Added
  <2>2. Witnessed(o) => Witnessed(p)  BY <2>1 DEF Added, Witnessed
  <2> QED BY <2>1, <2>2, AddedEffect
<1>6. CASE n.method = "turn/completed" /\ n.turn # o.maintTurn /\ ~o.manual
  <2> DEFINE recorded == IF n.item = NotOne THEN o ELSE RecordItem(o, n.item, "TERMINAL")
             seen == [recorded EXCEPT !.turns = @ \union {n.turn}]
             ended == [seen EXCEPT !.terminal = n]
  <2>1. p = IF o.terminal # None THEN FailWith(seen, "TURN_BINDING_MISMATCH")
            ELSE First(ended, "TERMINAL")
    BY <1>6 DEF SeeTerminal
  <2>2. Partial(recorded, h) /\ Later(o, recorded, h.directive) /\ recorded.terminal = o.terminal
    BY RecordItemEffect, LaterItself DEF Partial
  <2>3. n.turn \in Turns  BY <1>6, NotificationFields
  <2> HIDE DEF recorded
  <2>4. recorded \in Observer  BY <2>2 DEF Partial, Formed
  <2>5. seen \in Observer /\ Added(recorded, seen) /\ n.turn \in seen.turns
    BY <2>3, <2>4 DEF Observer, Added
  <2> HIDE DEF seen
  <2>6. Partial(seen, h) /\ Later(recorded, seen, h.directive)  BY <2>2, <2>5, AddedEffect
  <2>7. Later(o, seen, h.directive)  BY <2>2, <2>6, LaterTransitive DEF Partial
  <2>8. CASE o.terminal # None
    <3>1. p = FailWith(seen, "TURN_BINDING_MISMATCH")  BY <2>1, <2>8
    <3>2. Partial(p, h) /\ Later(seen, p, h.directive) /\ p.failure # None
      BY <1>2, <2>6, <3>1, FailWithEffect
    <3>3. Later(o, p, h.directive)  BY <2>6, <2>7, <3>2, LaterTransitive DEF Partial
    <3> QED BY <3>2, <3>3 DEF Witnessed
  <2>9. CASE o.terminal = None
    <3>1. p = First(ended, "TERMINAL")  BY <2>1, <2>9
    <3>2. /\ ended \in Observer /\ ended.terminal = n /\ ended.first = seen.first
          /\ ended.session = seen.session /\ ended.operation = seen.operation
          /\ ended.interrupts = seen.interrupts /\ ended.launches = seen.launches
          /\ ended.result = seen.result /\ ended.failure = seen.failure
          /\ ended.state = seen.state /\ ended.threads = seen.threads
          /\ ended.turns = seen.turns /\ ended.messages = seen.messages
          /\ ended.manual = seen.manual /\ ended.maintTurn = seen.maintTurn
          /\ ended.open = seen.open /\ ended.compactions = seen.compactions
      BY <2>5 DEF Observer
    <3> HIDE DEF ended
    <3>3. p \in Observer /\ Alike(ended, p) /\ p.first \in {ended.first, "TERMINAL"}
      BY <3>1, <3>2, FirstEffect DEF Firsts
    <3>4. n # None  OBVIOUS
    <3>5. Formed(p)  BY <2>6, <3>2, <3>3 DEF Partial, Formed, Alike
    <3>6. Flagged(p, h)
      BY <1>6, <2>6, <3>2, <3>3, <3>4 DEF Partial, Flagged, Alike
    <3>7. Compacted(p, h.directive)  BY <2>6, <3>2, <3>3 DEF Partial, Compacted, Alike
    <3>8. Later(o, p, h.directive)
      BY <2>7, <2>9, <3>2, <3>3 DEF Later, Alike, Sealed
    <3>9. Witnessed(o) /\ (o.failure = None => n.thread \in o.threads) => Witnessed(p)
      BY <2>5, <2>7, <3>2, <3>3 DEF Witnessed, Later, Alike, Ordinary
    <3> QED BY <3>5, <3>6, <3>7, <3>8, <3>9 DEF Partial
  <2> QED BY <2>8, <2>9
<1>7. \/ n.method # "turn/completed"
      \/ p = FailWith(o, "COMPACTION_POLICY_VIOLATION")
      \/ p = [o EXCEPT !.maintDone = TRUE]
      \/ n.method = "turn/completed" /\ n.turn # o.maintTurn /\ ~o.manual
  BY DEF SeeTerminal
<1> QED BY <1>3, <1>4, <1>5, <1>6, <1>7

(* An observer between two messages. *)
Settled(o, h) == Formed(o) /\ Observed(o, h)

LEMMA SettledPartial == ASSUME NEW o, NEW h, Settled(o, h) PROVE Partial(o, h)
BY DEF Settled, Observed, Partial

LEMMA WitnessedLater ==
  ASSUME NEW o, NEW p, NEW d, Later(o, p, d), Witnessed(o), p.terminal = o.terminal
  PROVE  Witnessed(p)
BY DEF Later, Witnessed, Ordinary

LEMMA RecordNotificationEffect ==
  ASSUME NEW o, NEW h, NEW n \in Notification, Settled(o, h)
  PROVE  /\ Settled(RecordNotification(o, n), h)
         /\ Later(o, RecordNotification(o, n), h.directive)
<1> DEFINE a == SeeThread(o, n)
           b == SeeTurn(a, n)
           c == SeeItem(b, n)
           e == SeeTerminal(c, n)
           v == ValidateRefs(e)
<1>1. Partial(o, h)  BY SettledPartial
<1>2. CASE o.failure # None
  <2>1. RecordNotification(o, n) = o  BY <1>2 DEF RecordNotification
  <2> QED BY <2>1, LaterItself DEF Settled
<1>3. CASE o.failure = None
  <2>1. RecordNotification(o, n) = v  BY <1>3 DEF RecordNotification
  <2>2. /\ Partial(a, h) /\ Later(o, a, h.directive) /\ a.terminal = o.terminal
        /\ a.failure = None => n.thread \in a.threads
    BY <1>1, SeeThreadEffect
  <2> HIDE DEF a
  <2>3. Partial(b, h) /\ Later(a, b, h.directive) /\ b.terminal = a.terminal
    BY <2>2, SeeTurnEffect
  <2> HIDE DEF b
  <2>4. Partial(c, h) /\ Later(b, c, h.directive) /\ c.terminal = b.terminal
    BY <2>3, SeeItemEffect
  <2> HIDE DEF c
  <2>5. /\ Partial(e, h) /\ Later(c, e, h.directive)
        /\ Witnessed(c) /\ (c.failure = None => n.thread \in c.threads) => Witnessed(e)
    BY <2>4, SeeTerminalEffect
  <2> HIDE DEF e
  <2>6. /\ Partial(v, h) /\ Later(e, v, h.directive) /\ Bound(v)
        /\ v.failure = None => v = e
    BY <2>5, ValidateRefsEffect
  <2> HIDE DEF v
  <2>7. Later(o, b, h.directive)
    BY <1>1, <2>2, <2>3, LaterTransitive DEF Partial
  <2>8. Later(o, c, h.directive)
    BY <1>1, <2>3, <2>4, <2>7, LaterTransitive DEF Partial
  <2>9. Later(o, e, h.directive)
    BY <1>1, <2>4, <2>5, <2>8, LaterTransitive DEF Partial
  <2>10. Later(o, v, h.directive)
    BY <1>1, <2>5, <2>6, <2>9, LaterTransitive DEF Partial
  <2>11. Later(a, c, h.directive)
    BY <2>2, <2>3, <2>4, LaterTransitive DEF Partial
  <2>12. Witnessed(o)  BY DEF Settled, Observed
  <2>13. c.terminal = o.terminal  BY <2>2, <2>3, <2>4
  <2>14. Witnessed(c)  BY <2>8, <2>12, <2>13, WitnessedLater
  <2>15. c.failure = None => n.thread \in c.threads
    BY <2>2, <2>11 DEF Later, Ordinary
  <2>16. Witnessed(e)  BY <2>5, <2>14, <2>15
  <2>17. Witnessed(v)  BY <2>6, <2>16 DEF Witnessed
  <2> QED BY <2>1, <2>6, <2>10, <2>17 DEF Settled, Observed, Partial
<1> QED BY <1>2, <1>3

LEMMA RecordApprovalEffect ==
  ASSUME NEW o, NEW h, NEW thread \in Threads, NEW turn \in Turns, Settled(o, h)
  PROVE  /\ Settled(RecordApproval(o, thread, turn), h)
         /\ Later(o, RecordApproval(o, thread, turn), h.directive)
<1> DEFINE a == [o EXCEPT !.threads = @ \union {thread}, !.turns = @ \union {turn}]
           v == ValidateRefs(a)
           f == FailWith(v, "DECLINED_APPROVAL_REQUEST")
<1>1. Partial(o, h)  BY SettledPartial
<1>2. CASE o.failure # None
  <2>1. RecordApproval(o, thread, turn) = o  BY <1>2 DEF RecordApproval
  <2> QED BY <2>1, LaterItself DEF Settled
<1>3. CASE o.failure = None
  <2>1. RecordApproval(o, thread, turn) = f  BY <1>3 DEF RecordApproval
  <2>2. o \in Observer  BY DEF Settled, Formed
  <2>3. a \in Observer /\ Added(o, a)  BY <2>2 DEF Observer, Added
  <2> HIDE DEF a
  <2>4. Partial(a, h) /\ Later(o, a, h.directive)  BY <1>1, <2>3, AddedEffect
  <2>5. Partial(v, h) /\ Later(a, v, h.directive)  BY <2>4, ValidateRefsEffect
  <2> HIDE DEF v
  <2>6. Ordinary("DECLINED_APPROVAL_REQUEST")  BY DEF Ordinary, FailureCodes
  <2>7. Partial(f, h) /\ Later(v, f, h.directive) /\ f.failure # None
    BY <2>5, <2>6, FailWithEffect
  <2> HIDE DEF f
  <2>8. Later(o, v, h.directive)  BY <1>1, <2>4, <2>5, LaterTransitive DEF Partial
  <2>9. Later(o, f, h.directive)  BY <1>1, <2>5, <2>7, <2>8, LaterTransitive DEF Partial
  <2> QED BY <2>1, <2>7, <2>9 DEF Settled, Observed, Partial, Bound, Witnessed
<1> QED BY <1>2, <1>3

LEMMA RecordCompactionEffect ==
  ASSUME NEW o, NEW h, NEW n \in Notification, NEW e, EventOf(e, n), Settled(o, h),
         h.directive.manual \in BOOLEAN
  PROVE  /\ Settled(RecordCompaction(o, h.directive, e), h)
         /\ Later(o, RecordCompaction(o, h.directive, e), h.directive)
<1> DEFINE d == h.directive
           p == RecordCompaction(o, d, e)
           seen == IF o.failure # None THEN o ELSE [o EXCEPT !.threads = @ \union {e.thread}]
           binding == [item |-> e.item, thread |-> e.thread, turn |-> e.turn]
           violation == FailWith(seen, "COMPACTION_POLICY_VIOLATION")
           counted == [seen EXCEPT !.compactions = @ + 1]
           checked == ValidateRefs(counted)
           begun == [seen EXCEPT !.open = @ \union {binding}, !.authorized = @ \union {binding}]
           ended == [seen EXCEPT !.open = @ \ {binding}, !.compactions = @ + 1]
<1>1. Partial(o, h) /\ o \in Observer  BY SettledPartial DEF Settled, Formed
<1>2. e.thread \in Threads /\ binding \in Binding
  <2>1. n.item \in Items /\ n.thread \in Threads /\ n.turn \in Turns
    BY NotificationFields DEF EventOf, IsCompaction
  <2> QED BY <2>1 DEF EventOf, Binding
<1>3. seen \in Observer /\ Added(o, seen)
      /\ (o.failure = None => seen.threads = o.threads \union {e.thread})
  <2>1. CASE o.failure # None
    BY <1>1, <2>1 DEF Added
  <2>2. CASE o.failure = None
    <3> DEFINE t == o.threads \union {e.thread}
               w == [o EXCEPT !.threads = t]
    <3>1. seen = w  BY <2>2
    <3>2. t \in SUBSET Threads /\ o.threads \subseteq t  BY <1>1, <1>2 DEF Observer
    <3> HIDE DEF t
    <3>3. w \in Observer  BY <1>1, <3>2 DEF Observer
    <3>4. Added(o, w) /\ w.threads = t  BY <1>1, <3>2 DEF Observer, Added
    <3> HIDE DEF w, seen
    <3> QED BY <3>1, <3>3, <3>4 DEF t
  <2> QED BY <2>1, <2>2
<1> HIDE DEF binding, seen
<1>4. Partial(seen, h) /\ Later(o, seen, d)  BY <1>1, <1>3, AddedEffect
<1>5. Ordinary("COMPACTION_POLICY_VIOLATION")  BY DEF Ordinary, FailureCodes
<1>6. Settled(violation, h) /\ Later(o, violation, d)
  <2>1. Partial(violation, h) /\ Later(seen, violation, d) /\ violation.failure # None
    BY <1>4, <1>5, FailWithEffect
  <2> HIDE DEF violation
  <2>2. Later(o, violation, d)  BY <1>1, <1>4, <2>1, LaterTransitive DEF Partial
  <2> QED BY <2>1, <2>2 DEF Settled, Observed, Partial, Bound, Witnessed
<1>7. CASE ~d.manual
  <2>1. p = FailWith(checked, "COMPACTION_POLICY_VIOLATION")
    BY <1>7 DEF RecordCompaction, seen
  <2>2. /\ counted \in Observer /\ counted.session = seen.session
        /\ counted.operation = seen.operation /\ counted.interrupts = seen.interrupts
        /\ counted.launches = seen.launches /\ counted.result = seen.result
        /\ counted.failure = seen.failure /\ counted.state = seen.state
        /\ counted.terminal = seen.terminal /\ counted.first = seen.first
        /\ counted.threads = seen.threads /\ counted.turns = seen.turns
        /\ counted.messages = seen.messages /\ counted.manual = seen.manual
        /\ counted.maintTurn = seen.maintTurn /\ counted.open = seen.open
    BY <1>3 DEF Observer
  <2> HIDE DEF counted
  <2> SUFFICES Settled(p, h) /\ Later(o, p, d)  OBVIOUS
  <2>3. Formed(counted)  BY <1>4, <2>2 DEF Partial, Formed
  <2>4. Flagged(counted, h)  BY <1>4, <2>2 DEF Partial, Flagged
  <2>5. ~counted.manual /\ counted.open = {}
    BY <1>4, <1>7, <2>2 DEF Partial, Compacted
  \* A run that failed before keeps its count from deciding anything.
  <2>6. CASE o.failure # None
    <3>1. counted.failure # None  BY <1>3, <2>2, <2>6 DEF Added
    <3>2. Partial(counted, h)  BY <1>7, <2>3, <2>4, <2>5, <3>1 DEF Partial, Compacted
    <3>3. /\ Partial(checked, h) /\ Later(counted, checked, d)
      BY <3>2, ValidateRefsEffect
    <3> HIDE DEF checked
    <3>4. Partial(p, h) /\ Later(checked, p, d) /\ p.failure # None
      BY <1>5, <2>1, <3>3, FailWithEffect
    <3>5. Later(seen, counted, d)
      BY <1>4, <1>7, <2>2, FormedFacts DEF Partial, Later, Sealed
    <3>6. Later(o, counted, d)  BY <1>1, <1>4, <2>3, <3>5, LaterTransitive DEF Partial
    <3>7. Later(o, checked, d)  BY <1>1, <2>3, <3>3, <3>6, LaterTransitive DEF Partial
    <3>8. Later(o, p, d)  BY <1>1, <3>3, <3>4, <3>7, LaterTransitive DEF Partial
    <3> QED BY <3>4, <3>8 DEF Settled, Observed, Partial, Bound, Witnessed
  \* Otherwise the compaction is counted as if it were allowed, and refused.
  <2>7. CASE o.failure = None
    <3> DEFINE g == [aborted |-> h.aborted, directive |-> [manual |-> TRUE]]
    <3>1. g.directive.manual /\ g.aborted = h.aborted  OBVIOUS
    <3> HIDE DEF g
    <3>2. /\ counted.compactions = 1 /\ counted.failure = None
      <4>1. o.compactions = 0  BY <1>1, <1>7, <2>7 DEF Partial, Compacted
      <4>2. seen.compactions = 0 /\ seen.failure = None  BY <1>3, <2>7, <4>1 DEF Added
      <4> QED BY <1>3, <2>2, <4>2 DEF counted, Observer
    <3>3. Partial(counted, g)
      BY <2>3, <2>4, <3>1 DEF Partial, Compacted, Flagged
    <3>4. Sealed(counted, g.directive)  BY <2>5, <3>2 DEF Sealed
    <3>5. Partial(checked, g) /\ Later(counted, checked, g.directive)
      BY <3>3, ValidateRefsEffect
    <3> HIDE DEF checked
    <3>6. Partial(p, g) /\ Later(checked, p, g.directive) /\ p.failure # None
      BY <1>5, <2>1, <3>5, FailWithEffect
    <3>7. Later(counted, p, g.directive)
      BY <2>3, <3>5, <3>6, LaterTransitive DEF Partial
    <3>8. ~p.manual /\ p.open = {}  BY <2>5, <3>4, <3>7 DEF Later
    <3>9. Partial(p, h)
      BY <1>7, <3>1, <3>6, <3>8 DEF Partial, Compacted, Flagged
    <3>10. Later(o, p, d)
      BY <1>3, <1>7, <2>2, <2>7, <3>2, <3>6, <3>7, <3>8 DEF Later, Added, Sealed
    <3> QED BY <3>6, <3>9, <3>10 DEF Settled, Observed, Partial, Bound, Witnessed
  <2> QED BY <2>6, <2>7
<1>8. CASE d.manual /\ p = violation
  BY <1>6, <1>8
<1>9. CASE d.manual /\ p # violation
  \* Only a compaction the host asked for, of the bound Thread, is let pass.
  <2>1. e.manual /\ o.session # None /\ e.thread = o.session
    BY <1>9 DEF RecordCompaction, seen
  <2>2. Bound(seen) /\ Witnessed(seen)
    <3>1. Bound(o) /\ Witnessed(o)  BY DEF Settled, Observed
    <3> QED BY <1>3, <2>1, <3>1, <1>2 DEF Bound, Witnessed, Added, seen, Observer
  <2>3. CASE e.stage = "STARTED"
    <3>1. o.manual /\ p = begun
      BY <1>9, <2>1, <2>3 DEF RecordCompaction, seen, binding
    <3>2. /\ begun \in Observer /\ begun.session = seen.session
          /\ begun.operation = seen.operation /\ begun.interrupts = seen.interrupts
          /\ begun.launches = seen.launches /\ begun.result = seen.result
          /\ begun.failure = seen.failure /\ begun.state = seen.state
          /\ begun.terminal = seen.terminal /\ begun.first = seen.first
          /\ begun.threads = seen.threads /\ begun.turns = seen.turns
          /\ begun.messages = seen.messages /\ begun.manual = seen.manual
          /\ begun.maintTurn = seen.maintTurn /\ begun.compactions = seen.compactions
      BY <1>2, <1>3 DEF Observer
    <3> HIDE DEF begun
    <3> SUFFICES Settled(begun, h) /\ Later(o, begun, d)  BY <3>1
    <3>3. Formed(begun)  BY <1>4, <3>2 DEF Partial, Formed
    <3>4. Flagged(begun, h) /\ Compacted(begun, d)
      BY <1>4, <1>9, <3>2 DEF Partial, Flagged, Compacted
    <3>5. Bound(begun) /\ Witnessed(begun)  BY <2>2, <3>2 DEF Bound, Witnessed
    <3>6. Later(o, begun, d)  BY <1>3, <1>4, <3>1, <3>2 DEF Later, Sealed, Added
    <3> QED BY <3>3, <3>4, <3>5, <3>6 DEF Settled, Observed
  <2>4. CASE e.stage # "STARTED"
    <3>1. binding \in o.open /\ p = ended
      BY <1>9, <2>1, <2>4 DEF RecordCompaction, seen, binding
    <3>2. /\ ended \in Observer /\ ended.session = seen.session
          /\ ended.operation = seen.operation /\ ended.interrupts = seen.interrupts
          /\ ended.launches = seen.launches /\ ended.result = seen.result
          /\ ended.failure = seen.failure /\ ended.state = seen.state
          /\ ended.terminal = seen.terminal /\ ended.first = seen.first
          /\ ended.threads = seen.threads /\ ended.turns = seen.turns
          /\ ended.messages = seen.messages /\ ended.manual = seen.manual
          /\ ended.maintTurn = seen.maintTurn
      <4>1. seen.open \ {binding} \in SUBSET Binding  BY <1>3 DEF Observer
      <4>2. seen.compactions + 1 \in Nat  BY <1>3 DEF Observer
      <4> DEFINE rest == seen.open \ {binding}
                 count == seen.compactions + 1
      <4>3. ended = [seen EXCEPT !.open = rest, !.compactions = count]  OBVIOUS
      <4>4. rest \in SUBSET Binding /\ count \in Nat  BY <4>1, <4>2
      <4> HIDE DEF rest, count, ended
      <4> QED BY <1>3, <4>3, <4>4 DEF Observer
    <3> HIDE DEF ended
    <3> SUFFICES Settled(ended, h) /\ Later(o, ended, d)  BY <3>1
    <3>3. Formed(ended)  BY <1>4, <3>2 DEF Partial, Formed
    <3>4. Flagged(ended, h) /\ Compacted(ended, d)
      BY <1>4, <1>9, <3>2 DEF Partial, Flagged, Compacted
    <3>5. Bound(ended) /\ Witnessed(ended)  BY <2>2, <3>2 DEF Bound, Witnessed
    <3>6. Later(o, ended, d)  BY <1>3, <1>4, <3>1, <3>2 DEF Later, Sealed, Added
    <3> QED BY <3>3, <3>4, <3>5, <3>6 DEF Settled, Observed
  <2> QED BY <2>3, <2>4
<1> QED BY <1>7, <1>8, <1>9

-----------------------------------------------------------------------------
(* What the host itself does to the observer *)

(* p is o, but for what the host binds, directs or cancels. *)
Steady(o, p) ==
  /\ p.launches = o.launches /\ p.result = o.result /\ p.interrupts = o.interrupts
  /\ o.state \in {"RUNNING", "FAILED", "INTERRUPTED"} =>
       p.state \in {"RUNNING", "FAILED", "INTERRUPTED"}
  /\ o.failure # "BACKEND_TURN_FAILED" => p.failure # "BACKEND_TURN_FAILED"

LEMMA LaterSteady ==
  ASSUME NEW o, NEW p, NEW d, Later(o, p, d) PROVE Steady(o, p)
BY DEF Later, Steady, Ordinary

LEMMA SteadyTransitive ==
  ASSUME NEW o, NEW p, NEW q, Steady(o, p), Steady(p, q) PROVE Steady(o, q)
BY DEF Steady

LEMMA FailWithSettled ==
  ASSUME NEW o, NEW h, NEW code, Settled(o, h), Ordinary(code)
  PROVE  /\ Settled(FailWith(o, code), h) /\ Steady(o, FailWith(o, code))
         /\ FailWith(o, code).failure # None
         /\ Later(o, FailWith(o, code), h.directive)
<1>1. /\ Partial(FailWith(o, code), h) /\ Later(o, FailWith(o, code), h.directive)
      /\ FailWith(o, code).failure # None
  BY SettledPartial, FailWithEffect
<1> QED BY <1>1, LaterSteady DEF Settled, Observed, Partial, Bound, Witnessed

LEMMA CancelEffect ==
  ASSUME NEW o, NEW h, Settled(o, h), h.aborted
  PROVE  /\ Settled(Cancel(o), h) /\ Steady(o, Cancel(o))
         /\ Cancel(o).failure \notin {None, "BACKEND_TURN_FAILED"}
<1> DEFINE a == [o EXCEPT !.failure = "HOST_CANCELLED", !.state = "INTERRUPTED"]
           p == First(a, "POLICY_FAILURE")
<1>1. CASE o.failure \notin {None, "BACKEND_TURN_FAILED"}
  BY <1>1 DEF Cancel, Steady
<1>2. CASE o.failure \in {None, "BACKEND_TURN_FAILED"}
  <2>1. Cancel(o) = p  BY <1>2 DEF Cancel
  <2>2. o \in Observer  BY DEF Settled, Formed
  <2>3. "HOST_CANCELLED" \in FailureCodes /\ "HOST_CANCELLED" # None  BY DEF FailureCodes
  <2>4. /\ a \in Observer /\ a.failure = "HOST_CANCELLED" /\ a.state = "INTERRUPTED"
        /\ a.launches = o.launches /\ a.result = o.result /\ a.interrupts = o.interrupts
        /\ a.first = o.first /\ a.terminal = o.terminal /\ a.messages = o.messages
        /\ a.manual = o.manual /\ a.open = o.open
    BY <2>2, <2>3 DEF Observer
  <2> HIDE DEF a
  <2>5. p \in Observer /\ Alike(a, p) /\ p.first \in {a.first, "POLICY_FAILURE"}
    BY <2>4, FirstEffect DEF Firsts
  <2> HIDE DEF p
  <2>6. Formed(p)  BY <2>4, <2>5 DEF Settled, Formed, Alike
  <2>7. Flagged(p, h)  BY <2>3, <2>4, <2>5 DEF Settled, Observed, Flagged, Alike
  <2>8. Compacted(p, h.directive) /\ Bound(p) /\ Witnessed(p)
    BY <2>3, <2>4, <2>5 DEF Settled, Observed, Compacted, Bound, Witnessed, Alike
  <2>9. Steady(o, p)  BY <2>4, <2>5 DEF Steady, Alike
  <2> QED BY <2>1, <2>3, <2>4, <2>5, <2>6, <2>7, <2>8, <2>9 DEF Settled, Observed, Alike
<1> QED BY <1>1, <1>2

(* The codes an error of the run is mapped to. *)
Thrown(code) ==
  code \in FailureCodes \ {"BACKEND_TURN_FAILED"} /\ (code = "HOST_CANCELLED" => host.aborted)

LEMMA CaughtEffect ==
  ASSUME NEW o, NEW code, Settled(o, host), Thrown(code)
  PROVE  /\ Settled(Caught(o, code), host) /\ Steady(o, Caught(o, code))
         /\ Caught(o, code).failure # None
<1>1. CASE host.aborted \/ code = "HOST_CANCELLED"
  <2>1. host.aborted  BY <1>1 DEF Thrown
  <2>2. Caught(o, code) = Cancel(o)  BY <1>1 DEF Caught
  <2> QED BY <2>1, <2>2, CancelEffect
<1>2. CASE ~(host.aborted \/ code = "HOST_CANCELLED")
  <2>1. Ordinary(code)  BY <1>2 DEF Thrown, Ordinary
  <2>2. Caught(o, code) = FailWith(o, code)  BY <1>2 DEF Caught
  <2> QED BY <2>1, <2>2, FailWithSettled
<1> QED BY <1>1, <1>2

LEMMA BindThreadEffect ==
  ASSUME NEW o, NEW h, NEW thread \in Threads, Settled(o, h)
  PROVE  LET p == BindThread(o, thread) IN
         Settled(p, h) /\ Steady(o, p) /\ p.session # None
<1> DEFINE a == [o EXCEPT !.session = thread]
           p == ValidateRefs(a)
<1>1. BindThread(o, thread) = p  BY DEF BindThread
<1>2. o \in Observer  BY DEF Settled, Formed
<1>3. /\ a \in Observer /\ a.session = thread /\ a.launches = o.launches
      /\ a.result = o.result /\ a.interrupts = o.interrupts /\ a.failure = o.failure
      /\ a.state = o.state /\ a.first = o.first /\ a.terminal = o.terminal
      /\ a.messages = o.messages /\ a.threads = o.threads /\ a.turns = o.turns
      /\ a.manual = o.manual /\ a.open = o.open /\ a.compactions = o.compactions
  BY <1>2 DEF Observer
<1> HIDE DEF a
<1>4. Partial(a, h)
  BY <1>3 DEF Settled, Observed, Partial, Formed, Flagged, Compacted
<1>5. /\ Partial(p, h) /\ Later(a, p, h.directive) /\ Bound(p)
      /\ p.failure = None => p = a
  BY <1>4, ValidateRefsEffect
<1>6. Witnessed(a)  BY <1>3 DEF Settled, Observed, Witnessed
<1>7. Witnessed(p)  BY <1>5, <1>6 DEF Witnessed
<1>8. Steady(o, a)  BY <1>3 DEF Steady
<1>9. Steady(o, p)  BY <1>5, <1>8, LaterSteady, SteadyTransitive
<1>10. p.session = thread  BY <1>3, <1>5 DEF Later
<1>11. thread # None  OBVIOUS
<1> HIDE DEF p
<1> QED BY <1>1, <1>5, <1>7, <1>9, <1>10, <1>11 DEF Settled, Observed, Partial

LEMMA BindTurnEffect ==
  ASSUME NEW o, NEW h, NEW turn \in Turns, Settled(o, h)
  PROVE  LET p == BindTurn(o, turn) IN
         /\ Settled(p, h) /\ Steady(o, p)
         /\ p.failure = None =>
              /\ o.failure = None /\ p.operation # None /\ p.operation # p.maintTurn
              /\ p.session = o.session
              /\ Sealed(o, h.directive) => Sealed(p, h.directive)
<1> DEFINE a == [o EXCEPT !.operation = turn]
           p == ValidateRefs(a)
<1>1. CASE o.maintTurn = turn
  <2>1. Ordinary("TURN_BINDING_MISMATCH")  BY DEF Ordinary, FailureCodes
  <2>2. BindTurn(o, turn) = FailWith(o, "TURN_BINDING_MISMATCH")  BY <1>1 DEF BindTurn
  <2> QED BY <2>1, <2>2, FailWithSettled
<1>2. CASE o.maintTurn # turn
  <2>1. BindTurn(o, turn) = p  BY <1>2 DEF BindTurn
  <2>2. o \in Observer  BY DEF Settled, Formed
  <2>3. /\ a \in Observer /\ a.operation = turn /\ a.launches = o.launches
        /\ a.result = o.result /\ a.interrupts = o.interrupts /\ a.failure = o.failure
        /\ a.state = o.state /\ a.first = o.first /\ a.terminal = o.terminal
        /\ a.messages = o.messages /\ a.threads = o.threads /\ a.turns = o.turns
        /\ a.manual = o.manual /\ a.open = o.open /\ a.compactions = o.compactions
        /\ a.session = o.session /\ a.maintTurn = o.maintTurn
    BY <2>2 DEF Observer
  <2> HIDE DEF a
  <2>4. Partial(a, h)
    BY <2>3 DEF Settled, Observed, Partial, Formed, Flagged, Compacted
  <2>5. /\ Partial(p, h) /\ Later(a, p, h.directive) /\ Bound(p)
        /\ p.failure = None => p = a
    BY <2>4, ValidateRefsEffect
  <2>6. Witnessed(a)  BY <2>3 DEF Settled, Observed, Witnessed
  <2>7. Witnessed(p)  BY <2>5, <2>6 DEF Witnessed
  <2>8. Steady(o, a)  BY <2>3 DEF Steady
  <2>9. Steady(o, p)  BY <2>5, <2>8, LaterSteady, SteadyTransitive
  <2>10. turn # None  OBVIOUS
  <2> HIDE DEF p
  <2>11. p.failure = None =>
           /\ o.failure = None /\ p.operation # None /\ p.operation # p.maintTurn
           /\ p.session = o.session
           /\ Sealed(o, h.directive) => Sealed(p, h.directive)
    BY <1>2, <2>3, <2>5, <2>10 DEF Sealed
  <2> QED BY <2>1, <2>5, <2>7, <2>9, <2>11 DEF Settled, Observed, Partial
<1> QED BY <1>1, <1>2

LEMMA BeginCompactionEffect ==
  ASSUME NEW o, NEW h, Settled(o, h)
  PROVE  LET p == BeginManualCompaction(o, h.directive) IN
         Settled(p, h) /\ Steady(o, p) /\ p.session = o.session
<1> DEFINE a == [o EXCEPT !.manual = TRUE]
<1>1. CASE ~h.directive.manual \/ o.manual \/ o.compactions # 0
  <2>1. Ordinary("COMPACTION_POLICY_VIOLATION")  BY DEF Ordinary, FailureCodes
  <2>2. BeginManualCompaction(o, h.directive) = FailWith(o, "COMPACTION_POLICY_VIOLATION")
    BY <1>1 DEF BeginManualCompaction
  <2> QED BY <2>1, <2>2, FailWithSettled DEF Later
<1>2. CASE ~(~h.directive.manual \/ o.manual \/ o.compactions # 0)
  <2>1. BeginManualCompaction(o, h.directive) = a  BY <1>2 DEF BeginManualCompaction
  <2>2. o \in Observer  BY DEF Settled, Formed
  <2>3. /\ a \in Observer /\ a.session = o.session /\ a.operation = o.operation
        /\ a.launches = o.launches /\ a.result = o.result /\ a.interrupts = o.interrupts
        /\ a.failure = o.failure /\ a.state = o.state /\ a.first = o.first
        /\ a.terminal = o.terminal /\ a.messages = o.messages
        /\ a.threads = o.threads /\ a.turns = o.turns
    BY <2>2 DEF Observer
  <2> HIDE DEF a
  <2>4. Settled(a, h) /\ Steady(o, a)
    BY <1>2, <2>3
    DEF Settled, Observed, Formed, Flagged, Compacted, Bound, Witnessed, Steady
  <2> QED BY <2>1, <2>3, <2>4
<1> QED BY <1>1, <1>2

LEMMA FinishCompactionEffect ==
  ASSUME NEW o, NEW h, Settled(o, h)
  PROVE  LET p == FinishManualCompaction(o) IN
         /\ Settled(p, h) /\ Steady(o, p) /\ p.session = o.session
         /\ p.failure = None => Sealed(p, h.directive)
<1> DEFINE a == [o EXCEPT !.manual = FALSE]
           over == o.manual /\ o.compactions = 1 /\ o.open = {} /\ o.maintTurn # None /\ o.maintDone
<1>1. CASE ~over
  <2>1. Ordinary("COMPACTION_POLICY_VIOLATION")  BY DEF Ordinary, FailureCodes
  <2>2. FinishManualCompaction(o) = FailWith(o, "COMPACTION_POLICY_VIOLATION")
    BY <1>1 DEF FinishManualCompaction
  <2> QED BY <2>1, <2>2, FailWithSettled DEF Later
<1>2. CASE over
  <2>1. FinishManualCompaction(o) = a  BY <1>2 DEF FinishManualCompaction
  <2>2. o \in Observer  BY DEF Settled, Formed
  <2>3. /\ a \in Observer /\ a.session = o.session /\ a.operation = o.operation
        /\ a.launches = o.launches /\ a.result = o.result /\ a.interrupts = o.interrupts
        /\ a.failure = o.failure /\ a.state = o.state /\ a.first = o.first
        /\ a.terminal = o.terminal /\ a.messages = o.messages
        /\ a.threads = o.threads /\ a.turns = o.turns
        /\ ~a.manual /\ a.open = o.open /\ a.compactions = o.compactions
    BY <2>2 DEF Observer
  <2> HIDE DEF a
  <2>4. Settled(a, h) /\ Steady(o, a)
    BY <2>3
    DEF Settled, Observed, Formed, Flagged, Compacted, Bound, Witnessed, Steady
  <2>5. Sealed(a, h.directive)  BY <1>2, <2>3 DEF Sealed
  <2> QED BY <2>1, <2>3, <2>4, <2>5
<1> QED BY <1>1, <1>2

-----------------------------------------------------------------------------
(* The events of the host and the messages of the server *)

LEMMA Assemble ==
  ASSUME client' \in Client, server' \in Server, host' \in Host, report' \in Report,
         Talk(client', host', report'),
         Processes(client', server', observer', host', report'),
         Settled(observer', host'),
         Placed(client', server', observer', host', report'), host'.pc # "ENDED"
  PROVE  Inv'
<1>1. TypeOK'  BY DEF TypeOK, ClientTypeOK, Settled, Formed
<1>2. ResultIsOwnTurn'
  <2>1. ~report'.result /\ ~host'.yielded  BY DEF Placed
  <2> QED BY <2>1 DEF ResultIsOwnTurn
<1> QED BY <1>1, <1>2 DEF Inv, Settled

LEMMA InvFacts ==
  ASSUME Inv
  PROVE  /\ client \in Client /\ server \in Server /\ host \in Host /\ report \in Report
         /\ observer \in Observer /\ Settled(observer, host)
         /\ host.directive.manual \in BOOLEAN
BY DEF Inv, TypeOK, ClientTypeOK, Settled, Formed, Host, Directive

LEMMA RunningLater ==
  ASSUME NEW o, NEW p, NEW h, NEW g, NEW r, Running(o, h, r), Later(o, p, h.directive),
         Formed(o), Formed(p),
         g.pc = h.pc, g.event = h.event, g.thread = h.thread, g.directive = h.directive
  PROVE  Running(p, g, r)
<1>1. Sealed(o, h.directive) => Sealed(p, h.directive)  BY DEF Later, Sealed
<1>2. Sealed(o, h.directive) /\ Attached(o, r) => Attached(p, r)
  BY DEF Later, Sealed, Attached
<1>3. Waiting(o, h.event) => Waiting(p, h.event)
  <2> HAVE Waiting(o, h.event)
  <2>1. p.failure = None /\ FirstFinal(o) => FirstFinal(p)
    <3> HAVE p.failure = None /\ FirstFinal(o)
    <3>1. PICK i \in 1..Len(o.messages) :
            /\ o.messages[i] = o.terminal.item
            /\ \A j \in 1..(i - 1) : o.messages[j] \notin Final
      BY DEF FirstFinal
    <3>2. /\ Len(o.messages) \in Nat /\ Len(p.messages) \in Nat
          /\ Len(o.messages) <= Len(p.messages)
          /\ \A j \in 1..Len(o.messages) : p.messages[j] = o.messages[j]
      BY FormedFacts DEF Later
    <3>3. p.terminal = o.terminal  BY DEF Waiting, Later
    <3>4. i \in 1..Len(p.messages) /\ p.messages[i] = p.terminal.item  BY <3>1, <3>2, <3>3
    <3>5. \A j \in 1..(i - 1) : p.messages[j] \notin Final
      <4> TAKE j \in 1..(i - 1)
      <4>1. j \in 1..Len(o.messages)  BY <3>2
      <4> QED BY <3>1, <3>2, <4>1
    <3> QED BY <3>4, <3>5 DEF FirstFinal
  <2>2. p.terminal = o.terminal /\ p.session = o.session /\ p.operation = o.operation
        /\ p.interrupts = o.interrupts
    BY DEF Waiting, Later
  <2>3. p.failure = None => o.failure = None  BY DEF Later, Ordinary
  <2>4. p.failure = o.failure \/ Ordinary(p.failure)  BY DEF Later
  <2>5. Ordinary(p.failure) => p.failure # "BACKEND_TURN_FAILED" /\ p.failure # None
    BY DEF Ordinary
  <2> QED BY <2>1, <2>2, <2>3, <2>4, <2>5 DEF Waiting
<1>4. p.failure = "BACKEND_TURN_FAILED" => o.failure = "BACKEND_TURN_FAILED"
  BY DEF Later, Ordinary
<1>5. /\ r.stage \in OpenStages /\ p.state \in {"RUNNING", "FAILED", "INTERRUPTED"} /\ ~p.result
      /\ r.stage # "AUTHORIZED" => p.launches = 1
      /\ h.pc \notin {"INTERRUPT", "SHUTDOWN"} => p.interrupts = 0
      /\ h.pc = "POST_CONFIG" => h.thread # None
      /\ h.pc \in {"COMPACT", "TURN"} => p.session # None
  BY DEF Running, Later
<1>6. h.pc \in {"WAIT", "INTERRUPT"} \/ h.event # "NONE" =>
        Sealed(o, h.directive) /\ Attached(o, r)
  BY DEF Running
<1>7. /\ h.pc \in {"TURN", "WAIT", "INTERRUPT"} \/ h.event # "NONE" => Sealed(o, h.directive)
      /\ h.event # "NONE" => Waiting(o, h.event)
      /\ o.failure = "BACKEND_TURN_FAILED" => h.event = "FAILURE"
  BY DEF Running
<1> QED BY <1>1, <1>2, <1>3, <1>4, <1>5, <1>6, <1>7 DEF Running

LEMMA TalkDisturbed ==
  ASSUME NEW c \in Client, NEW f \in Client, NEW h, NEW g, NEW r, NEW code \in Codes,
         Talk(c, h, r), Disturbed(c, f, code), code = "HOST_CANCELLED" => g.aborted,
         g.pc = h.pc, h.aborted => g.aborted
  PROVE  Talk(f, g, r)
<1>1. ~Rejected(code).ok /\ (Rejected(code) = Rejected("HOST_CANCELLED") => code = "HOST_CANCELLED")
  <2>1. Rejected(code).code = code /\ Rejected("HOST_CANCELLED").code = "HOST_CANCELLED"
    BY DEF Rejected
  <2> QED BY <2>1 DEF Rejected
<1>2. code # None  OBVIOUS
<1>3. Recorded(f, r)  BY <1>1 DEF Talk, Recorded, Disturbed
<1>4. CancelledByHost(f, g)
  BY <1>1 DEF Talk, CancelledByHost, Disturbed
<1>5. Killing(f)  BY DEF Talk, Killing, Disturbed
<1>6. Asking(f, g)  BY <1>1, <1>2 DEF Talk, Asking, Disturbed
<1> QED BY <1>3, <1>4, <1>5, <1>6 DEF Talk

(* Where a run stands does not change while it waits. *)
SamePlace(h, g) ==
  /\ g.pc = h.pc /\ g.directive = h.directive /\ g.thread = h.thread /\ g.event = h.event
  /\ g.yielded = h.yielded /\ g.disposition = h.disposition
  /\ h.aborted => g.aborted
  /\ g.wake = "ABORT" => g.aborted

LEMMA SamePlaceItself == ASSUME Inv PROVE SamePlace(host, host)
BY DEF SamePlace, Inv, Placed

SameServer(s, t) ==
  /\ t \in Server /\ t.state = s.state /\ t.helper = s.helper /\ t.reused = s.reused
  /\ t.failed = s.failed

LEMMA SettledAborted ==
  ASSUME NEW o, NEW h, NEW g, Settled(o, h), g.directive = h.directive, h.aborted => g.aborted
  PROVE  Settled(o, g)
BY DEF Settled, Observed, Flagged

(* While a run waits, the client, the observer and the server move on. *)
LEMMA WaitingStep ==
  ASSUME Inv, host.pc \in Awaits, client' \in Client, client'.closed = client.closed,
         host' \in Host, SamePlace(host, host'), Talk(client', host', report),
         server.state = "STARTING" => client' = client,
         SameServer(server, server'),
         Settled(observer', host'), Later(observer, observer', host.directive),
         report' = report
  PROVE  Inv'
<1>1. Running(observer, host, report)  BY DEF Inv, Placed
<1>2. Formed(observer) /\ Formed(observer')  BY InvFacts DEF Settled
<1>3. Running(observer', host', report')
  BY <1>1, <1>2, RunningLater DEF SamePlace
<1>4. host.pc \notin {"IDLE", "ENDED", "RECOVERED"} \union Searching
  BY DEF Awaits, Reads, Searching
<1>5. Processes(client', server', observer', host', report')
  <2>1. Processes(client, server, observer, host, report)  BY DEF Inv
  <2>2. server.state = "STARTING" => Spawning(client', observer', host', report')
    BY <2>1 DEF Processes, Spawning, SamePlace, Later
  <2>3. server'.state = server.state /\ server'.helper = server.helper
        /\ server'.reused = server.reused /\ host'.pc = host.pc
        /\ host'.disposition = host.disposition
    BY DEF SameServer, SamePlace
  <2> QED BY <1>4, <2>1, <2>2, <2>3 DEF Processes, OwnedProcessGone, LeaderExists, GroupExists
<1>6. Placed(client', server', observer', host', report')
  <2>1. Placed(client, server, observer, host, report)  BY DEF Inv
  <2> QED BY <1>3, <1>4, <2>1 DEF Placed, SamePlace
<1> QED BY <1>4, <1>5, <1>6, InvFacts, Assemble DEF SamePlace, SameServer

(* The client fails, or not, for a reason other than a cancellation. *)
LEMMA ClientStep ==
  ASSUME Inv, host.pc \in Awaits, client' \in Client, Disturbed(client, client', "FAILED"),
         server.state # "STARTING",
         server' = server, observer' = observer, host' = host, report' = report
  PROVE  Inv'
<1>1. Talk(client, host, report)  BY DEF Inv
<1>2. "FAILED" \in Codes  BY DEF Codes
<1>3. Talk(client', host', report)  BY <1>1, <1>2, InvFacts, TalkDisturbed
<1>4. Later(observer, observer', host.directive)  BY InvFacts, LaterItself DEF Settled
<1>5. SameServer(server, server')  BY InvFacts DEF SameServer
<1>6. client'.closed = client.closed  BY DEF Disturbed
<1>7. SamePlace(host, host')  BY SamePlaceItself
<1> QED BY <1>3, <1>4, <1>5, <1>6, <1>7, InvFacts, WaitingStep

LEMMA StartingFacts ==
  ASSUME Inv, server.state = "STARTING"
  PROVE  /\ Spawning(client, observer, host, report)
         /\ client.pending = "spawn" /\ client.tracker = None /\ ~client.refusing
         /\ client.outcome = None /\ client.stage = "NONE" /\ ~client.closed
<1>1. Spawning(client, observer, host, report)  BY DEF Inv, Processes
<1> QED BY <1>1 DEF Spawning, Constructed, NoClient

LEMMA RequestTimeoutInv == ASSUME Inv, RequestTimeout PROVE Inv'
<1>1. "FAILED" \in Codes  BY DEF Codes
<1>2. client' \in Client /\ Disturbed(client, client', "FAILED")
  BY <1>1, InvFacts, FailEffect DEF RequestTimeout
<1>3. server.state # "STARTING"  BY StartingFacts DEF RequestTimeout
<1> QED BY <1>2, <1>3, ClientStep DEF RequestTimeout, Event

LEMMA RefusalSentInv == ASSUME Inv, RefusalSent PROVE Inv'
<1> DEFINE a == [client EXCEPT !.refusing = FALSE]
<1>1. "FAILED" \in Codes  BY DEF Codes
<1>2. a \in Client /\ Follows(client, a)  BY InvFacts DEF Follows, Same, Client
<1> HIDE DEF a
<1>3. Fail(a, "FAILED") \in Client /\ Disturbed(a, Fail(a, "FAILED"), "FAILED")
  BY <1>1, <1>2, FailEffect
<1>4. client' = Fail(a, "FAILED")  BY DEF RefusalSent, RefusalWritten, a
<1>5. Disturbed(client, client', "FAILED")
  BY <1>2, <1>3, <1>4 DEF Disturbed, Follows, Same
<1>6. server.state # "STARTING"  BY StartingFacts DEF RefusalSent
<1> QED BY <1>3, <1>4, <1>5, <1>6, ClientStep DEF RefusalSent, Event

LEMMA OutputEndsInv == ASSUME Inv, OutputEnds PROVE Inv'
<1>1. PICK partial \in BOOLEAN : client' = StdoutEnded(client, partial)  BY DEF OutputEnds
<1>2. client' \in Client /\ Disturbed(client, client', "FAILED")
  BY <1>1, InvFacts, StdoutEndedEffect
<1> QED BY <1>2, ClientStep DEF OutputEnds, Event

LEMMA GarbageInv == ASSUME Inv, Garbage PROVE Inv'
<1>1. "FAILED" \in Codes  BY DEF Codes
<1>2. client' \in Client /\ Disturbed(client, client', "FAILED")
  BY <1>1, InvFacts, FailEffect DEF Garbage
<1> QED BY <1>2, ClientStep DEF Garbage, Listening

LEMMA AbortInv == ASSUME Inv, Abort PROVE Inv'
<1>1. /\ host' \in Host /\ host'.aborted /\ host'.pc = host.pc /\ host'.directive = host.directive
      /\ host'.thread = host.thread /\ host'.event = host.event /\ host'.yielded = host.yielded
      /\ host'.disposition = host.disposition
      /\ host.pc = "IDLE" => host'.wake = host.wake
  BY InvFacts DEF Abort, Host, Wakes
<1>2. SamePlace(host, host')  BY <1>1 DEF SamePlace
<1>3. "HOST_CANCELLED" \in Codes  BY DEF Codes
<1>4. /\ client' \in Client /\ Disturbed(client, client', "HOST_CANCELLED")
      /\ client.pending \in {None, "spawn"} => client' = client
  <2>1. CASE client.pending \in Methods \ {"spawn", "initialize", "thread/compact/start",
                                          "turn/interrupt"}
    BY <1>3, <2>1, InvFacts, FailEffect DEF Abort
  <2>2. CASE client.pending \notin Methods \ {"spawn", "initialize", "thread/compact/start",
                                             "turn/interrupt"}
    BY <2>2, InvFacts DEF Abort, Disturbed
  <2> QED BY <2>1, <2>2
<1>5. Talk(client, host, report)  BY DEF Inv
<1>6. Talk(client', host', report)
  BY <1>1, <1>3, <1>4, <1>5, InvFacts, TalkDisturbed
<1>7. Settled(observer', host')
  BY <1>1, InvFacts, SettledAborted DEF Abort
<1>8. SameServer(server, server')  BY InvFacts DEF SameServer, Abort
<1>9. CASE host.pc \in Awaits
  <2>1. Later(observer, observer', host.directive)
    BY InvFacts, LaterItself DEF Settled, Abort
  <2>2. server.state = "STARTING" => client' = client
    BY <1>4, StartingFacts
  <2>3. client'.closed = client.closed  BY <1>4 DEF Disturbed
  <2> QED BY <1>1, <1>2, <1>4, <1>6, <1>7, <1>8, <1>9, <2>1, <2>2, <2>3, WaitingStep DEF Abort
<1>10. CASE host.pc = "IDLE"
  <2>1. client = NoClient  BY <1>10 DEF Inv, Placed
  <2>2. client' = client  BY <1>4, <2>1 DEF NoClient
  <2>3. Processes(client', server', observer', host', report')
    BY <1>1, <1>10, <2>2 DEF Inv, Processes, Abort, Spawning, Searching
  <2>4. host.pc \notin Awaits  BY <1>10 DEF Awaits, Reads
  <2>5. Placed(client', server', observer', host', report')
    BY <1>1, <1>10, <2>2, <2>4 DEF Inv, Placed, Abort
  <2> QED BY <1>1, <1>4, <1>6, <1>7, <1>10, <2>3, <2>5, InvFacts, Assemble DEF Abort
<1> QED BY <1>9, <1>10 DEF Abort, Event

LEMMA TurnTimeoutInv == ASSUME Inv, TurnTimeout PROVE Inv'
<1>1. /\ host' \in Host /\ host'.pc = host.pc /\ host'.directive = host.directive
      /\ host'.thread = host.thread /\ host'.event = host.event /\ host'.yielded = host.yielded
      /\ host'.disposition = host.disposition /\ host'.aborted = host.aborted
      /\ host'.wake = "TIMEOUT"
  BY InvFacts DEF TurnTimeout, Host, Wakes
<1>2. SamePlace(host, host')  BY <1>1 DEF SamePlace
<1>3. Talk(client', host', report)
  BY <1>1 DEF Inv, Talk, TurnTimeout, CancelledByHost, Asking
<1>4. Settled(observer', host')  BY <1>1, InvFacts, SettledAborted DEF TurnTimeout
<1>5. SameServer(server, server')  BY InvFacts DEF SameServer, TurnTimeout
<1>6. Later(observer, observer', host.directive)
  BY InvFacts, LaterItself DEF Settled, TurnTimeout
<1> QED BY <1>1, <1>2, <1>3, <1>4, <1>5, <1>6, InvFacts, WaitingStep DEF TurnTimeout, Event

LEMMA ShutdownTimeoutInv == ASSUME Inv, ShutdownTimeout PROVE Inv'
<1>1. Talk(client, host, report)  BY DEF Inv
<1>2. /\ client' \in Client /\ Killing(client')
      /\ client'.closed = client.closed /\ client'.ready = client.ready
      /\ client'.pending = client.pending /\ client'.outcome = client.outcome
      /\ client'.failure \in {client.failure, "FAILED"}
  BY <1>1, InvFacts, ShutdownTimerEffect DEF ShutdownTimeout, Talk
<1>3. host.pc = "SHUTDOWN"
  BY <1>1 DEF ShutdownTimeout, Event, Talk, Asking
<1>4. Talk(client', host', report)
  BY <1>1, <1>2, <1>3 DEF Talk, Recorded, CancelledByHost, Asking, ShutdownTimeout, Awaits, Reads
<1>5. SameServer(server, server')  BY InvFacts DEF SameServer, ShutdownTimeout
<1>6. Later(observer, observer', host.directive)
  BY InvFacts, LaterItself DEF Settled, ShutdownTimeout
<1>7. server.state # "STARTING"  BY StartingFacts DEF ShutdownTimeout
<1>8. SamePlace(host, host')  BY SamePlaceItself DEF ShutdownTimeout
<1> QED BY <1>2, <1>4, <1>5, <1>6, <1>7, <1>8, InvFacts, WaitingStep DEF ShutdownTimeout, Event

LEMMA CloseInv == ASSUME Inv, Close PROVE Inv'
<1>1. PICK failed \in BOOLEAN :
        server' = [server EXCEPT !.state = "EXITED", !.failed = @ \/ failed]
  BY DEF Close
<1>2. /\ server' \in Server /\ server'.state = "EXITED" /\ server'.helper = server.helper
      /\ server'.reused = server.reused
  <2>1. PICK f \in BOOLEAN : f = (server.failed \/ failed)  OBVIOUS
  <2>2. server' = [server EXCEPT !.state = "EXITED", !.failed = f]  BY <1>1, <2>1
  <2> QED BY <2>2, InvFacts DEF Server
<1>3. Talk(client, host, report)  BY DEF Inv
<1>4. /\ client' \in Client /\ client'.closed /\ ~client'.ready
      /\ client'.stage = client.stage /\ client'.stopping = client.stopping
      /\ client'.signal = client.signal
      /\ client'.failure = client.failure \/ client'.failure = "FAILED"
      /\ \/ client'.pending = client.pending /\ client'.outcome = client.outcome
         \/ client'.pending = None /\ client'.outcome = Rejected("FAILED")
  BY InvFacts, ProcessExitedEffect DEF Close
<1>5. ~Rejected("FAILED").ok /\ Rejected("FAILED") # Rejected("HOST_CANCELLED")
  <2>1. Rejected("FAILED").code = "FAILED" /\ Rejected("HOST_CANCELLED").code = "HOST_CANCELLED"
    BY DEF Rejected
  <2> QED BY <2>1 DEF Rejected
<1>6. Talk(client', host', report')
  <2>1. Recorded(client', report') /\ CancelledByHost(client', host') /\ Killing(client')
    BY <1>3, <1>4, <1>5 DEF Talk, Recorded, CancelledByHost, Killing, Close
  <2>2. Asking(client', host')
    BY <1>3, <1>4, <1>5 DEF Talk, Asking, Close
  <2> QED BY <2>1, <2>2 DEF Talk
<1>7. host' = host /\ observer' = observer /\ report' = report /\ host.pc \in Awaits
  BY DEF Close, Event
<1>8. host.pc \notin {"IDLE", "ENDED", "RECOVERED"} \union Searching
  BY <1>7 DEF Awaits, Reads, Searching
<1>9. Processes(client', server', observer', host', report')
  BY <1>2, <1>7, <1>8 DEF Inv, Processes, Dispositions
<1>10. Placed(client', server', observer', host', report')
  BY <1>7, <1>8 DEF Inv, Placed
<1> QED BY <1>2, <1>4, <1>6, <1>7, <1>8, <1>9, <1>10, InvFacts, Assemble

LEMMA ListeningFacts ==
  ASSUME Inv, Listening
  PROVE  host.pc \in Awaits /\ server.state # "STARTING" /\ client.failure = None /\ ~client.closed
BY DEF Listening

LEMMA ReplyInv == ASSUME Inv, Reply PROVE Inv'
<1>1. PICK body \in Replies \union {"ERROR", "MALFORMED"} : client' = ReceiveResponse(client, body)
  BY DEF Reply
<1>2. client.pending \in Methods \ {"spawn"}  BY InvFacts DEF Reply, Client
<1>3. Replies \subseteq Values /\ (client.pending = "turn/start" => Replies = Turns)
  BY <1>2 DEF Methods, Replies, ReadReplies, ThreadReplies, Values
<1>4. body \in Values \union {"ERROR", "MALFORMED"}  BY <1>3
<1>5. client' \in Client /\ Responded(client, client', body)
  BY <1>1, <1>4, InvFacts, ReceiveResponseEffect
<1>6. Talk(client, host, report)  BY DEF Inv
<1>7. report.stage # "AUTHORIZED"  BY <1>2, <1>6 DEF Talk, Recorded
<1>8. \A code \in {"REQUEST_REJECTED", "FAILED"} :
        ~Rejected(code).ok /\ Rejected(code) # Rejected("HOST_CANCELLED")
  <2>1. TAKE code \in {"REQUEST_REJECTED", "FAILED"}
  <2>2. Rejected(code).code = code /\ Rejected("HOST_CANCELLED").code = "HOST_CANCELLED"
    BY DEF Rejected
  <2> QED BY <2>2 DEF Rejected
<1>9. body \in Values =>
        /\ Answered(body).ok /\ Answered(body).value = body
        /\ Answered(body) # Rejected("HOST_CANCELLED") /\ body \in Replies
  BY AnsweredType DEF Answered, Rejected
<1>10. "FAILED" # None  BY DEF Codes
<1>11. Recorded(client', report) /\ CancelledByHost(client', host)
  BY <1>5, <1>6, <1>7, <1>8, <1>9 DEF Talk, Recorded, CancelledByHost, Responded
<1>12. Killing(client')  BY <1>5, <1>6 DEF Talk, Killing, Responded
<1>13. Asking(client', host)
  <2>1. Asking(client, host)  BY <1>6 DEF Talk
  <2>2. client.failure = None /\ ~client.closed  BY ListeningFacts DEF Reply
  <2>3. host.pc = "TURN" => client.pending = "turn/start"
    BY <1>2, <2>1, <2>2 DEF Asking
  <2> QED BY <1>3, <1>5, <1>8, <1>9, <1>10, <2>1, <2>2, <2>3 DEF Asking, Responded
<1>14. Talk(client', host', report)  BY <1>11, <1>12, <1>13 DEF Talk, Reply
<1>15. SameServer(server, server')  BY InvFacts DEF SameServer, Reply
<1>16. Later(observer, observer', host.directive)
  BY InvFacts, LaterItself DEF Settled, Reply
<1>17. SamePlace(host, host')  BY SamePlaceItself DEF Reply
<1>18. client'.closed = client.closed  BY <1>5 DEF Responded
<1> QED BY <1>5, <1>14, <1>15, <1>16, <1>17, <1>18, InvFacts, ListeningFacts, WaitingStep DEF Reply

LEMMA SendsServer ==
  ASSUME Inv, NEW stray, Sends(stray)
  PROVE  SameServer(server, server')
<1>1. CASE stray
  <2>1. server' = [server EXCEPT !.stray = @ + 1] /\ server.stray < MaxStray
    BY <1>1 DEF Sends
  <2>2. server.stray + 1 \in 0..MaxStray  BY <2>1, InvFacts DEF Server
  <2> QED BY <2>1, <2>2, InvFacts DEF SameServer, Server
<1>2. CASE ~stray
  <2>1. server' = [server EXCEPT !.stray = @]  BY <1>2 DEF Sends
  <2> QED BY <2>1, InvFacts DEF SameServer, Server
<1> QED BY <1>1, <1>2

(* A message that reached the client, and perhaps the observer. *)
LEMMA MessageStep ==
  ASSUME Inv, Listening, client' \in Client, Disturbed(client, client', "FAILED"),
         SameServer(server, server'),
         Settled(observer', host), Later(observer, observer', host.directive),
         host' = host, report' = report
  PROVE  Inv'
<1>1. Talk(client, host, report)  BY DEF Inv
<1>2. "FAILED" \in Codes  BY DEF Codes
<1>3. Talk(client', host', report)  BY <1>1, <1>2, InvFacts, TalkDisturbed
<1>4. client'.closed = client.closed  BY DEF Disturbed
<1>5. SamePlace(host, host')  BY SamePlaceItself
<1> QED BY <1>3, <1>4, <1>5, InvFacts, ListeningFacts, WaitingStep

LEMMA ServerNotifiesInv == ASSUME Inv, ServerNotifies PROVE Inv'
<1>1. Listening /\ host' = host /\ report' = report  BY DEF ServerNotifies
<1>2. "FAILED" \in Codes  BY DEF Codes
<1>3. CASE client.handshake
  <2>1. PICK n \in Notification : Sends(~Expected(n)) /\ Notify(n)
    BY <1>3 DEF ServerNotifies
  <2> DEFINE c == ObserveCompaction(client, n)
             e == CompactionEvent(client, n)
             o == IF e = None THEN observer ELSE RecordCompaction(observer, host.directive, e)
  <2>2. client' = c /\ observer' = IF c.failure # None THEN o ELSE RecordNotification(o, n)
    BY <2>1 DEF Notify
  <2>3. c \in Client /\ Disturbed(client, c, "FAILED")
    BY InvFacts, ObserveCompactionEffect
  <2>4. Settled(o, host) /\ Later(observer, o, host.directive)
    <3>1. CASE e = None
      BY <3>1, InvFacts, LaterItself DEF Settled
    <3>2. CASE e # None
      <4>1. EventOf(e, n)  BY <3>2, InvFacts, CompactionEventType
      <4> HIDE DEF e
      <4> QED BY <3>2, <4>1, InvFacts, RecordCompactionEffect
    <3> QED BY <3>1, <3>2
  <2> HIDE DEF o, c
  <2>5. /\ Settled(RecordNotification(o, n), host)
        /\ Later(o, RecordNotification(o, n), host.directive)
    BY <2>4, RecordNotificationEffect
  <2>6. Settled(observer', host) /\ Later(observer, observer', host.directive)
    <3>1. CASE c.failure # None
      BY <2>2, <2>4, <3>1
    <3>2. CASE c.failure = None
      <4>1. observer' = RecordNotification(o, n)  BY <2>2, <3>2
      <4>2. Later(observer, observer', host.directive)
        BY <2>4, <2>5, <4>1, InvFacts, LaterTransitive DEF Settled
      <4> QED BY <2>5, <4>1, <4>2
    <3> QED BY <3>1, <3>2
  <2>7. SameServer(server, server')  BY <2>1, SendsServer
  <2> QED BY <1>1, <2>2, <2>3, <2>6, <2>7, MessageStep
<1>4. CASE ~client.handshake
  <2>1. Sends(TRUE) /\ client' = Fail(client, "FAILED") /\ observer' = observer
    BY <1>4 DEF ServerNotifies, BeforeHandshake
  <2>2. client' \in Client /\ Disturbed(client, client', "FAILED")
    BY <1>2, <2>1, InvFacts, FailEffect
  <2>3. Later(observer, observer', host.directive)
    BY <2>1, InvFacts, LaterItself DEF Settled
  <2>4. SameServer(server, server')  BY <2>1, SendsServer
  <2> QED BY <1>1, <2>1, <2>2, <2>3, <2>4, InvFacts, MessageStep
<1> QED BY <1>3, <1>4

LEMMA ServerRequestsInv == ASSUME Inv, ServerRequests PROVE Inv'
<1>1. Listening /\ host' = host /\ report' = report /\ Sends(TRUE)  BY DEF ServerRequests
<1>2. SameServer(server, server')  BY <1>1, SendsServer
<1>3. CASE client' = client /\ \E thread \in Threads, turn \in Turns :
             observer' = RecordApproval(observer, thread, turn)
  <2>1. Settled(observer', host) /\ Later(observer, observer', host.directive)
    BY <1>3, InvFacts, RecordApprovalEffect
  <2>2. Disturbed(client, client', "FAILED")  BY <1>3 DEF Disturbed
  <2> QED BY <1>1, <1>2, <1>3, <2>1, <2>2, InvFacts, MessageStep
<1>4. CASE client' = RefuseServerRequest(client) /\ observer' = observer
  <2>1. client' \in Client /\ Disturbed(client, client', "FAILED")
    BY <1>4, InvFacts DEF RefuseServerRequest, Disturbed, Client
  <2>2. Later(observer, observer', host.directive)
    BY <1>4, InvFacts, LaterItself DEF Settled
  <2> QED BY <1>1, <1>2, <1>4, <2>1, <2>2, InvFacts, MessageStep
<1> QED BY <1>3, <1>4 DEF ServerRequests

(* The report the driver accepted, or the refusal of it. *)
LEMMA ReportedType ==
  ASSUME NEW r \in Report, NEW bound, NEW stored, NEW accepted \in Report,
         accepted.refused = r.refused
  PROVE  LET q == Reported(r, bound, stored, accepted) IN
         /\ q \in Report /\ (q.refused = "NO" => q = accepted /\ bound)
         /\ q.refused # "NO" => /\ q.stage = r.stage /\ q.session = r.session
                                /\ q.operation = r.operation /\ q.result = r.result
<1>1. CASE r.refused # "NO"
  BY <1>1 DEF Reported
<1>2. CASE r.refused = "NO" /\ ~bound
  BY <1>2 DEF Reported, Report
<1>3. CASE r.refused = "NO" /\ bound /\ ~stored
  BY <1>3 DEF Reported, Report
<1>4. CASE r.refused = "NO" /\ bound /\ stored
  BY <1>4 DEF Reported
<1> QED BY <1>1, <1>2, <1>3, <1>4

LEMMA SpawnOutcomeInv == ASSUME Inv, SpawnOutcome PROVE Inv'
<1>1. /\ host.pc = "INIT" /\ client = Constructed /\ observer.launches = 0
      /\ report.stage = "AUTHORIZED" /\ host' = host /\ ~server.helper /\ ~server.reused
  BY StartingFacts DEF SpawnOutcome, Spawning, Inv, Processes, Searching
<1>2. PICK admitted \in BOOLEAN :
        /\ client' = Spawned(Constructed, admitted)
        /\ server' \in Server /\ server'.state \in {"EXITED", "RUNNING"}
        /\ ~server'.helper /\ ~server'.reused
        /\ report' \in Report /\ report'.stage \in OpenStages /\ ~report'.result
        /\ admitted => report'.stage # "AUTHORIZED"
        /\ \/ observer' = observer /\ report' = report
           \/ observer' = [observer EXCEPT !.launches = 1]
  <2>1. report.stage \in OpenStages /\ ~report.result
    BY <1>1 DEF OpenStages, Inv, Placed
  <2>2. CASE /\ client' = Spawned(client, FALSE)
             /\ server' = [server EXCEPT !.state = "EXITED", !.failed = TRUE]
             /\ UNCHANGED <<observer, report>>
    BY <1>1, <2>1, <2>2, InvFacts DEF Server
  <2>3. CASE /\ client' = Spawned(client, FALSE)
             /\ server' = [server EXCEPT !.state = "RUNNING"]
             /\ UNCHANGED <<observer, report>>
    BY <1>1, <2>1, <2>3, InvFacts DEF Server
  <2>4. ASSUME NEW stored \in BOOLEAN,
               report' = ProcessStarted(report, stored),
               observer' = [observer EXCEPT !.launches = @ + 1],
               client' = Spawned(client, report'.refused = "NO"),
               server' = [server EXCEPT !.state = "RUNNING"]
        PROVE  /\ observer' = [observer EXCEPT !.launches = 1]
               /\ server' \in Server /\ server'.state = "RUNNING"
               /\ ~server'.helper /\ ~server'.reused
               /\ report' \in Report /\ report'.stage \in OpenStages /\ ~report'.result
               /\ report'.refused = "NO" => report'.stage # "AUTHORIZED"
    <3> DEFINE accepted == [report EXCEPT !.stage = "PROCESS_OBSERVED"]
    <3>1. /\ accepted \in Report /\ accepted.stage = "PROCESS_OBSERVED"
          /\ accepted.result = report.result /\ accepted.refused = report.refused
      BY InvFacts DEF Report
    <3> HIDE DEF accepted
    <3>2. report' = Reported(report, report.stage = "AUTHORIZED", stored, accepted)
      BY <2>4 DEF ProcessStarted, accepted
    <3>3. /\ report' \in Report /\ report'.stage \in {report.stage, "PROCESS_OBSERVED"}
          /\ report'.result = report.result
          /\ report'.refused = "NO" => report'.stage = "PROCESS_OBSERVED"
      BY <3>1, <3>2, InvFacts, ReportedType
    <3>4. server' \in Server /\ server'.state = "RUNNING" /\ ~server'.helper /\ ~server'.reused
      BY <1>1, <2>4, InvFacts DEF Server
    <3> QED BY <1>1, <2>1, <2>4, <3>3, <3>4 DEF OpenStages
  <2>5. ASSUME NEW stored \in BOOLEAN,
               report' = ProcessStarted(report, stored),
               observer' = [observer EXCEPT !.launches = @ + 1],
               client' = Spawned(client, report'.refused = "NO"),
               server' = [server EXCEPT !.state = "RUNNING"]
        PROVE  \E admitted \in BOOLEAN :
                 /\ client' = Spawned(Constructed, admitted)
                 /\ admitted => report'.stage # "AUTHORIZED"
    BY <1>1, <2>4, <2>5
  <2> QED BY <2>2, <2>3, <2>4, <2>5 DEF SpawnOutcome
<1>3. /\ client' \in Client /\ ~client'.ready /\ ~client'.closed /\ ~client'.stopping
      /\ client'.stage = "NONE" /\ client'.failure \in {None, "FAILED"}
      /\ \/ client'.pending = "initialize" /\ admitted /\ client'.outcome = None
         \/ client'.pending = None /\ client'.outcome = Rejected("FAILED")
  BY <1>2, SpawnedEffect
<1>4. ~Rejected("FAILED").ok /\ Rejected("FAILED") # Rejected("HOST_CANCELLED")
      /\ None # Rejected("HOST_CANCELLED") /\ None # "HOST_CANCELLED"
  <2>1. Rejected("FAILED").code = "FAILED" /\ Rejected("HOST_CANCELLED").code = "HOST_CANCELLED"
    BY DEF Rejected
  <2>2. "HOST_CANCELLED" \in Codes  BY DEF Codes
  <2> QED BY <2>1, <2>2, RejectedType DEF Rejected
<1>5. Talk(client', host', report')
  BY <1>1, <1>2, <1>3, <1>4 DEF Talk, Recorded, CancelledByHost, Killing, Asking
<1>6. /\ Settled(observer', host')
      /\ observer'.state = observer.state /\ observer'.result = observer.result
      /\ observer'.interrupts = observer.interrupts /\ observer'.failure = observer.failure
      /\ report'.stage # "AUTHORIZED" => observer'.launches = 1
  <2>1. CASE observer' = observer /\ report' = report
    BY <1>1, <2>1, InvFacts
  <2>2. CASE observer' = [observer EXCEPT !.launches = 1]
    <3>1. /\ observer' \in Observer /\ observer'.launches = 1
          /\ observer'.state = observer.state /\ observer'.result = observer.result
          /\ observer'.interrupts = observer.interrupts /\ observer'.failure = observer.failure
          /\ observer'.first = observer.first /\ observer'.terminal = observer.terminal
          /\ observer'.threads = observer.threads /\ observer'.turns = observer.turns
          /\ observer'.session = observer.session /\ observer'.operation = observer.operation
          /\ observer'.manual = observer.manual /\ observer'.open = observer.open
          /\ observer'.compactions = observer.compactions
          /\ observer'.messages = observer.messages
      BY <2>2, InvFacts DEF Observer
    <3>2. Settled(observer, host)  BY InvFacts
    <3>3. Formed(observer')  BY <3>1, <3>2 DEF Settled, Formed
    <3>4. Observed(observer', host)
      BY <3>1, <3>2 DEF Settled, Observed, Flagged, Bound, Witnessed, Compacted
    <3> QED BY <1>1, <3>1, <3>3, <3>4 DEF Settled
  <2> QED BY <1>2, <2>1, <2>2
<1>7. Running(observer, host, report) /\ host.event = "NONE"
  BY <1>1 DEF Inv, Placed, Awaits
<1>8. Running(observer', host', report')
  BY <1>1, <1>2, <1>6, <1>7 DEF Running
<1>9. Placed(client', server', observer', host', report')
  BY <1>1, <1>2, <1>7, <1>8 DEF Inv, Placed
<1>10. Processes(client', server', observer', host', report')
  BY <1>1, <1>2, <1>3 DEF Inv, Processes, Searching, Dispositions
<1> QED BY <1>1, <1>2, <1>3, <1>5, <1>6, <1>9, <1>10, InvFacts, Assemble

-----------------------------------------------------------------------------
(* The steps of the run *)

(* A run that goes on: what is not where it stands stays. *)
Moves(h, g) ==
  /\ g.directive = h.directive /\ g.aborted = h.aborted /\ g.yielded = h.yielded
  /\ g.disposition = h.disposition
  /\ g.wake = "ABORT" => g.aborted

LEMMA MovedStep ==
  ASSUME Inv, host.pc \in Awaits, server.state # "STARTING",
         client' \in Client, client'.closed = client.closed, server' = server,
         host' \in Host, host'.pc \in Awaits, Moves(host, host'),
         host'.pc # "SHUTDOWN" => host'.event = "NONE",
         report' \in Report, report'.result = report.result,
         Talk(client', host', report'),
         Settled(observer', host), Running(observer', host', report')
  PROVE  Inv'
<1>1. /\ server.state # "NONE" /\ ~server.helper /\ ~server.reused /\ host.disposition = None
      /\ client.closed => server.state = "EXITED"
      /\ ~host.yielded /\ ~report.result
  BY DEF Inv, Processes, Placed, Awaits, Reads, Searching
<1>2. Processes(client', server', observer', host', report')
  BY <1>1, NoneIsNoObservation DEF Processes, Awaits, Reads, Searching, Moves, Dispositions
<1>3. Settled(observer', host')
  BY SettledAborted DEF Moves
<1>4. Placed(client', server', observer', host', report')
  BY <1>1 DEF Placed, Awaits, Reads, Moves
<1>5. server' \in Server  BY InvFacts
<1> QED BY <1>2, <1>3, <1>4, <1>5, Assemble DEF Awaits, Reads

(* What holds of a run whose promise was settled. *)
LEMMA ContinuesFacts ==
  ASSUME Inv, NEW pc \in Awaits, Continues(pc)
  PROVE  /\ host.pc = pc /\ server.state # "STARTING"
         /\ Running(observer, host, report)
         /\ pc \notin {"WAIT", "SHUTDOWN"} => client.outcome # None
         /\ pc # "SHUTDOWN" => client.pending = None
         /\ pc # "SHUTDOWN" => host.event = "NONE" /\ observer.failure # "BACKEND_TURN_FAILED"
         /\ pc \notin {"INIT", "SHUTDOWN"} =>
              ~client.stopping /\ client.stage = "NONE"
                /\ (client.failure = None /\ ~client.closed => client.ready)
         /\ host.wake = "ABORT" => host.aborted
<1>1. host.pc = pc /\ AwaitSettled  BY DEF Continues
<1>2. Running(observer, host, report)  BY <1>1 DEF Inv, Placed
<1>3. pc \notin {"WAIT", "SHUTDOWN"} => client.outcome # None
  BY <1>1 DEF AwaitSettled, CompactionSettled, Awaits, Reads
<1>7. pc # "SHUTDOWN" => client.pending = None
  BY <1>1, <1>3 DEF Inv, Talk, Asking
<1>4. server.state # "STARTING"
  BY <1>1, <1>3, StartingFacts DEF Spawning
<1>5. pc # "SHUTDOWN" => host.event = "NONE"
  BY <1>1 DEF Inv, Placed, Awaits, Reads
<1>6. host.wake = "ABORT" => host.aborted  BY DEF Inv, Placed
<1> QED BY <1>1, <1>2, <1>3, <1>4, <1>5, <1>6, <1>7 DEF Running, Inv, Talk, Asking

(* The client is shut down, whatever was in flight. *)
LEMMA ShutStep ==
  ASSUME Inv, host.pc \in Awaits, server.state # "STARTING",
         NEW c \in Client, c.closed = client.closed,
         Recorded(c, report), CancelledByHost(c, host), Killing(c),
         client' = Shutdown(Taken(c)), server' = server,
         host' \in Host, host'.pc = "SHUTDOWN", Moves(host, host'),
         report' \in Report, report'.result = report.result,
         report'.stage = "AUTHORIZED" => report.stage = "AUTHORIZED",
         Settled(observer', host), Running(observer', host', report')
  PROVE  Inv'
<1> DEFINE t == Taken(c)
<1>1. t \in Client /\ Same(c, t) /\ t.outcome = None  BY TakenEffect
<1>2. client' = Shutdown(t)  OBVIOUS
<1> HIDE DEF t
<1>3. client' \in Client /\ Closing(t, client')  BY <1>1, <1>2, ShutdownEffect
<1>6. /\ Rejected("SHUTDOWN") # Rejected("HOST_CANCELLED") /\ ~Rejected("SHUTDOWN").ok
      /\ None # Rejected("HOST_CANCELLED")
  <2>1. Rejected("SHUTDOWN").code = "SHUTDOWN" /\ Rejected("HOST_CANCELLED").code = "HOST_CANCELLED"
    BY DEF Rejected
  <2>2. "HOST_CANCELLED" \in Codes  BY DEF Codes
  <2> QED BY <2>1, <2>2, RejectedType DEF Rejected
<1>7. client'.outcome \in {None, Rejected("SHUTDOWN")}
  BY <1>1, <1>3 DEF Closing
<1>8. Recorded(client', report') /\ CancelledByHost(client', host')
  BY <1>1, <1>3, <1>6, <1>7 DEF Recorded, CancelledByHost, Closing, Same, Moves
<1>9. Killing(client')
  BY <1>1, <1>3 DEF Killing, Closing, Same
<1>10. Asking(client', host')
  BY DEF Asking, Awaits, Reads
<1>11. client'.closed = client.closed  BY <1>1, <1>3 DEF Closing, Same
<1> QED BY <1>3, <1>8, <1>9, <1>10, <1>11, MovedStep DEF Talk, Awaits

(* An error ends the run. *)
LEMMA ThrownStep ==
  ASSUME Inv, NEW pc \in Awaits \ {"SHUTDOWN"}, Continues(pc),
         NEW c \in Client, c.closed = client.closed,
         Recorded(c, report), CancelledByHost(c, host), Killing(c),
         NEW o, Settled(o, host), Steady(observer, o),
         NEW code, Thrown(code), observer' = Caught(o, code),
         client' = Shutdown(Taken(c)), server' = server,
         host' = [host EXCEPT !.pc = "SHUTDOWN"],
         report' \in Report, report'.result = report.result,
         report'.stage \in OpenStages,
         report'.stage = "AUTHORIZED" <=> report.stage = "AUTHORIZED"
  PROVE  Inv'
<1>1. /\ host.pc = pc /\ server.state # "STARTING" /\ Running(observer, host, report)
      /\ host.event = "NONE" /\ observer.failure # "BACKEND_TURN_FAILED"
  BY ContinuesFacts
<1>2. o.failure # "BACKEND_TURN_FAILED"  BY <1>1 DEF Steady
<1>3. Settled(observer', host) /\ Steady(o, observer')
  BY <1>2, CaughtEffect
<1>4. Steady(observer, observer')  BY <1>3, SteadyTransitive
<1>5. /\ host' \in Host /\ host'.pc = "SHUTDOWN" /\ host'.event = "NONE" /\ Moves(host, host')
  BY <1>1, InvFacts DEF Host, Awaits, Moves, Inv, Placed
<1>6. Running(observer', host', report')
  BY <1>1, <1>4, <1>5 DEF Running, Steady
<1> QED BY <1>1, <1>3, <1>5, <1>6, ShutStep

LEMMA ThrowInv ==
  ASSUME Inv, NEW pc \in Awaits \ {"SHUTDOWN"}, Continues(pc),
         NEW o, Settled(o, host), Steady(observer, o), NEW code, Thrown(code), Throw(o, code),
         server' = server, report' \in Report, report'.result = report.result,
         report'.stage \in OpenStages,
         report'.stage = "AUTHORIZED" <=> report.stage = "AUTHORIZED"
  PROVE  Inv'
<1>1. /\ client \in Client /\ Recorded(client, report) /\ CancelledByHost(client, host)
      /\ Killing(client)
  BY InvFacts DEF Inv, Talk
<1>2. /\ observer' = Caught(o, code) /\ client' = Shutdown(Taken(client))
      /\ host' = [host EXCEPT !.pc = "SHUTDOWN"]
  BY DEF Throw
<1> QED BY <1>1, <1>2, ThrownStep

(* The same, when nothing was reported. *)
LEMMA ThrowUnreported ==
  ASSUME Inv, NEW pc \in Awaits \ {"SHUTDOWN"}, Continues(pc),
         NEW o, Settled(o, host), Steady(observer, o), NEW code, Thrown(code), Throw(o, code),
         server' = server, report' = report
  PROVE  Inv'
<1>1. report.stage \in OpenStages  BY ContinuesFacts DEF Running
<1> QED BY <1>1, InvFacts, ThrowInv

LEMMA RequestFailureThrown ==
  ASSUME Inv, client.outcome # None, ~client.outcome.ok
  PROVE  Thrown(RequestFailure)
<1>1. CASE client.outcome.code = "HOST_CANCELLED"
  <2>1. client.outcome = Rejected("HOST_CANCELLED")
    <3>1. client.outcome \in [ok : {FALSE}, code : Codes]
      BY InvFacts DEF Client, Outcome
    <3> QED BY <1>1, <3>1 DEF Rejected
  <2>2. host.aborted  BY <2>1 DEF Inv, Talk, CancelledByHost
  <2> QED BY <1>1, <2>2 DEF RequestFailure, Thrown, FailureCodes
<1>2. CASE client.outcome.code # "HOST_CANCELLED"
  BY <1>2 DEF RequestFailure, Thrown, FailureCodes
<1> QED BY <1>1, <1>2

(* The observer's own failure is the one that is thrown. *)
LEMMA FailureThrown ==
  ASSUME NEW o, Settled(o, host), o.failure \notin {None, "BACKEND_TURN_FAILED"}
  PROVE  Thrown(o.failure)
BY DEF Settled, Formed, Observer, Observed, Flagged, Thrown

(* A client that goes on may be asked for something. *)
Asks(c) ==
  /\ Recorded(c, report) /\ CancelledByHost(c, host) /\ Killing(c)
  /\ c.closed = client.closed /\ ~c.stopping /\ c.stage = "NONE"
  /\ c.failure = None /\ ~c.closed => c.ready

(* A request was made, or refused, in the place where the run waits for it. *)
LEMMA AskedStep ==
  ASSUME Inv, host.pc \in Awaits, server.state # "STARTING",
         NEW c \in Client, Asks(c),
         NEW method \in Methods \ {"spawn"},
         client' \in Client, Asked(c, client', method, host.aborted),
         host' \in Host, Moves(host, host'), host'.event = "NONE",
         c.pending = None,
         \/ host'.pc \in Reads \union {"THREAD", "COMPACT", "INTERRUPT"}
         \/ host'.pc = "TURN" /\ method = "turn/start",
         server' = server,
         report' \in Report, report'.result = report.result,
         report'.stage = "AUTHORIZED" => report.stage = "AUTHORIZED",
         Settled(observer', host), Running(observer', host', report')
  PROVE  Inv'
<1>1. /\ Rejected("SHUTDOWN") # Rejected("HOST_CANCELLED") /\ ~Rejected("SHUTDOWN").ok
      /\ ~Rejected("HOST_CANCELLED").ok
      /\ None # Rejected("HOST_CANCELLED") /\ None # Rejected("SHUTDOWN")
  <2>1. Rejected("SHUTDOWN").code = "SHUTDOWN" /\ Rejected("HOST_CANCELLED").code = "HOST_CANCELLED"
    BY DEF Rejected
  <2>2. "HOST_CANCELLED" \in Codes /\ "SHUTDOWN" \in Codes  BY DEF Codes
  <2> QED BY <2>1, <2>2, RejectedType DEF Rejected
<1>2. /\ client'.closed = c.closed /\ client'.stage = c.stage /\ client'.stopping = c.stopping
      /\ client'.ready = c.ready /\ client'.failure = c.failure /\ client'.signal = c.signal
      /\ \/ client'.pending = method /\ client'.outcome = None /\ c.ready
         \/ /\ client'.pending = c.pending
            /\ ~c.ready \/ c.stopping \/ c.closed \/ c.failure # None \/ host.aborted
            /\ \/ client'.outcome = Rejected("SHUTDOWN")
               \/ client'.outcome = Rejected("HOST_CANCELLED") /\ host.aborted
  BY DEF Asked
<1>3. host'.pc \in Awaits /\ host'.pc # "SHUTDOWN"  BY DEF Awaits, Reads
<1>4. Recorded(client', report')
  BY <1>1, <1>2 DEF Recorded, Asks
<1>5. CancelledByHost(client', host') /\ Killing(client')
  BY <1>1, <1>2 DEF CancelledByHost, Killing, Asks, Moves
<1>6. Asking(client', host')
  BY <1>1, <1>2, <1>3 DEF Asking, Asks, Reads
<1> QED BY <1>2, <1>3, <1>4, <1>5, <1>6, MovedStep DEF Talk, Asks

LEMMA AskStep ==
  ASSUME Inv, host.pc \in Awaits, server.state # "STARTING",
         NEW c \in Client, Asks(c),
         NEW method \in Methods \ {"spawn"},
         client' = CancellableRequest(Taken(c), method, host.aborted),
         host' \in Host, Moves(host, host'), host'.event = "NONE",
         c.pending = None,
         \/ host'.pc \in Reads \union {"THREAD"}
         \/ host'.pc = "TURN" /\ method = "turn/start",
         server' = server,
         report' \in Report, report'.result = report.result,
         report'.stage = "AUTHORIZED" => report.stage = "AUTHORIZED",
         Settled(observer', host), Running(observer', host', report')
  PROVE  Inv'
<1> DEFINE t == Taken(c)
<1>1. t \in Client /\ Same(c, t) /\ t.outcome = None  BY TakenEffect
<1>2. client' = CancellableRequest(t, method, host.aborted)  OBVIOUS
<1>3. host.aborted \in BOOLEAN  BY InvFacts DEF Host
<1> HIDE DEF t
<1>4. client' \in Client /\ Asked(t, client', method, host.aborted)
  BY <1>1, <1>2, <1>3, RequestEffect
<1>5. None # Rejected("HOST_CANCELLED")  BY RejectedType DEF Codes
<1>6. Asks(t) /\ t.pending = c.pending
  BY <1>1, <1>5 DEF Asks, Same, Recorded, CancelledByHost, Killing
<1> QED BY <1>1, <1>4, <1>6, AskedStep

LEMMA DeclineInv == ASSUME Inv, Decline PROVE Inv'
<1>1. /\ client = NoClient /\ server = NoServer /\ client' = client /\ server' = server
      /\ report.stage = "AUTHORIZED" /\ report.refused = "NO" /\ ~report.result
      /\ host.pc = "IDLE" /\ ~host.yielded /\ host.disposition = None
  BY DEF Decline, Inv, Placed, Processes
<1>2. /\ host' \in Host /\ host'.pc = "ENDED" /\ host'.directive = host.directive
      /\ host'.aborted = host.aborted /\ host'.yielded = host.yielded
      /\ host'.disposition = host.disposition /\ host'.wake = host.wake
  BY InvFacts DEF Decline, Host, Over
<1>3. report' \in Report /\ ~report'.result
  BY <1>1, InvFacts DEF Decline, Report
<1>4. Settled(observer', host)
  <2>1. CASE host.aborted /\ observer' = Cancel(observer)
    BY <2>1, InvFacts, CancelEffect
  <2>2. ASSUME NEW code \in RequestRefusals \union WorkspaceRefusals,
               observer' = FailWith(observer, code)
        PROVE  Settled(observer', host)
    <3>1. Ordinary(code)
      BY <2>2 DEF Ordinary, FailureCodes, RequestRefusals, WorkspaceRefusals
    <3> QED BY <2>2, <3>1, InvFacts, FailWithSettled
  <2> QED BY <2>1, <2>2 DEF Decline
<1>5. Settled(observer', host')
  BY <1>2, <1>4, SettledAborted
<1>6. /\ NoClient.outcome = None /\ NoClient.pending = None /\ ~NoClient.ready
      /\ NoClient.failure = None /\ NoClient.stage = "NONE" /\ ~NoClient.closed
      /\ NoServer.state = "NONE" /\ ~NoServer.helper /\ ~NoServer.reused
  BY DEF NoClient, NoServer
<1>7. None # Rejected("HOST_CANCELLED") /\ None # "HOST_CANCELLED"
  <2>1. "HOST_CANCELLED" \in Codes  BY DEF Codes
  <2> QED BY <2>1, RejectedType
<1>8. Talk(client', host', report')
  BY <1>1, <1>2, <1>6, <1>7
    DEF Talk, Recorded, CancelledByHost, Killing, Asking, Awaits, Reads
<1>9. Processes(client', server', observer', host', report')
  BY <1>1, <1>2, <1>6 DEF Processes, Searching, Dispositions
<1>10. Placed(client', server', observer', host', report')
  BY <1>1, <1>2 DEF Inv, Placed, Awaits, Reads
<1>11. TypeOK'
  BY <1>1, <1>2, <1>3, <1>5, InvFacts DEF TypeOK, ClientTypeOK, Settled, Formed
<1>12. ResultIsOwnTurn'
  BY <1>1, <1>2, <1>3 DEF ResultIsOwnTurn
<1> QED BY <1>5, <1>8, <1>9, <1>10, <1>11, <1>12 DEF Inv, Settled

LEMMA StartInv == ASSUME Inv, Start PROVE Inv'
<1>1. /\ server = NoServer /\ observer = NewObserver /\ client' = Constructed
      /\ report' = report /\ report.stage = "AUTHORIZED" /\ ~report.result
      /\ host.pc = "IDLE" /\ ~host.yielded /\ host.event = "NONE" /\ host.disposition = None
      /\ host.wake = "ABORT" => host.aborted
  BY DEF Start, Inv, Placed, Processes, Awaits, Reads
<1>2. /\ host' \in Host /\ host'.pc = "INIT" /\ host'.directive = host.directive
      /\ host'.aborted = host.aborted /\ host'.yielded = host.yielded
      /\ host'.disposition = host.disposition /\ host'.wake = host.wake
      /\ host'.event = host.event
  BY InvFacts DEF Start, Host, Awaits
<1>3. /\ server' \in Server /\ server'.state = "STARTING" /\ ~server'.helper /\ ~server'.reused
  BY <1>1, InvFacts DEF Start, Server, NoServer
<1>4. /\ observer' \in Observer /\ observer'.state = "RUNNING" /\ observer'.launches = 0
      /\ observer'.failure = None /\ ~observer'.result /\ observer'.interrupts = 0
      /\ observer'.session = None /\ observer'.operation = None /\ observer'.terminal = None
      /\ observer'.first = None /\ ~observer'.manual /\ observer'.open = {}
      /\ observer'.compactions = 0 /\ observer'.messages = <<>>
  <2>1. observer' \in Observer  BY InvFacts DEF Start, Observer
  <2>2. observer' = [NewObserver EXCEPT !.state = "RUNNING"]  BY <1>1 DEF Start
  <2> QED BY <2>1, <2>2 DEF NewObserver
<1>5. Settled(observer', host')
  <2>1. Formed(observer')  BY <1>4 DEF Formed
  <2>2. Observed(observer', host')
    BY <1>4 DEF Observed, Flagged, Bound, Witnessed, Compacted, FailureCodes, Firsts
  <2> QED BY <2>1, <2>2 DEF Settled
<1>6. /\ Constructed \in Client /\ Constructed.outcome = None /\ Constructed.pending = "spawn"
      /\ ~Constructed.ready /\ ~Constructed.stopping
      /\ Constructed.failure = None /\ Constructed.stage = "NONE" /\ ~Constructed.closed
  BY DEF NoClient, Constructed, Client, Methods
<1>7. None # Rejected("HOST_CANCELLED") /\ None # "HOST_CANCELLED"
  <2>1. "HOST_CANCELLED" \in Codes  BY DEF Codes
  <2> QED BY <2>1, RejectedType
<1>8. Talk(client', host', report')
  BY <1>1, <1>2, <1>6, <1>7
    DEF Talk, Recorded, CancelledByHost, Killing, Asking, Awaits, Reads
<1>9. Processes(client', server', observer', host', report')
  BY <1>1, <1>2, <1>3, <1>4, <1>6 DEF Processes, Searching, Dispositions, Spawning
<1>10. Placed(client', server', observer', host', report')
  <2>1. Running(observer', host', report')
    BY <1>1, <1>2, <1>4 DEF Running, OpenStages, FailureCodes
  <2> QED BY <1>1, <1>2, <2>1 DEF Placed
<1> QED BY <1>1, <1>2, <1>3, <1>5, <1>6, <1>8, <1>9, <1>10, InvFacts, Assemble

LEMMA ContinueInitInv == ASSUME Inv, ContinueInit PROVE Inv'
<1> DEFINE c == Initialized(client)
<1>1. /\ Continues("INIT") /\ server' = server /\ report' = report
  BY DEF ContinueInit
<1>2. /\ host.pc = "INIT" /\ server.state # "STARTING" /\ Running(observer, host, report)
      /\ client.outcome # None /\ host.event = "NONE"
  BY <1>1, ContinuesFacts DEF Awaits
<1>3. /\ Talk(client, host, report) /\ client \in Client
      /\ ~client.stopping /\ client.stage = "NONE" /\ client.pending = None
  BY <1>2, InvFacts DEF Inv, Talk, Asking, Awaits, Reads
<1>4. /\ c \in Client /\ Recorded(c, report) /\ CancelledByHost(c, host) /\ Killing(c)
      /\ c.closed = client.closed /\ ~c.stopping /\ c.stage = "NONE" /\ c.pending = None
  <2>1. c \in Client  BY <1>3, InitializedEffect
  <2>2. CASE Disturbed(client, c, "FAILED")
    <3>1. Talk(c, host, report)
      BY <1>3, <2>1, <2>2, TalkDisturbed DEF Codes
    <3> QED BY <1>3, <2>1, <2>2, <3>1 DEF Talk, Disturbed
  <2>3. CASE /\ client.outcome.ok /\ client.failure = None /\ ~client.closed
             /\ Same([client EXCEPT !.ready = TRUE], c)
             /\ c.outcome = client.outcome
    <3> DEFINE e == [client EXCEPT !.ready = TRUE]
    <3>1. /\ e.closed = client.closed /\ e.stage = client.stage /\ e.stopping = client.stopping
          /\ e.failure = client.failure /\ e.signal = client.signal /\ e.pending = client.pending
      BY <1>3 DEF Client
    <3> HIDE DEF e
    <3>2. Same(e, c)  BY <2>3 DEF e
    <3>3. /\ c.closed = client.closed /\ c.stage = client.stage /\ c.stopping = client.stopping
          /\ c.failure = client.failure /\ c.signal = client.signal /\ c.pending = client.pending
      BY <3>1, <3>2 DEF Same
    <3> QED BY <1>2, <1>3, <2>1, <2>3, <3>3 DEF Talk, Recorded, CancelledByHost, Killing
  <2> QED BY <1>3, <2>1, <2>2, <2>3, InitializedEffect
<1>5. CASE c.ready
  <2> DEFINE g == [host EXCEPT !.pc = "REQUIREMENTS", !.connected = TRUE]
  <2>1. observer' = observer /\ host' = g
        /\ client' = CancellableRequest(Taken(c), "configRequirements/read", host.aborted)
    BY <1>5 DEF ContinueInit, Ask
  <2>2. /\ host' \in Host /\ Moves(host, host') /\ host'.event = "NONE"
        /\ host'.pc = "REQUIREMENTS"
    BY <1>2, <2>1, InvFacts DEF Host, Awaits, Reads, Moves, Inv, Placed
  <2> HIDE DEF g
  <2>3. Running(observer', host', report')
    BY <1>1, <1>2, <2>1, <2>2 DEF Running
  <2>4. Asks(c)  BY <1>4, <1>5 DEF Asks
  <2>5. "configRequirements/read" \in Methods \ {"spawn"}  BY DEF Methods
  <2> HIDE DEF c
  <2> QED BY <1>1, <1>2, <1>4, <2>1, <2>2, <2>3, <2>4, <2>5, InvFacts, AskStep DEF Awaits, Reads
<1>6. CASE ~c.ready
  <2>1. observer' = observer /\ host' = [host EXCEPT !.pc = "SHUTDOWN"]
        /\ client' = Shutdown(Taken(c))
    BY <1>6 DEF ContinueInit
  <2>2. /\ host' \in Host /\ Moves(host, host') /\ host'.event = "NONE"
        /\ host'.pc = "SHUTDOWN"
    BY <1>2, <2>1, InvFacts DEF Host, Awaits, Reads, Moves, Inv, Placed
  <2>3. Running(observer', host', report')
    BY <1>1, <1>2, <2>1, <2>2 DEF Running
  <2> HIDE DEF c
  <2> QED BY <1>1, <1>2, <1>4, <2>1, <2>2, <2>3, InvFacts, ShutStep DEF Awaits
<1> QED BY <1>5, <1>6

(* The answer to a request of the run before its Turn was taken. *)
LEMMA AnsweredFacts ==
  ASSUME Inv, NEW pc \in Reads \union {"THREAD"}, Continues(pc)
  PROVE  /\ pc \in Awaits \ {"SHUTDOWN"} /\ client.outcome # None /\ client.pending = None
         /\ client \in Client /\ Asks(client)
         /\ host.pc = pc /\ server.state # "STARTING" /\ Running(observer, host, report)
         /\ host.event = "NONE" /\ Settled(observer, host)
         /\ Moves(host, host)
<1>1. pc \in Awaits /\ pc \notin {"SHUTDOWN", "WAIT", "COMPACT", "INIT"}
  BY DEF Awaits, Reads
<1>2. /\ client.outcome # None /\ host.pc = pc /\ server.state # "STARTING"
      /\ Running(observer, host, report) /\ host.event = "NONE"
      /\ ~client.stopping /\ client.stage = "NONE"
      /\ client.failure = None /\ ~client.closed => client.ready
      /\ host.wake = "ABORT" => host.aborted
  BY <1>1, ContinuesFacts
<1>3. client.pending = None
  BY <1>1, ContinuesFacts
<1> QED BY <1>1, <1>2, <1>3, InvFacts DEF Asks, Inv, Talk, Moves

LEMMA ContinueReadInv == ASSUME Inv, ContinueRead PROVE Inv'
<1>1. PICK pc \in DOMAIN AfterRead :
        /\ Continues(pc)
        /\ IF ~client.outcome.ok THEN Throw(observer, RequestFailure)
           ELSE IF client.outcome.value # "FITS" THEN Throw(observer, "EFFECTIVE_INPUT_MISMATCH")
           ELSE Ask(observer, client, AfterRead[pc].method, [host EXCEPT !.pc = AfterRead[pc].pc])
  BY DEF ContinueRead
<1>2. server' = server /\ report' = report  BY DEF ContinueRead
<1>3. /\ pc \in Reads \union {"THREAD"}
      /\ AfterRead[pc].pc \in Reads \union {"THREAD"} /\ AfterRead[pc].pc # "POST_CONFIG"
      /\ AfterRead[pc].method \in Methods \ {"spawn"}
  BY DEF AfterRead, Reads, Methods
<1>4. /\ pc \in Awaits \ {"SHUTDOWN"} /\ client.outcome # None /\ client.pending = None
      /\ client \in Client /\ Asks(client)
      /\ host.pc = pc /\ server.state # "STARTING" /\ Running(observer, host, report)
      /\ host.event = "NONE" /\ Settled(observer, host) /\ Moves(host, host)
  BY <1>1, <1>3, AnsweredFacts
<1>5. Steady(observer, observer)  BY DEF Steady
<1>6. CASE ~client.outcome.ok
  <2>1. Thrown(RequestFailure)  BY <1>4, <1>6, RequestFailureThrown
  <2>2. Throw(observer, RequestFailure)  BY <1>1, <1>6
  <2> QED BY <1>1, <1>2, <1>4, <1>5, <2>1, <2>2, ThrowUnreported
<1>7. CASE client.outcome.ok /\ client.outcome.value # "FITS"
  <2>1. Thrown("EFFECTIVE_INPUT_MISMATCH")  BY DEF Thrown, FailureCodes, WorkspaceRefusals
  <2>2. Throw(observer, "EFFECTIVE_INPUT_MISMATCH")  BY <1>1, <1>7
  <2> QED BY <1>1, <1>2, <1>4, <1>5, <2>1, <2>2, ThrowUnreported
<1>8. CASE client.outcome.ok /\ client.outcome.value = "FITS"
  <2> DEFINE method == AfterRead[pc].method
             next == AfterRead[pc].pc
  <2>1. /\ observer' = observer /\ host' = [host EXCEPT !.pc = next]
        /\ client' = CancellableRequest(Taken(client), method, host.aborted)
    BY <1>1, <1>8 DEF Ask
  <2> HIDE DEF method, next
  <2>2. /\ next \in Reads \union {"THREAD"} /\ next # "POST_CONFIG"
        /\ method \in Methods \ {"spawn"}
    BY <1>3 DEF next, method
  <2>3. /\ host' \in Host /\ host'.pc = next /\ Moves(host, host') /\ host'.event = "NONE"
    BY <1>4, <2>1, <2>2, InvFacts DEF Host, Awaits, Moves
  <2>4. Running(observer', host', report')
    <3>1. host.pc \notin {"INTERRUPT", "SHUTDOWN"}
          /\ host'.pc \notin {"COMPACT", "TURN", "WAIT", "INTERRUPT", "POST_CONFIG"}
      BY <1>3, <1>4, <2>2, <2>3 DEF Reads
    <3> QED BY <1>2, <1>4, <2>1, <2>3, <3>1 DEF Running
  <2> QED BY <1>2, <1>4, <2>1, <2>2, <2>3, <2>4, InvFacts, AskStep
<1> QED BY <1>6, <1>7, <1>8

LEMMA ContinueThreadInv == ASSUME Inv, ContinueThread PROVE Inv'
<1>1. Continues("THREAD") /\ server' = server /\ report' = report  BY DEF ContinueThread
<1>2. /\ "THREAD" \in Awaits \ {"SHUTDOWN"} /\ client.outcome # None /\ client.pending = None
      /\ client \in Client /\ Asks(client)
      /\ host.pc = "THREAD" /\ server.state # "STARTING" /\ Running(observer, host, report)
      /\ host.event = "NONE" /\ Settled(observer, host) /\ Moves(host, host)
  BY <1>1, AnsweredFacts
<1>3. Steady(observer, observer)  BY DEF Steady
<1>4. CASE ~client.outcome.ok
  <2>1. Thrown(RequestFailure)  BY <1>2, <1>4, RequestFailureThrown
  <2>2. Throw(observer, RequestFailure)  BY <1>4 DEF ContinueThread
  <2> QED BY <1>1, <1>2, <1>3, <2>1, <2>2, ThrowUnreported
<1>5. CASE client.outcome.ok /\ client.outcome.value \notin Threads
  <2>1. Thrown("EFFECTIVE_INPUT_MISMATCH")  BY DEF Thrown, FailureCodes, WorkspaceRefusals
  <2>2. Throw(observer, "EFFECTIVE_INPUT_MISMATCH")  BY <1>5 DEF ContinueThread
  <2> QED BY <1>1, <1>2, <1>3, <2>1, <2>2, ThrowUnreported
<1>6. CASE /\ client.outcome.ok /\ client.outcome.value \in Threads
           /\ host.directive.resume \notin {None, client.outcome.value}
  <2>1. Thrown("THREAD_BINDING_MISMATCH")  BY DEF Thrown, FailureCodes
  <2>2. Throw(observer, "THREAD_BINDING_MISMATCH")  BY <1>6 DEF ContinueThread
  <2> QED BY <1>1, <1>2, <1>3, <2>1, <2>2, ThrowUnreported
<1>7. CASE /\ client.outcome.ok /\ client.outcome.value \in Threads
           /\ host.directive.resume \in {None, client.outcome.value}
  <2> DEFINE thread == client.outcome.value
  <2>1. /\ observer' = observer
        /\ host' = [host EXCEPT !.pc = "POST_CONFIG", !.thread = thread]
        /\ client' = CancellableRequest(Taken(client), "config/read", host.aborted)
    BY <1>7 DEF ContinueThread, Ask
  <2>2. thread \in Threads  BY <1>7
  <2> HIDE DEF thread
  <2>3. /\ host' \in Host /\ host'.pc = "POST_CONFIG" /\ Moves(host, host') /\ host'.event = "NONE"
        /\ host'.thread # None
    BY <1>2, <2>1, <2>2, InvFacts DEF Host, Awaits, Reads, Moves
  <2>4. Running(observer', host', report')
    BY <1>1, <1>2, <2>1, <2>3 DEF Running
  <2>5. "config/read" \in Methods \ {"spawn"} /\ host'.pc \in Reads  BY <2>3 DEF Methods, Reads
  <2> QED BY <1>1, <1>2, <2>1, <2>3, <2>4, <2>5, InvFacts, AskStep
<1> QED BY <1>4, <1>5, <1>6, <1>7

LEMMA StartTurnStep ==
  ASSUME Inv, NEW pc \in {"POST_CONFIG", "COMPACT"}, Continues(pc),
         NEW o, Settled(o, host), Steady(observer, o),
         o.session # None, Sealed(o, host.directive), StartTurn(o),
         Asks(client),
         server' = server, report' \in Report, report'.result = report.result,
         report'.stage \in OpenStages,
         report'.stage = "AUTHORIZED" <=> report.stage = "AUTHORIZED"
  PROVE  Inv'
<1>1. pc \in Awaits \ {"SHUTDOWN"}  BY DEF Awaits, Reads
<1>2. /\ host.pc = pc /\ server.state # "STARTING" /\ Running(observer, host, report)
      /\ host.event = "NONE" /\ observer.failure # "BACKEND_TURN_FAILED"
      /\ host.wake = "ABORT" => host.aborted
  BY <1>1, ContinuesFacts
<1>3. CASE Throw(o, "EFFECTIVE_INPUT_MISMATCH")
  <2>1. Thrown("EFFECTIVE_INPUT_MISMATCH")  BY DEF Thrown, FailureCodes, WorkspaceRefusals
  <2> QED BY <1>1, <1>3, <2>1, ThrowInv
<1>4. CASE Ask([o EXCEPT !.policy = TRUE], client, "turn/start", [host EXCEPT !.pc = "TURN"])
  <2> DEFINE p == [o EXCEPT !.policy = TRUE]
  <2>1. /\ observer' = p /\ host' = [host EXCEPT !.pc = "TURN"]
        /\ client' = CancellableRequest(Taken(client), "turn/start", host.aborted)
    BY <1>4 DEF Ask
  <2>2. o \in Observer  BY DEF Settled, Formed
  <2>3. p \in Observer
    BY <2>2 DEF Observer
  <2>4. /\ p.session = o.session /\ p.operation = o.operation
        /\ p.interrupts = o.interrupts /\ p.launches = o.launches /\ p.result = o.result
        /\ p.failure = o.failure /\ p.state = o.state /\ p.terminal = o.terminal
        /\ p.first = o.first
        /\ p.threads = o.threads /\ p.turns = o.turns /\ p.messages = o.messages
        /\ p.manual = o.manual /\ p.maintTurn = o.maintTurn
        /\ p.open = o.open /\ p.compactions = o.compactions
    BY <2>2 DEF Observer
  <2> HIDE DEF p
  <2>5. Settled(p, host)
    <3>1. Formed(p)  BY <2>3, <2>4 DEF Settled, Formed
    <3>2. Observed(p, host)
      BY <2>4 DEF Settled, Observed, Flagged, Bound, Witnessed, Compacted
    <3> QED BY <3>1, <3>2 DEF Settled
  <2>6. Steady(observer, p) /\ Sealed(p, host.directive)
    BY <2>4 DEF Steady, Sealed
  <2>7. /\ host' \in Host /\ host'.pc = "TURN" /\ Moves(host, host') /\ host'.event = "NONE"
    BY <1>2, <2>1, InvFacts DEF Host, Awaits, Reads, Moves
  <2>8. Running(observer', host', report')
    <3>1. host.pc \notin {"INTERRUPT", "SHUTDOWN"}  BY <1>2
    <3>2. host'.directive = host.directive  BY <2>7 DEF Moves
    <3> QED BY <1>2, <2>1, <2>4, <2>6, <2>7, <3>1, <3>2 DEF Running, Steady
  <2>9. "turn/start" \in Methods \ {"spawn"} /\ host.pc \in Awaits  BY <1>1, <1>2 DEF Methods
  <2>10. client.pending = None  BY <1>1, ContinuesFacts
  <2> QED BY <1>2, <2>1, <2>5, <2>7, <2>8, <2>9, <2>10, InvFacts, AskStep
<1> QED BY <1>3, <1>4 DEF StartTurn

LEMMA StartCompactionStep ==
  ASSUME Inv, Continues("POST_CONFIG"),
         NEW o, Settled(o, host), Steady(observer, o), o.session # None, StartCompaction(o),
         Asks(client),
         server' = server, report' \in Report, report'.result = report.result,
         report'.stage \in OpenStages,
         report'.stage = "AUTHORIZED" <=> report.stage = "AUTHORIZED"
  PROVE  Inv'
<1> DEFINE begun == BeginManualCompaction(o, host.directive)
<1>1. "POST_CONFIG" \in Awaits \ {"SHUTDOWN"}  BY DEF Awaits, Reads
<1>2. /\ host.pc = "POST_CONFIG" /\ server.state # "STARTING" /\ Running(observer, host, report)
      /\ host.event = "NONE" /\ observer.failure # "BACKEND_TURN_FAILED"
      /\ host.wake = "ABORT" => host.aborted
  BY <1>1, ContinuesFacts
<1>3. Settled(begun, host) /\ Steady(o, begun) /\ begun.session = o.session
  BY BeginCompactionEffect
<1>4. IF begun.failure # None THEN Throw(begun, begun.failure)
      ELSE /\ observer' = begun
           /\ client' = CompactThread(client, o.session)
           /\ host' = [host EXCEPT !.pc = "COMPACT"]
  BY DEF StartCompaction
<1> HIDE DEF begun
<1>5. Steady(observer, begun)  BY <1>3, SteadyTransitive
<1>6. CASE begun.failure # None
  <2>1. Thrown(begun.failure)
    BY <1>2, <1>3, <1>5, <1>6, FailureThrown DEF Steady
  <2> QED BY <1>1, <1>3, <1>4, <1>5, <1>6, <2>1, ThrowInv
<1>7. CASE begun.failure = None
  <2>1. o.session \in Threads  BY DEF Settled, Formed, Observer
  <2>2. /\ client \in Client /\ client' = CompactThread(client, o.session)
        /\ observer' = begun /\ host' = [host EXCEPT !.pc = "COMPACT"]
    BY <1>4, <1>7, InvFacts
  <2>3. client' \in Client /\ Asked(client, client', "thread/compact/start", host.aborted)
    BY <2>1, <2>2, CompactThreadEffect DEF Asked
  <2>4. /\ host' \in Host /\ host'.pc = "COMPACT" /\ Moves(host, host') /\ host'.event = "NONE"
    BY <1>2, <2>2, InvFacts DEF Host, Awaits, Reads, Moves
  <2>5. Running(observer', host', report')
    BY <1>2, <1>3, <1>5, <1>7, <2>2, <2>4, NoneIsNoObservation DEF Running, Steady, FailureCodes
  <2>6. "thread/compact/start" \in Methods \ {"spawn"} /\ host.pc \in Awaits
    BY <1>1, <1>2 DEF Methods
  <2>7. client.pending = None  BY <1>1, ContinuesFacts
  <2> QED BY <1>2, <1>3, <2>2, <2>3, <2>4, <2>5, <2>6, <2>7, AskedStep
<1> QED BY <1>6, <1>7

LEMMA ContinueSessionInv == ASSUME Inv, ContinueSession PROVE Inv'
<1>1. Continues("POST_CONFIG") /\ server' = server  BY DEF ContinueSession
<1>2. /\ "POST_CONFIG" \in Reads \union {"THREAD"} /\ "POST_CONFIG" \in Awaits \ {"SHUTDOWN"}
  BY DEF Reads, Awaits
<1>3. /\ client.outcome # None /\ client.pending = None
      /\ client \in Client /\ Asks(client)
      /\ host.pc = "POST_CONFIG" /\ server.state # "STARTING" /\ Running(observer, host, report)
      /\ host.event = "NONE" /\ Settled(observer, host) /\ Moves(host, host)
  BY <1>1, <1>2, AnsweredFacts
<1>4. observer.failure # "BACKEND_TURN_FAILED"  BY <1>3 DEF Running
<1>5. Steady(observer, observer)  BY DEF Steady
<1> DEFINE bound == BindThread(observer, host.thread)
<1>6. host.thread \in Threads  BY <1>3, InvFacts DEF Running, Host
<1>7. Settled(bound, host) /\ Steady(observer, bound) /\ bound.session # None
  BY <1>3, <1>6, BindThreadEffect
<1>8. CASE ~client.outcome.ok \/ client.outcome.value # "FITS"
  <2> DEFINE code == IF client.outcome.ok THEN "EFFECTIVE_INPUT_MISMATCH" ELSE RequestFailure
  <2>1. Throw(observer, code) /\ report' = report
    BY <1>8 DEF ContinueSession
  <2>2. Thrown("EFFECTIVE_INPUT_MISMATCH")  BY DEF Thrown, FailureCodes, WorkspaceRefusals
  <2>3. Thrown(code)
    BY <1>3, <2>2, RequestFailureThrown
  <2> HIDE DEF code
  <2> QED BY <1>1, <1>2, <1>3, <1>5, <2>1, <2>3, ThrowUnreported
<1>9. CASE ~(~client.outcome.ok \/ client.outcome.value # "FITS")
  <2>1. IF bound.failure # None THEN Throw(bound, bound.failure) /\ report' = report
        ELSE \E stored \in BOOLEAN :
               /\ report' = SessionStarted(report, host.thread, stored)
               /\ IF report'.refused # "NO" THEN Throw(bound, "CLIENT_FAILURE")
                  ELSE IF host.directive.manual THEN StartCompaction(bound)
                  ELSE StartTurn(bound)
    BY <1>9 DEF ContinueSession
  <2> HIDE DEF bound
  <2>2. CASE bound.failure # None
    <3>1. Thrown(bound.failure)
      BY <1>4, <1>7, <2>2, FailureThrown DEF Steady
    <3> QED BY <1>1, <1>2, <1>7, <2>1, <2>2, <3>1, ThrowUnreported
  <2>3. CASE bound.failure = None
    <3>1. PICK stored \in BOOLEAN :
            /\ report' = SessionStarted(report, host.thread, stored)
            /\ IF report'.refused # "NO" THEN Throw(bound, "CLIENT_FAILURE")
               ELSE IF host.directive.manual THEN StartCompaction(bound)
               ELSE StartTurn(bound)
      BY <2>1, <2>3
    <3> DEFINE accepted == [report EXCEPT !.stage = "SESSION_OBSERVED", !.session = host.thread]
               fits == report.stage = "PROCESS_OBSERVED"
    <3>2. /\ accepted \in Report /\ accepted.stage = "SESSION_OBSERVED"
          /\ accepted.result = report.result /\ accepted.refused = report.refused
      BY <1>6, InvFacts DEF Report
    <3> HIDE DEF accepted
    <3>3. report' = Reported(report, fits, stored, accepted)
      BY <3>1 DEF SessionStarted, accepted
    <3> HIDE DEF fits
    <3>4. /\ report' \in Report
          /\ report'.refused = "NO" => report' = accepted /\ fits
          /\ report'.refused # "NO" => report'.stage = report.stage /\ report'.result = report.result
      BY <3>2, <3>3, InvFacts, ReportedType
    <3>5. report.stage \in OpenStages  BY <1>3 DEF Running
    <3>6. /\ report'.result = report.result /\ report'.stage \in OpenStages
          /\ report'.stage = "AUTHORIZED" <=> report.stage = "AUTHORIZED"
      BY <3>2, <3>4, <3>5 DEF OpenStages, fits
    <3>7. CASE report'.refused # "NO"
      <4>1. Throw(bound, "CLIENT_FAILURE")  BY <3>1, <3>7
      <4>2. Thrown("CLIENT_FAILURE")  BY DEF Thrown, FailureCodes
      <4> QED BY <1>1, <1>2, <1>7, <3>4, <3>6, <4>1, <4>2, ThrowInv
    <3>8. CASE report'.refused = "NO" /\ host.directive.manual
      <4>1. StartCompaction(bound)  BY <3>1, <3>8
      <4> QED BY <1>1, <1>3, <1>7, <3>4, <3>6, <4>1, StartCompactionStep
    <3>9. CASE report'.refused = "NO" /\ ~host.directive.manual
      <4>1. StartTurn(bound)  BY <3>1, <3>9
      <4>2. Sealed(bound, host.directive)
        BY <1>7, <3>9 DEF Settled, Observed, Compacted, Sealed
      <4> QED BY <1>1, <1>3, <1>7, <3>4, <3>6, <4>1, <4>2, StartTurnStep
    <3> QED BY <3>7, <3>8, <3>9
  <2> QED BY <2>2, <2>3
<1> QED BY <1>8, <1>9

LEMMA ContinueCompactionInv == ASSUME Inv, ContinueCompaction PROVE Inv'
<1>1. Continues("COMPACT") /\ server' = server /\ report' = report  BY DEF ContinueCompaction
<1>2. "COMPACT" \in Awaits \ {"SHUTDOWN"}  BY DEF Awaits
<1>3. /\ host.pc = "COMPACT" /\ server.state # "STARTING" /\ Running(observer, host, report)
      /\ observer.failure # "BACKEND_TURN_FAILED"
      /\ ~client.stopping /\ client.stage = "NONE"
      /\ client.failure = None /\ ~client.closed => client.ready
  BY <1>1, <1>2, ContinuesFacts
<1>4. /\ Settled(observer, host) /\ client \in Client
      /\ Recorded(client, report) /\ CancelledByHost(client, host) /\ Killing(client)
  BY InvFacts DEF Inv, Talk
<1>5. Asks(client)  BY <1>3, <1>4 DEF Asks
<1>6. report.stage \in OpenStages /\ observer.session # None  BY <1>3 DEF Running
<1>7. CASE RejectedOutcome(client.outcome) \/ RejectedOutcome(client.compacted)
  <2> DEFINE c == CompactionRefused(client)
  <2>1. /\ observer' = Caught(observer, "CLIENT_FAILURE") /\ client' = Shutdown(Taken(c))
        /\ host' = [host EXCEPT !.pc = "SHUTDOWN"]
    BY <1>7 DEF ContinueCompaction
  <2>2. c \in Client /\ Same(client, c) /\ c.outcome = client.outcome
    BY <1>4, CompactionRefusedEffect
  <2> HIDE DEF c
  <2>3. Recorded(c, report) /\ CancelledByHost(c, host) /\ Killing(c) /\ c.closed = client.closed
    BY <1>4, <2>2 DEF Recorded, CancelledByHost, Killing, Same
  <2>4. Thrown("CLIENT_FAILURE") /\ Steady(observer, observer)
    BY DEF Thrown, FailureCodes, Steady
  <2> QED BY <1>1, <1>2, <1>4, <1>6, <2>1, <2>2, <2>3, <2>4, InvFacts, ThrownStep
<1>8. CASE ~(RejectedOutcome(client.outcome) \/ RejectedOutcome(client.compacted))
  <2> DEFINE finished == FinishManualCompaction(observer)
  <2>1. IF finished.failure # None THEN Throw(finished, finished.failure)
        ELSE IF host.aborted THEN Throw(finished, "HOST_CANCELLED")
        ELSE StartTurn(finished)
    BY <1>8 DEF ContinueCompaction
  <2>2. /\ Settled(finished, host) /\ Steady(observer, finished)
        /\ finished.session = observer.session
        /\ finished.failure = None => Sealed(finished, host.directive)
    BY <1>4, FinishCompactionEffect
  <2> HIDE DEF finished
  <2>3. CASE finished.failure # None
    <3>1. Thrown(finished.failure)
      BY <1>3, <2>2, <2>3, FailureThrown DEF Steady
    <3> QED BY <1>1, <1>2, <2>1, <2>2, <2>3, <3>1, ThrowUnreported
  <2>4. CASE finished.failure = None /\ host.aborted
    <3>1. Thrown("HOST_CANCELLED")
      BY <2>4 DEF Thrown, FailureCodes
    <3> QED BY <1>1, <1>2, <2>1, <2>2, <2>4, <3>1, ThrowUnreported
  <2>5. CASE finished.failure = None /\ ~host.aborted
    <3>1. StartTurn(finished)  BY <2>1, <2>5
    <3> QED BY <1>1, <1>5, <1>6, <2>2, <2>5, <3>1, InvFacts, StartTurnStep
  <2> QED BY <2>3, <2>4, <2>5
<1> QED BY <1>7, <1>8

LEMMA ContinueTurnInv == ASSUME Inv, ContinueTurn PROVE Inv'
<1>1. Continues("TURN") /\ server' = server  BY DEF ContinueTurn
<1>2. "TURN" \in Awaits \ {"SHUTDOWN"}  BY DEF Awaits
<1>3. /\ host.pc = "TURN" /\ server.state # "STARTING" /\ Running(observer, host, report)
      /\ observer.failure # "BACKEND_TURN_FAILED" /\ client.outcome # None
      /\ host.event = "NONE"
      /\ ~client.stopping /\ client.stage = "NONE"
      /\ client.failure = None /\ ~client.closed => client.ready
  BY <1>1, <1>2, ContinuesFacts
<1>4. /\ Settled(observer, host) /\ client \in Client
      /\ Recorded(client, report) /\ CancelledByHost(client, host) /\ Killing(client)
      /\ Asking(client, host)
  BY InvFacts DEF Inv, Talk
<1>5. /\ report.stage \in OpenStages /\ observer.session # None
      /\ Sealed(observer, host.directive) /\ observer.interrupts = 0
  BY <1>3 DEF Running
<1>6. CASE ~client.outcome.ok
  <2>1. Throw(observer, RequestFailure) /\ report' = report
    BY <1>6 DEF ContinueTurn
  <2>2. Thrown(RequestFailure)  BY <1>3, <1>6, RequestFailureThrown
  <2>3. Steady(observer, observer)  BY DEF Steady
  <2> QED BY <1>1, <1>2, <1>4, <2>1, <2>2, <2>3, ThrowUnreported
<1>7. CASE client.outcome.ok
  <2> DEFINE turn == client.outcome.value
             bound == BindTurn(observer, turn)
  <2>1. IF bound.failure # None THEN Throw(bound, bound.failure) /\ report' = report
        ELSE \E stored \in BOOLEAN :
               /\ report' = OperationStarted(report, bound, host.directive, stored)
               /\ IF report'.refused # "NO" THEN Throw(bound, "CLIENT_FAILURE")
                  ELSE /\ observer' = bound
                       /\ host' = [host EXCEPT !.pc = "WAIT",
                                               !.wake = IF host.aborted THEN "ABORT" ELSE None]
                       /\ client' = Taken(client)
    BY <1>7 DEF ContinueTurn
  <2>2. turn \in Turns
    BY <1>3, <1>4, <1>7 DEF Asking
  <2>3. /\ Settled(bound, host) /\ Steady(observer, bound)
        /\ bound.failure = None =>
             /\ observer.failure = None /\ bound.operation # None
             /\ bound.operation # bound.maintTurn
             /\ bound.session = observer.session
             /\ Sealed(observer, host.directive) => Sealed(bound, host.directive)
    BY <1>4, <2>2, BindTurnEffect
  <2> HIDE DEF bound
  <2>4. CASE bound.failure # None
    <3>1. Thrown(bound.failure)
      BY <1>3, <2>3, <2>4, FailureThrown DEF Steady
    <3> QED BY <1>1, <1>2, <2>1, <2>3, <2>4, <3>1, ThrowUnreported
  <2>5. CASE bound.failure = None
    <3>1. PICK stored \in BOOLEAN :
            /\ report' = OperationStarted(report, bound, host.directive, stored)
            /\ IF report'.refused # "NO" THEN Throw(bound, "CLIENT_FAILURE")
               ELSE /\ observer' = bound
                    /\ host' = [host EXCEPT !.pc = "WAIT",
                                            !.wake = IF host.aborted THEN "ABORT" ELSE None]
                    /\ client' = Taken(client)
      BY <2>1, <2>5
    <3> DEFINE accepted == [report EXCEPT !.stage = "OPERATION_RUNNING",
                                          !.operation = bound.operation]
               fits == /\ report.stage = "SESSION_OBSERVED" /\ report.session = bound.session
                       /\ host.directive.manual => bound.compactions = 1
    <3>2. bound.operation \in Turns \union {None}
      BY <2>3 DEF Settled, Formed, Observer
    <3>3. /\ accepted \in Report /\ accepted.stage = "OPERATION_RUNNING"
          /\ accepted.result = report.result /\ accepted.refused = report.refused
          /\ accepted.operation = bound.operation /\ accepted.session = report.session
      BY <3>2, InvFacts DEF Report
    <3>4. report' = Reported(report, fits, stored, accepted)
      BY <3>1 DEF OperationStarted
    <3> HIDE DEF accepted
    <3>5. /\ report' \in Report
          /\ report'.refused = "NO" => report' = accepted /\ fits
          /\ report'.refused # "NO" => report'.stage = report.stage /\ report'.result = report.result
      <4> HIDE DEF fits
      <4> QED BY <3>3, <3>4, InvFacts, ReportedType
    <3>6. /\ report'.result = report.result /\ report'.stage \in OpenStages
          /\ report'.stage = "AUTHORIZED" <=> report.stage = "AUTHORIZED"
      BY <1>5, <3>3, <3>5 DEF OpenStages
    <3>7. CASE report'.refused # "NO"
      <4>1. Throw(bound, "CLIENT_FAILURE")  BY <3>1, <3>7
      <4>2. Thrown("CLIENT_FAILURE")  BY DEF Thrown, FailureCodes
      <4> QED BY <1>1, <1>2, <2>3, <3>5, <3>6, <4>1, <4>2, ThrowInv
    <3>8. CASE report'.refused = "NO"
      <4> DEFINE wake == IF host.aborted THEN "ABORT" ELSE None
      <4>1. /\ observer' = bound /\ client' = Taken(client)
            /\ host' = [host EXCEPT !.pc = "WAIT", !.wake = wake]
        BY <3>1, <3>8
      <4>2. wake \in Wakes \union {None} /\ (wake = "ABORT" => host.aborted)
        BY DEF Wakes
      <4> HIDE DEF wake
      <4>3. /\ host' \in Host /\ host'.pc = "WAIT" /\ host'.event = "NONE" /\ host'.wake = wake
            /\ host'.directive = host.directive /\ host'.aborted = host.aborted
            /\ host'.yielded = host.yielded /\ host'.disposition = host.disposition
        BY <1>3, <4>1, <4>2, InvFacts DEF Host, Awaits
      <4>4. Moves(host, host')  BY <4>2, <4>3 DEF Moves
      <4>5. client' \in Client /\ Same(client, client') /\ client'.outcome = None
        BY <1>4, <4>1, TakenEffect
      <4>6. Talk(client', host', report')
        <5>1. None # Rejected("HOST_CANCELLED")  BY RejectedType DEF Codes
        <5>2. client.pending = None  BY <1>1, <1>2, ContinuesFacts
        <5> QED BY <1>3, <1>4, <3>6, <4>3, <4>5, <5>1, <5>2
              DEF Talk, Recorded, CancelledByHost, Killing, Asking, Same, Reads
      <4>7. Attached(bound, report')
        BY <1>3, <1>5, <2>3, <2>5, <3>3, <3>5, <3>8 DEF Attached, Running, Steady
      <4>8. Running(observer', host', report')
        BY <1>3, <1>5, <2>3, <2>5, <3>6, <4>1, <4>3, <4>7 DEF Running, Steady, Attached
      <4> QED BY <1>1, <1>2, <1>3, <2>3, <3>5, <3>6, <4>1, <4>3, <4>4, <4>5, <4>6, <4>8, MovedStep
              DEF Same, Awaits
    <3> QED BY <3>7, <3>8
  <2> QED BY <2>4, <2>5
<1> QED BY <1>6, <1>7

(* The Turn ended, and the run uses its end. *)
LEMMA UseTerminalStep ==
  ASSUME Inv, Continues("WAIT"),
         NEW event \in {"FAILURE", "RESULT"}, NEW o, UseTerminal(event, o),
         Settled(o, host), Waiting(o, event),
         o.session = observer.session, o.operation = observer.operation,
         o.maintTurn = observer.maintTurn, o.launches = observer.launches,
         o.result = observer.result, o.manual = observer.manual, o.open = observer.open,
         o.compactions = observer.compactions, o.state \in {"RUNNING", "FAILED", "INTERRUPTED"},
         o.failure = "BACKEND_TURN_FAILED" => event = "FAILURE",
         server' = server, report' = report
  PROVE  Inv'
<1>1. "WAIT" \in Awaits \ {"SHUTDOWN"}  BY DEF Awaits
<1>2. /\ host.pc = "WAIT" /\ server.state # "STARTING" /\ Running(observer, host, report)
      /\ host.wake = "ABORT" => host.aborted
  BY <1>1, ContinuesFacts
<1>3. /\ observer' = o /\ client' = Shutdown(Taken(client))
      /\ host' = [host EXCEPT !.pc = "SHUTDOWN", !.event = event]
  BY DEF UseTerminal
<1>4. /\ host' \in Host /\ host'.pc = "SHUTDOWN" /\ Moves(host, host') /\ host'.event = event
  BY <1>2, <1>3, InvFacts DEF Host, Awaits, Moves
<1>5. Running(observer', host', report')
  <2>1. Attached(observer, report) /\ Sealed(observer, host.directive)  BY <1>2 DEF Running
  <2>2. Attached(o, report) /\ Sealed(o, host.directive)
    BY <2>1 DEF Attached, Sealed
  <2> QED BY <1>2, <1>3, <1>4, <2>1, <2>2 DEF Running, Moves
<1>6. /\ client \in Client /\ Recorded(client, report) /\ CancelledByHost(client, host)
      /\ Killing(client)
  BY InvFacts DEF Inv, Talk
<1> QED BY <1>1, <1>2, <1>3, <1>4, <1>5, <1>6, InvFacts, ShutStep

(* The failure of the Turn is recorded once it ended. *)
LEMMA TurnFailedEffect ==
  ASSUME NEW o, NEW h, Settled(o, h), o.first # None
  PROVE  LET p == FailWith(o, "BACKEND_TURN_FAILED") IN
         /\ Settled(p, h) /\ p.failure # None
         /\ p.session = o.session /\ p.operation = o.operation /\ p.maintTurn = o.maintTurn
         /\ p.launches = o.launches /\ p.result = o.result /\ p.manual = o.manual
         /\ p.open = o.open /\ p.compactions = o.compactions /\ p.terminal = o.terminal
         /\ p.interrupts = o.interrupts
         /\ p.state \in {o.state, "FAILED"}
<1> DEFINE p == FailWith(o, "BACKEND_TURN_FAILED")
<1>1. CASE o.failure # None
  BY <1>1 DEF FailWith
<1>2. CASE o.failure = None
  <2> DEFINE q == [o EXCEPT !.failure = "BACKEND_TURN_FAILED", !.threads = {}, !.turns = {},
                            !.messages = <<>>, !.state = "FAILED"]
  <2>1. o \in Observer /\ "BACKEND_TURN_FAILED" \in FailureCodes
        /\ <<>> \in Seq(Messages) /\ Len(<<>>) = 0
    BY DEF Settled, Formed, FailureCodes
  <2>2. q \in Observer  BY <2>1 DEF Observer
  <2>3. /\ q.session = o.session /\ q.operation = o.operation
        /\ q.interrupts = o.interrupts /\ q.launches = o.launches /\ q.result = o.result
        /\ q.failure = "BACKEND_TURN_FAILED" /\ q.state = "FAILED" /\ q.terminal = o.terminal
        /\ q.first = o.first /\ q.messages = <<>>
        /\ q.manual = o.manual /\ q.maintTurn = o.maintTurn
        /\ q.open = o.open /\ q.compactions = o.compactions
    BY <2>1 DEF Observer
  <2>4. p = First(q, "POLICY_FAILURE")  BY <1>2 DEF FailWith
  <2> HIDE DEF q, p
  <2>5. /\ p \in Observer /\ Alike(q, p) /\ p.first \in {q.first, "POLICY_FAILURE"}
    BY <2>2, <2>4, FirstEffect DEF Firsts
  <2>6. Formed(p)  BY <2>3, <2>5 DEF Formed, Alike
  <2>7. Observed(p, h)
    BY <2>1, <2>3, <2>5 DEF Settled, Observed, Flagged, Bound, Witnessed, Compacted, Alike
  <2> QED BY <2>1, <2>3, <2>5, <2>6, <2>7 DEF Settled, Alike, p
<1> QED BY <1>1, <1>2

LEMMA SelectedIsFirst ==
  ASSUME NEW o, Formed(o), SelectsFinalMessage(o)
  PROVE  FirstFinal(o)
<1> DEFINE finals == {i \in 1..Len(o.messages) : o.messages[i] \in Final}
<1>1. CASE \E i \in finals : finals = {i} /\ o.messages[i] = o.terminal.item
  <2>1. PICK i \in finals : finals = {i} /\ o.messages[i] = o.terminal.item
    BY <1>1
  <2>2. ASSUME NEW j \in 1..(i - 1) PROVE o.messages[j] \notin Final
    <3>1. j \in 1..Len(o.messages) /\ j # i
      BY <2>1, <2>2, FormedFacts
    <3> QED BY <2>1, <3>1
  <2> QED BY <2>1, <2>2 DEF FirstFinal
<1>2. CASE o.messages = <<o.terminal.item>>
  <2>1. Len(o.messages) = 1 /\ o.messages[1] = o.terminal.item  BY <1>2
  <2> QED BY <2>1 DEF FirstFinal
<1> QED BY <1>1, <1>2 DEF SelectsFinalMessage

LEMMA EndedInv ==
  ASSUME Inv, Continues("WAIT"), observer.first = "TERMINAL",
         NEW payload, Ended(payload), server' = server, report' = report
  PROVE  Inv'
<1>1. "WAIT" \in Awaits \ {"SHUTDOWN"}  BY DEF Awaits
<1>2. /\ host.pc = "WAIT" /\ Running(observer, host, report)
      /\ observer.failure # "BACKEND_TURN_FAILED"
  BY <1>1, ContinuesFacts
<1>3. Settled(observer, host) /\ Formed(observer) /\ observer.terminal # None
  BY InvFacts DEF Settled, Observed, Flagged
<1>4. Steady(observer, observer) /\ observer.interrupts = 0
      /\ observer.state \in {"RUNNING", "FAILED", "INTERRUPTED"}
  BY <1>2 DEF Running, Steady
<1> DEFINE t == observer.terminal
<1>5. ASSUME NEW code, Thrown(code), Throw(observer, code) PROVE Inv'
  BY <1>1, <1>3, <1>4, <1>5, ThrowUnreported
<1>6. CASE host.aborted
  BY <1>5, <1>6 DEF Ended, Thrown, FailureCodes
<1>7. CASE ~host.aborted /\ (t.thread # observer.session \/ t.turn # observer.operation)
  BY <1>5, <1>7 DEF Ended, Thrown, FailureCodes
<1>8. CASE ~host.aborted /\ t.thread = observer.session /\ t.turn = observer.operation
  <2>1. CASE t.status = "failed"
    <3> DEFINE p == FailWith(observer, "BACKEND_TURN_FAILED")
    <3>1. UseTerminal("FAILURE", p)  BY <1>8, <2>1 DEF Ended
    <3>2. /\ Settled(p, host) /\ p.failure # None
          /\ p.session = observer.session /\ p.operation = observer.operation
          /\ p.maintTurn = observer.maintTurn
          /\ p.launches = observer.launches /\ p.result = observer.result
          /\ p.manual = observer.manual /\ p.open = observer.open
          /\ p.compactions = observer.compactions /\ p.terminal = observer.terminal
          /\ p.interrupts = observer.interrupts
          /\ p.state \in {observer.state, "FAILED"}
      BY <1>3, TurnFailedEffect DEF Firsts
    <3> HIDE DEF p
    <3>3. Waiting(p, "FAILURE")
      BY <1>3, <1>4, <1>8, <2>1, <3>2 DEF Waiting
    <3> QED BY <1>4, <3>1, <3>2, <3>3, UseTerminalStep
  <2>2. CASE t.status = "completed" /\ SelectsFinalMessage(observer) /\ payload = "FITS"
    <3>1. UseTerminal("RESULT", observer)  BY <1>8, <2>2 DEF Ended
    <3>2. FirstFinal(observer)  BY <1>3, <2>2, SelectedIsFirst
    <3>3. Waiting(observer, "RESULT")
      BY <1>2, <1>3, <1>4, <1>8, <2>2, <3>2 DEF Waiting
    <3> QED BY <1>2, <1>3, <1>4, <3>1, <3>3, UseTerminalStep
  <2>3. CASE t.status # "failed" /\ (t.status # "completed" \/ ~SelectsFinalMessage(observer)
                                       \/ payload # "FITS")
    BY <1>5, <1>8, <2>3 DEF Ended, Thrown, FailureCodes
  <2> QED BY <2>1, <2>2, <2>3
<1> QED BY <1>6, <1>7, <1>8

(* What ends the wait for the end of the Turn. *)
LEMMA WaitResultKinds ==
  ASSUME Inv, Continues("WAIT")
  PROVE  /\ WaitResult \in {"ABORT", "TIMEOUT", "POLICY_FAILURE", "CLOSED", "TERMINAL"}
         /\ WaitResult = "POLICY_FAILURE" => observer.first = "POLICY_FAILURE"
         /\ WaitResult = "TERMINAL" => observer.first = "TERMINAL"
<1>1. host.wake \in Wakes \union {None} /\ observer.first \in Firsts \union {None}
  BY InvFacts DEF Host, Observer
<1>2. WaitResult # None  BY DEF Continues, AwaitSettled
<1>3. CASE host.wake # None
  BY <1>1, <1>3 DEF WaitResult, Wakes
<1>4. CASE host.wake = None /\ observer.first # None
  BY <1>1, <1>4 DEF WaitResult, Firsts
<1>5. CASE host.wake = None /\ observer.first = None
  BY <1>2, <1>5 DEF WaitResult
<1> QED BY <1>3, <1>4, <1>5

LEMMA ContinueWaitInv == ASSUME Inv, ContinueWait PROVE Inv'
<1>1. Continues("WAIT") /\ server' = server /\ report' = report  BY DEF ContinueWait
<1>2. "WAIT" \in Awaits \ {"SHUTDOWN"}  BY DEF Awaits
<1>3. /\ host.pc = "WAIT" /\ server.state # "STARTING" /\ Running(observer, host, report)
      /\ observer.failure # "BACKEND_TURN_FAILED" /\ host.event = "NONE"
      /\ ~client.stopping /\ client.stage = "NONE"
      /\ client.failure = None /\ ~client.closed => client.ready
      /\ host.wake = "ABORT" => host.aborted
  BY <1>1, <1>2, ContinuesFacts
<1>4. /\ Settled(observer, host) /\ client \in Client
      /\ Recorded(client, report) /\ CancelledByHost(client, host) /\ Killing(client)
  BY InvFacts DEF Inv, Talk
<1>5. Steady(observer, observer)  BY DEF Steady
<1>6. /\ WaitResult \in {"ABORT", "TIMEOUT", "POLICY_FAILURE", "CLOSED", "TERMINAL"}
      /\ WaitResult = "POLICY_FAILURE" => observer.first = "POLICY_FAILURE"
      /\ WaitResult = "TERMINAL" => observer.first = "TERMINAL"
  BY <1>1, WaitResultKinds
<1>7. CASE WaitResult \in {"ABORT", "TIMEOUT"}
  <2>1. /\ observer' = [observer EXCEPT !.interrupts = @ + 1]
        /\ client' = Request(client, "turn/interrupt")
        /\ host' = [host EXCEPT !.pc = "INTERRUPT"]
    BY <1>7 DEF ContinueWait
  <2>2. observer.interrupts = 0 /\ Attached(observer, report) /\ Sealed(observer, host.directive)
    BY <1>3 DEF Running
  <2>3. observer \in Observer  BY InvFacts
  <2>4. observer' = [observer EXCEPT !.interrupts = 1]  BY <2>1, <2>2
  <2>5. /\ observer' \in Observer
        /\ observer'.session = observer.session /\ observer'.operation = observer.operation
        /\ observer'.launches = observer.launches /\ observer'.result = observer.result
        /\ observer'.failure = observer.failure /\ observer'.state = observer.state
        /\ observer'.terminal = observer.terminal /\ observer'.first = observer.first
        /\ observer'.threads = observer.threads /\ observer'.turns = observer.turns
        /\ observer'.messages = observer.messages
        /\ observer'.manual = observer.manual /\ observer'.maintTurn = observer.maintTurn
        /\ observer'.open = observer.open /\ observer'.compactions = observer.compactions
    BY <2>3, <2>4 DEF Observer
  <2>6. Settled(observer', host)
    <3>1. Formed(observer')  BY <1>4, <2>5 DEF Settled, Formed
    <3>2. Observed(observer', host)
      BY <1>4, <2>5 DEF Settled, Observed, Flagged, Bound, Witnessed, Compacted
    <3> QED BY <3>1, <3>2 DEF Settled
  <2>7. /\ host' \in Host /\ host'.pc = "INTERRUPT" /\ Moves(host, host') /\ host'.event = "NONE"
    BY <1>3, <2>1, InvFacts DEF Host, Awaits, Reads, Moves
  <2>8. Attached(observer', report') /\ Sealed(observer', host.directive)
    BY <1>1, <2>2, <2>5 DEF Attached, Sealed
  <2>9. Running(observer', host', report')
    BY <1>1, <1>3, <2>5, <2>7, <2>8 DEF Running, Moves
  <2>10. "turn/interrupt" \in Methods \ {"spawn"} /\ host.pc \in Awaits
    BY <1>2, <1>3 DEF Methods
  <2>11. client' \in Client /\ Asked(client, client', "turn/interrupt", host.aborted)
    <3>1. client' \in Client /\ Asked(client, client', "turn/interrupt", FALSE)
      BY <1>4, <2>1, <2>10, RequestEffect
    <3> QED BY <3>1 DEF Asked
  <2>12. Asks(client)  BY <1>3, <1>4 DEF Asks
  <2>13. client.pending = None  BY <1>1, <1>2, ContinuesFacts
  <2> QED BY <1>1, <1>3, <1>4, <2>6, <2>7, <2>9, <2>10, <2>11, <2>12, <2>13, InvFacts, AskedStep
<1>8. CASE WaitResult = "POLICY_FAILURE"
  <2>1. Throw(observer, observer.failure)  BY <1>8 DEF ContinueWait
  <2>2. observer.failure # None
    BY <1>4, <1>6, <1>8 DEF Settled, Observed, Flagged
  <2>3. Thrown(observer.failure)  BY <1>3, <1>4, <2>2, FailureThrown
  <2> QED BY <1>1, <1>2, <1>4, <1>5, <2>1, <2>3, ThrowUnreported
<1>9. CASE WaitResult = "CLOSED"
  <2>1. Throw(observer, "CLIENT_FAILURE")  BY <1>9 DEF ContinueWait
  <2>2. Thrown("CLIENT_FAILURE")  BY DEF Thrown, FailureCodes
  <2> QED BY <1>1, <1>2, <1>4, <1>5, <2>1, <2>2, ThrowUnreported
<1>10. CASE WaitResult = "TERMINAL"
  <2>1. \E payload \in Payloads : Ended(payload)  BY <1>10 DEF ContinueWait
  <2> QED BY <1>1, <1>6, <1>10, <2>1, EndedInv
<1> QED BY <1>6, <1>7, <1>8, <1>9, <1>10

LEMMA ContinueInterruptInv == ASSUME Inv, ContinueInterrupt PROVE Inv'
<1> DEFINE code == IF host.wake = "ABORT" THEN "HOST_CANCELLED" ELSE "NO_TERMINAL_PAYLOAD"
<1>1. /\ Continues("INTERRUPT") /\ server' = server /\ report' = report /\ Throw(observer, code)
  BY DEF ContinueInterrupt
<1>2. "INTERRUPT" \in Awaits \ {"SHUTDOWN"}  BY DEF Awaits
<1>3. host.wake = "ABORT" => host.aborted  BY <1>1, <1>2, ContinuesFacts
<1>4. Thrown(code)  BY <1>3 DEF Thrown, FailureCodes
<1>5. Settled(observer, host) /\ Steady(observer, observer)  BY InvFacts DEF Steady
<1> HIDE DEF code
<1> QED BY <1>1, <1>2, <1>4, <1>5, ThrowUnreported

-----------------------------------------------------------------------------
(* The end of the run *)

LEMMA SweptEffect ==
  ASSUME Inv, Continues("SHUTDOWN")
  PROVE  LET s == Swept(observer) IN
         /\ Settled(s.o, host) /\ s.o.state \in {"RUNNING", "FAILED", "INTERRUPTED"}
         /\ s.event \in {"NONE", "FAILURE", "RESULT"}
         /\ s.event # "NONE" => /\ CleanClose(client, server)
                                /\ s = [o |-> observer, event |-> host.event]
<1> DEFINE s == Swept(observer)
<1>1. "SHUTDOWN" \in Awaits  BY DEF Awaits
<1>2. Running(observer, host, report)  BY <1>1, ContinuesFacts
<1>3. /\ Settled(observer, host) /\ host.event \in {"NONE", "FAILURE", "RESULT"}
      /\ observer.state \in {"RUNNING", "FAILED", "INTERRUPTED"}
  BY <1>2, InvFacts DEF Running, Host
<1>4. CASE ~host.connected
  <2> DEFINE p == Caught(observer, "CLIENT_FAILURE")
  <2>1. Thrown("CLIENT_FAILURE")  BY DEF Thrown, FailureCodes
  <2>2. Settled(p, host) /\ Steady(observer, p)
    BY <1>3, <2>1, CaughtEffect
  <2>3. s = [o |-> p, event |-> "NONE"]  BY <1>4 DEF Swept
  <2> HIDE DEF p
  <2>4. s.o = p /\ s.event = "NONE"  BY <2>3
  <2> QED BY <1>3, <2>2, <2>4 DEF Steady
<1>5. CASE host.connected /\ CleanClose(client, server)
  <2>1. s = [o |-> observer, event |-> host.event]  BY <1>5 DEF Swept
  <2>2. s.o = observer /\ s.event = host.event  BY <2>1
  <2> QED BY <1>3, <1>5, <2>1, <2>2
<1>6. CASE host.connected /\ ~CleanClose(client, server)
  <2> DEFINE p == FailWith(observer, "CLEAN_SHUTDOWN_FAILED")
  <2>1. Ordinary("CLEAN_SHUTDOWN_FAILED")  BY DEF Ordinary, FailureCodes
  <2>2. Settled(p, host) /\ Steady(observer, p)
    BY <1>3, <2>1, FailWithSettled
  <2>3. s = [o |-> p, event |-> "NONE"]  BY <1>6 DEF Swept
  <2> HIDE DEF p
  <2>4. s.o = p /\ s.event = "NONE"  BY <2>3
  <2> QED BY <1>3, <2>2, <2>4 DEF Steady
<1> QED BY <1>4, <1>5, <1>6

(* The observer at the end: of a result that is used, and of one that is not. *)
Yielding(o) ==
  /\ ~host.aborted /\ host.event # "NONE" /\ CleanClose(client, server)
  /\ observer.failure \in {None, "BACKEND_TURN_FAILED"}
  /\ o = [observer EXCEPT !.result = TRUE,
                          !.state = IF observer.failure = None THEN "COMPLETED" ELSE @]

LEMMA FinishedEffect ==
  ASSUME Inv, Continues("SHUTDOWN")
  PROVE  LET end == Finished(Swept(observer)) IN
         /\ end.event \in {"NONE", "FAILURE", "RESULT"}
         /\ \/ end.event # "NONE" /\ Yielding(end.o)
            \/ /\ end.event = "NONE" /\ Settled(end.o, host)
               /\ end.o.state \in {"FAILED", "INTERRUPTED"}
<1> DEFINE s == Swept(observer)
           end == Finished(s)
<1>1. /\ Settled(s.o, host) /\ s.o.state \in {"RUNNING", "FAILED", "INTERRUPTED"}
      /\ s.event \in {"NONE", "FAILURE", "RESULT"}
      /\ s.event # "NONE" => /\ CleanClose(client, server)
                             /\ s = [o |-> observer, event |-> host.event]
  BY SweptEffect
<1> HIDE DEF s
<1>2. CASE host.aborted
  <2> DEFINE p == Cancel(s.o)
  <2>1. Settled(p, host) /\ Steady(s.o, p) /\ p.failure # None
    BY <1>1, <1>2, CancelEffect
  <2>2. end = [o |-> p, event |-> "NONE"]  BY <1>2 DEF Finished
  <2> HIDE DEF p, end
  <2>3. end.o = p /\ end.event = "NONE"  BY <2>2
  <2>4. p.state \in {"FAILED", "INTERRUPTED"}
    BY <2>1 DEF Settled, Observed, Flagged
  <2> QED BY <2>1, <2>3, <2>4 DEF end, s
<1>3. CASE ~host.aborted /\ s.event # "NONE" /\ s.o.failure \in {None, "BACKEND_TURN_FAILED"}
  <2>1. s = [o |-> observer, event |-> host.event] /\ CleanClose(client, server)
    BY <1>1, <1>3
  <2>2. s.o = observer /\ s.event = host.event  BY <2>1
  <2> DEFINE p == [observer EXCEPT !.result = TRUE,
                     !.state = IF observer.failure = None THEN "COMPLETED" ELSE @]
  <2>3. end = [s EXCEPT !.o.result = TRUE,
                        !.o.state = IF s.o.failure = None THEN "COMPLETED" ELSE @]
    BY <1>3 DEF Finished
  <2>4. end.event = s.event /\ end.o = p
    <3>1. observer \in Observer  BY InvFacts
    <3> QED BY <2>1, <2>2, <2>3, <3>1
  <2> HIDE DEF end, s
  <2>5. Yielding(end.o)
    BY <1>3, <2>1, <2>2, <2>4 DEF Yielding
  <2> QED BY <1>1, <1>3, <2>4, <2>5 DEF end, s
<1>4. CASE ~host.aborted /\ ~(s.event # "NONE" /\ s.o.failure \in {None, "BACKEND_TURN_FAILED"})
  <2> DEFINE p == FailIf(s.o, s.o.state = "RUNNING", "CLIENT_FAILURE")
  <2>1. end = [o |-> p, event |-> "NONE"]  BY <1>4 DEF Finished
  <2>2. Ordinary("CLIENT_FAILURE")  BY DEF Ordinary, FailureCodes
  <2>3. Settled(p, host) /\ p.state \in {"FAILED", "INTERRUPTED"}
    <3>1. CASE s.o.state = "RUNNING"
      <4>1. p = FailWith(s.o, "CLIENT_FAILURE")  BY <3>1 DEF FailIf
      <4> HIDE DEF p
      <4>2. Settled(p, host) /\ p.failure # None
        BY <1>1, <2>2, <4>1, FailWithSettled
      <4> QED BY <4>2 DEF Settled, Observed, Flagged
    <3>2. CASE s.o.state # "RUNNING"
      <4>1. p = s.o  BY <3>2 DEF FailIf
      <4> HIDE DEF p
      <4> QED BY <1>1, <3>2, <4>1
    <3> QED BY <3>1, <3>2
  <2> HIDE DEF p, end
  <2>4. end.o = p /\ end.event = "NONE"  BY <2>1
  <2> QED BY <2>3, <2>4 DEF end, s
<1> QED BY <1>2, <1>3, <1>4

(* A result that is used is of the Turn that was bound and reported, and of a *)
(* process that left with success.                                           *)
Own(o, d, r) ==
  /\ o.terminal # None /\ o.session = r.session /\ o.operation = r.operation
  /\ o.terminal.thread = r.session /\ o.terminal.turn = r.operation
  /\ IF o.terminal.status = "completed"
     THEN /\ o.failure = None /\ o.threads = {r.session} /\ o.turns = {r.operation}
          /\ \E i \in 1..Len(o.messages) :
               /\ o.messages[i] = o.terminal.item
               /\ \A j \in 1..(i - 1) : o.messages[j] \notin Final
     ELSE o.failure = "BACKEND_TURN_FAILED"
  /\ d.manual => o.compactions = 1
  /\ o.open = {} /\ r.operation # o.maintTurn

LEMMA YieldingEffect ==
  ASSUME Inv, Continues("SHUTDOWN"), NEW o, Yielding(o)
  PROVE  /\ Settled(o, host) /\ o.result /\ o.state \in {"COMPLETED", "FAILED"}
         /\ Own(o, host.directive, report) /\ report.refused = "NO"
         /\ client.closed /\ client.failure = None /\ ~server.failed
         /\ o.state = "COMPLETED" =>
              TerminalBound(report, o, TRUE) /\ ObservationAllowed(o, host.directive)
<1>1. "SHUTDOWN" \in Awaits  BY DEF Awaits
<1>2. Running(observer, host, report) /\ host.event # "NONE"
  BY <1>1, ContinuesFacts DEF Yielding
<1>3. /\ Attached(observer, report) /\ Sealed(observer, host.directive)
      /\ Waiting(observer, host.event)
  BY <1>2 DEF Running
<1>4. /\ Settled(observer, host) /\ observer \in Observer
      /\ host.event \in {"FAILURE", "RESULT"} /\ host.directive.manual \in BOOLEAN
  BY <1>2, InvFacts DEF Host
<1> DEFINE state == IF observer.failure = None THEN "COMPLETED" ELSE observer.state
<1>5. o = [observer EXCEPT !.result = TRUE, !.state = state]
  BY <1>4 DEF Yielding
<1>6. /\ observer.failure = None => state = "COMPLETED"
      /\ observer.failure # None => state = "FAILED" /\ observer.failure = "BACKEND_TURN_FAILED"
  BY <1>4 DEF Yielding, Settled, Observed, Flagged
<1>7. state \in {"COMPLETED", "FAILED"}  BY <1>6
<1> HIDE DEF state
<1>8. /\ o \in Observer /\ o.result /\ o.state = state
      /\ o.session = observer.session /\ o.operation = observer.operation
      /\ o.interrupts = observer.interrupts /\ o.launches = observer.launches
      /\ o.failure = observer.failure /\ o.terminal = observer.terminal
      /\ o.threads = observer.threads /\ o.turns = observer.turns
      /\ o.messages = observer.messages /\ o.first = observer.first
      /\ o.manual = observer.manual /\ o.maintTurn = observer.maintTurn
      /\ o.open = observer.open /\ o.compactions = observer.compactions
  BY <1>4, <1>5, <1>7 DEF Observer
<1>9. Settled(o, host)
  <2>1. Formed(o)  BY <1>4, <1>8 DEF Settled, Formed
  <2>2. Observed(o, host)
    BY <1>4, <1>6, <1>8 DEF Settled, Observed, Flagged, Bound, Witnessed, Compacted
  <2> QED BY <2>1, <2>2 DEF Settled
<1>10. Own(o, host.directive, report)
  <2>1. CASE host.event = "RESULT"
    <3>1. observer.terminal.status = "completed" /\ observer.failure = None /\ FirstFinal(observer)
      BY <1>3, <1>6, <2>1 DEF Waiting
    <3>2. /\ observer.threads \subseteq {observer.session}
          /\ observer.turns \subseteq {observer.operation}
          /\ observer.session \in observer.threads /\ observer.operation \in observer.turns
      BY <1>3, <1>4, <3>1 DEF Settled, Observed, Bound, Witnessed, Attached, Waiting
    <3>3. observer.threads = {observer.session} /\ observer.turns = {observer.operation}
      BY <3>2
    <3> QED BY <1>3, <1>8, <3>1, <3>3 DEF Own, Attached, Waiting, Sealed, FirstFinal
  <2>2. CASE host.event = "FAILURE"
    <3>1. observer.terminal.status = "failed" /\ observer.failure = "BACKEND_TURN_FAILED"
      BY <1>3, <1>6, <2>2 DEF Waiting
    <3> QED BY <1>3, <1>8, <3>1 DEF Own, Attached, Waiting, Sealed
  <2> QED BY <1>4, <2>1, <2>2
<1>11. o.state = "COMPLETED" =>
         TerminalBound(report, o, TRUE) /\ ObservationAllowed(o, host.directive)
  <2> SUFFICES ASSUME o.state = "COMPLETED"
               PROVE  TerminalBound(report, o, TRUE) /\ ObservationAllowed(o, host.directive)
    OBVIOUS
  <2>1. o.failure = None /\ observer.failure = None  BY <1>6, <1>8
  <2>2. /\ o.launches = 1 /\ o.interrupts = 0 /\ o.session # None /\ o.operation # None
        /\ report.stage = "OPERATION_RUNNING"
        /\ o.session = report.session /\ o.operation = report.operation /\ o.result = TRUE
    BY <1>3, <1>8 DEF Attached, Waiting, Observer
  <2>3. /\ host.directive.manual => o.compactions = 1
        /\ ~host.directive.manual => o.compactions = 0
    BY <1>3, <1>9, <2>1, <1>8 DEF Sealed, Settled, Observed, Compacted
  <2>4. TerminalBound(report, o, TRUE)
    BY <2>2 DEF TerminalBound
  <2>5. ObservationAllowed(o, host.directive)
    BY <2>1, <2>2, <2>3 DEF ObservationAllowed
  <2> QED BY <2>4, <2>5
<1> QED BY <1>3, <1>7, <1>8, <1>9, <1>10, <1>11 DEF Yielding, CleanClose, Attached

LEMMA ConcludeInv == ASSUME Inv, Conclude PROVE Inv'
<1> DEFINE end == Finished(Swept(observer))
           yielded == end.event # "NONE"
<1>1. /\ Continues("SHUTDOWN") /\ client' = client /\ server' = server
      /\ observer' = end.o
      /\ host' = [host EXCEPT !.pc = "ENDED", !.event = end.event, !.yielded = yielded]
      /\ \E stored \in BOOLEAN :
           report' = TerminalReported(report, end.o, host.directive, yielded, stored)
  BY DEF Conclude
<1>2. "SHUTDOWN" \in Awaits  BY DEF Awaits
<1>3. /\ host.pc = "SHUTDOWN" /\ server.state # "STARTING" /\ Running(observer, host, report)
      /\ host.wake = "ABORT" => host.aborted
      /\ client.closed \/ client.stage = "EXPIRED"
  BY <1>1, <1>2, ContinuesFacts DEF Continues, AwaitSettled
<1>4. /\ report.stage \in OpenStages /\ ~report.result
  BY <1>3 DEF Running, Inv, Placed
<1>5. /\ end.event \in {"NONE", "FAILURE", "RESULT"}
      /\ \/ end.event # "NONE" /\ Yielding(end.o)
         \/ /\ end.event = "NONE" /\ Settled(end.o, host)
            /\ end.o.state \in {"FAILED", "INTERRUPTED"}
  BY <1>1, FinishedEffect
<1>6. yielded \in BOOLEAN /\ (yielded => Yielding(observer'))
      /\ (~yielded => Settled(observer', host) /\ observer'.state \in {"FAILED", "INTERRUPTED"})
  BY <1>1, <1>5
<1>7. /\ host' = [host EXCEPT !.pc = "ENDED", !.event = end.event, !.yielded = yielded]
      /\ end.event \in {"NONE", "FAILURE", "RESULT"}
  BY <1>1, <1>5
<1>8. PICK stored \in BOOLEAN :
        report' = TerminalReported(report, observer', host.directive, yielded, stored)
  BY <1>1
<1> HIDE DEF end, yielded
<1>9. yielded =>
         /\ Settled(observer', host) /\ observer'.result
         /\ observer'.state \in {"COMPLETED", "FAILED"}
         /\ Own(observer', host.directive, report) /\ report.refused = "NO"
         /\ client.closed /\ client.failure = None /\ ~server.failed
         /\ observer'.state = "COMPLETED" =>
              TerminalBound(report, observer', TRUE) /\ ObservationAllowed(observer', host.directive)
  BY <1>1, <1>6, YieldingEffect
<1>10. Settled(observer', host) /\ observer'.state \in {"COMPLETED", "FAILED", "INTERRUPTED"}
  BY <1>6, <1>9
<1>11. /\ host' \in Host /\ host'.pc = "ENDED" /\ host'.yielded = yielded
       /\ host'.directive = host.directive /\ host'.aborted = host.aborted
       /\ host'.disposition = host.disposition /\ host'.wake = host.wake
  BY <1>6, <1>7, InvFacts DEF Host, Over
<1> DEFINE accepted == [report EXCEPT !.stage = observer'.state, !.result = yielded]
           allowed == /\ TerminalBound(report, observer', yielded)
                      /\ ObservationAllowed(observer', host.directive)
<1>12. /\ accepted \in Report /\ accepted.stage = observer'.state /\ accepted.result = yielded
       /\ accepted.session = report.session /\ accepted.operation = report.operation
       /\ accepted.refused = report.refused
  BY <1>6, <1>10, InvFacts DEF Report
<1>13. report' = Reported(report, allowed, stored, accepted)
  BY <1>8 DEF TerminalReported
<1> HIDE DEF accepted
<1>14. report.refused = "NO" /\ allowed => report'.refused # "DRIVER"
  <2> HIDE DEF allowed
  <2> QED BY <1>12, <1>13, InvFacts DEF Reported, Report
<1>15. /\ report' \in Report
       /\ report'.refused = "NO" => report' = accepted /\ allowed
       /\ report'.refused # "NO" => /\ report'.stage = report.stage
                                    /\ report'.session = report.session
                                    /\ report'.operation = report.operation
                                    /\ report'.result = report.result
  <2> HIDE DEF allowed
  <2> QED BY <1>12, <1>13, InvFacts, ReportedType
<1>16. Settled(observer', host')  BY <1>10, <1>11, SettledAborted
<1>17. report.stage # "AUTHORIZED" => report'.stage # "AUTHORIZED"
  BY <1>10, <1>12, <1>15
<1>18. Talk(client', host', report')
  <2>1. Talk(client, host, report)  BY DEF Inv
  <2> QED BY <1>1, <1>11, <1>17, <2>1
        DEF Talk, Recorded, CancelledByHost, Killing, Asking, Awaits, Reads
<1>19. Processes(client', server', observer', host', report')
  <2>1. /\ server.state # "NONE" /\ ~server.helper /\ ~server.reused /\ host.disposition = None
        /\ client.closed => server.state = "EXITED"
    BY <1>3 DEF Inv, Processes, Searching
  <2>2. client # NoClient
    <3>1. ~NoClient.closed /\ NoClient.stage = "NONE"  BY DEF NoClient
    <3> QED BY <1>3, <3>1
  <2> QED BY <1>1, <1>3, <1>11, <2>1, <2>2 DEF Processes, Searching, Dispositions
<1>20. Placed(client', server', observer', host', report')
  BY <1>3, <1>11 DEF Placed, Awaits, Reads
<1>21. TypeOK'
  BY <1>1, <1>11, <1>15, <1>16, InvFacts DEF TypeOK, ClientTypeOK, Settled, Formed
<1>22. ResultIsOwnTurn'
  <2>1. ASSUME report'.result
        PROVE  /\ host'.yielded /\ ~host'.aborted /\ Own(observer', host'.directive, report')
               /\ client'.closed /\ client'.failure = None /\ ~server'.failed
               /\ ~host'.directive.manual => observer'.compactions = 0
    <3>1. report' = accepted /\ yielded /\ allowed
      BY <1>4, <1>12, <1>15, <2>1
    <3>2. Own(observer', host.directive, report')
      BY <1>9, <1>12, <3>1 DEF Own
    <3>3. ~host.directive.manual => observer'.compactions = 0
      BY <3>1 DEF ObservationAllowed
    <3> QED BY <1>1, <1>6, <1>9, <1>11, <3>1, <3>2, <3>3 DEF Yielding
  <2>2. host'.yielded /\ observer'.state = "COMPLETED" => report'.refused # "DRIVER"
    <3>1. ASSUME yielded, observer'.state = "COMPLETED"
          PROVE  allowed /\ report.refused = "NO"
      <4>1. yielded = TRUE  BY <1>6, <3>1
      <4> QED BY <1>9, <3>1, <4>1
    <3> HIDE DEF allowed
    <3> QED BY <1>11, <1>14, <3>1
  <2> QED BY <2>1, <2>2 DEF ResultIsOwnTurn, Own
<1> QED BY <1>16, <1>18, <1>19, <1>20, <1>21, <1>22 DEF Inv, Settled

LEMMA HostStepInv == ASSUME Inv, HostStep PROVE Inv'
BY DeclineInv, StartInv, ContinueInitInv, ContinueReadInv, ContinueThreadInv,
   ContinueSessionInv, ContinueCompactionInv, ContinueTurnInv, ContinueWaitInv,
   ContinueInterruptInv, ConcludeInv DEF HostStep

-----------------------------------------------------------------------------
(* The processes, a crash of the host, and the next host *)

LEMMA ServerStep ==
  ASSUME Inv, server' \in Server, Processes(client, server', observer, host, report),
         host.pc # "IDLE", report.result => ~server'.failed,
         client' = client, observer' = observer, host' = host, report' = report
  PROVE  Inv'
<1>1. TypeOK'  BY InvFacts DEF Inv, TypeOK, ClientTypeOK
<1>2. Placed(client', server', observer', host', report')
  BY DEF Inv, Placed
<1>3. ResultIsOwnTurn'  BY DEF Inv, ResultIsOwnTurn
<1> QED BY <1>1, <1>2, <1>3 DEF Inv

LEMMA KilledInv == ASSUME Inv, Killed PROVE Inv'
<1>1. /\ server.state = "RUNNING" \/ server.helper
      /\ server' = [server EXCEPT !.state = "EXITED", !.failed = TRUE, !.helper = FALSE]
      /\ client' = client /\ observer' = observer /\ host' = host /\ report' = report
  BY DEF Killed
<1>2. /\ server' \in Server /\ server'.state = "EXITED" /\ ~server'.helper
      /\ server'.reused = server.reused
  BY <1>1, InvFacts DEF Server
<1>3. host.pc # "IDLE" /\ ~(host.pc = "ENDED" /\ client = NoClient)
  BY <1>1 DEF Inv, Processes, Searching
<1>4. Processes(client, server', observer, host, report)
  BY <1>1, <1>2, <1>3 DEF Inv, Processes, OwnedProcessGone, LeaderExists, GroupExists
<1>5. ~report.result
  BY <1>1 DEF Inv, Placed, Processes, ResultIsOwnTurn, Searching
<1> QED BY <1>1, <1>2, <1>3, <1>4, <1>5, ServerStep

LEMMA ProcessesLeaveInv == ASSUME Inv, ProcessesLeave PROVE Inv'
<1>1. /\ host.pc \in Searching
      /\ \/ server.state = "RUNNING" /\ server' = [server EXCEPT !.state = "EXITED"]
         \/ server.helper /\ server' = [server EXCEPT !.helper = FALSE]
      /\ client' = client /\ observer' = observer /\ host' = host /\ report' = report
  BY DEF ProcessesLeave, Searching
<1>2. /\ server' \in Server /\ server'.state \in {server.state, "EXITED"}
      /\ server'.helper => server.helper
      /\ server'.reused = server.reused
  BY <1>1, InvFacts DEF Server
<1>3. host.pc # "IDLE" /\ host.pc # "ENDED" /\ host.pc # "RECOVERED"
  BY <1>1 DEF Searching
<1>4. Processes(client, server', observer, host, report)
  BY <1>1, <1>2, <1>3 DEF Inv, Processes, Dispositions
<1>5. ~report.result  BY <1>3 DEF Inv, Placed
<1> QED BY <1>1, <1>2, <1>3, <1>4, <1>5, ServerStep

LEMMA NumberReusedInv == ASSUME Inv, NumberReused PROVE Inv'
<1>1. /\ host.pc = "CRASHED" /\ server.state = "EXITED" /\ ~server.helper
      /\ server' = [server EXCEPT !.reused = TRUE]
      /\ client' = client /\ observer' = observer /\ host' = host /\ report' = report
  BY DEF NumberReused
<1>2. server' \in Server /\ server'.state = "EXITED" /\ ~server'.helper
  BY <1>1, InvFacts DEF Server
<1>3. Processes(client, server', observer, host, report)
  BY <1>1, <1>2 DEF Inv, Processes, Dispositions, Searching
<1>4. ~report.result  BY <1>1 DEF Inv, Placed
<1> QED BY <1>1, <1>2, <1>3, <1>4, ServerStep

LEMMA CrashInv == ASSUME Inv, Crash PROVE Inv'
<1>1. /\ host.pc \in Awaits /\ client' = NoClient /\ observer' = NewObserver /\ report' = report
      /\ host' = [host EXCEPT !.pc = "CRASHED", !.connected = FALSE, !.thread = None,
                              !.wake = None, !.event = "NONE"]
      /\ \E state \in {"RUNNING", "EXITED"}, helper \in BOOLEAN :
           server' = [server EXCEPT !.state = state, !.helper = helper, !.stray = 0]
  BY DEF Crash
<1>2. /\ ~server.reused /\ host.disposition = None /\ ~host.yielded /\ ~report.result
  BY <1>1 DEF Inv, Processes, Placed, Awaits, Reads, Searching
<1>3. /\ server' \in Server /\ server'.state \in {"RUNNING", "EXITED"} /\ ~server'.reused
  <2>1. PICK state \in {"RUNNING", "EXITED"}, helper \in BOOLEAN :
          server' = [server EXCEPT !.state = state, !.helper = helper, !.stray = 0]
    BY <1>1
  <2>2. 0 \in 0..MaxStray  OBVIOUS
  <2>3. server' \in Server  BY <2>1, <2>2, InvFacts DEF Server
  <2>4. server'.state = state /\ server'.reused = server.reused
    BY <2>1, InvFacts DEF Server
  <2> QED BY <1>2, <2>3, <2>4
<1>4. /\ host' \in Host /\ host'.pc = "CRASHED" /\ host'.event = "NONE" /\ host'.wake = None
      /\ host'.directive = host.directive /\ host'.aborted = host.aborted
      /\ host'.yielded = host.yielded /\ host'.disposition = host.disposition
  BY <1>1, InvFacts DEF Host
<1>5. Settled(NewObserver, host')
  <2>1. NewObserver \in Observer /\ Len(NewObserver.messages) = 0
    BY DEF NewObserver, Observer
  <2>2. /\ NewObserver.failure = None /\ NewObserver.state = "READY"
        /\ NewObserver.session = None /\ NewObserver.operation = None
        /\ NewObserver.terminal = None /\ NewObserver.first = None
        /\ ~NewObserver.manual /\ NewObserver.open = {} /\ NewObserver.compactions = 0
    BY DEF NewObserver
  <2>3. Formed(NewObserver)  BY <2>1 DEF Formed
  <2>4. Observed(NewObserver, host')
    BY <2>2 DEF Observed, Flagged, Bound, Witnessed, Compacted, FailureCodes, Firsts
  <2> QED BY <2>3, <2>4 DEF Settled
<1>6. /\ NoClient \in Client /\ NoClient.outcome = None /\ NoClient.pending = None
      /\ ~NoClient.ready /\ NoClient.failure = None /\ NoClient.stage = "NONE"
      /\ ~NoClient.closed
  BY DEF NoClient, Client
<1>7. None # Rejected("HOST_CANCELLED") /\ None # "HOST_CANCELLED"
  <2>1. "HOST_CANCELLED" \in Codes  BY DEF Codes
  <2> QED BY <2>1, RejectedType
<1>8. Talk(client', host', report')
  BY <1>1, <1>4, <1>6, <1>7
    DEF Talk, Recorded, CancelledByHost, Killing, Asking, Awaits, Reads
<1>9. Processes(client', server', observer', host', report')
  BY <1>1, <1>2, <1>3, <1>4, <1>6 DEF Processes, Searching, Dispositions
<1>10. Placed(client', server', observer', host', report')
  BY <1>1, <1>2, <1>4 DEF Placed, Awaits, Reads, Wakes
<1> QED BY <1>1, <1>3, <1>4, <1>5, <1>6, <1>8, <1>9, <1>10, InvFacts, Assemble

(* The next host looks, signals, and concludes. *)
LEMMA SearchStep ==
  ASSUME Inv, host.pc \in Searching,
         client' \in Client,
         client'.ready = client.ready, client'.closed = client.closed,
         client'.pending = client.pending, client'.outcome = client.outcome,
         client'.failure = client.failure, client'.stage = client.stage,
         client.signal = "KILL" => client'.signal = "KILL",
         server' = server, observer' = observer, report' = report,
         host' \in Host, host'.pc \in Searching \union {"RECOVERED"},
         host'.directive = host.directive, host'.aborted = host.aborted,
         host'.yielded = host.yielded, host'.wake = host.wake, host'.event = host.event,
         host'.disposition # None => host'.pc = "RECOVERED",
         host'.disposition \in {"ABSENT", "TERMINATED"} => OwnedProcessGone(server)
  PROVE  Inv'
<1>1. host'.wake = "ABORT" => host'.aborted
  BY DEF Inv, Placed
<1>2. host.pc \notin Awaits /\ host'.pc \notin Awaits /\ host.pc # "ENDED" /\ host'.pc # "ENDED"
      /\ host.pc # "IDLE" /\ host'.pc # "IDLE" /\ host'.pc # "SHUTDOWN" /\ host.pc # "SHUTDOWN"
  BY DEF Searching, Awaits, Reads
<1>3. Talk(client', host', report')
  BY <1>1, <1>2 DEF Inv, Talk, Recorded, CancelledByHost, Killing, Asking, Awaits, Reads
<1>4. Processes(client', server', observer', host', report')
  BY <1>1, <1>2 DEF Inv, Processes, Spawning, Awaits
<1>5. Settled(observer', host')
  BY <1>1, InvFacts, SettledAborted
<1>6. Placed(client', server', observer', host', report')
  BY <1>1, <1>2 DEF Inv, Placed
<1> QED BY <1>2, <1>3, <1>4, <1>5, <1>6, InvFacts, Assemble

(* The steps of the next host, one by one. *)
LEMMA SignalledEffect ==
  ASSUME NEW c \in Client, NEW signal \in {"TERM", "KILL"}
  PROVE  LET f == Signalled(c, signal) IN
         /\ f \in Client /\ f.ready = c.ready /\ f.closed = c.closed /\ f.pending = c.pending
         /\ f.outcome = c.outcome /\ f.failure = c.failure /\ f.stage = c.stage
         /\ c.signal = "KILL" => f.signal = "KILL"
BY DEF Signalled, Client

LEMMA ConcludedStep ==
  ASSUME Inv, host.pc \in Searching, NEW disposition \in Dispositions, Concluded(disposition),
         disposition \in {"ABSENT", "TERMINATED"} => OwnedProcessGone(server),
         client' = client, server' = server, observer' = observer, report' = report
  PROVE  Inv'
<1>1. /\ host' \in Host /\ host'.pc = "RECOVERED" /\ host'.event = host.event
      /\ host'.disposition = disposition /\ host'.directive = host.directive
      /\ host'.aborted = host.aborted /\ host'.yielded = host.yielded /\ host'.wake = host.wake
  BY InvFacts DEF Concluded, Host, Over
<1> QED BY <1>1, InvFacts, SearchStep

LEMMA SignalledStep ==
  ASSUME Inv, host.pc \in Searching, NEW signal \in {"TERM", "KILL"},
         client' = Signalled(client, signal),
         NEW pc \in {"TERM_WAIT", "KILL_WAIT"}, host' = [host EXCEPT !.pc = pc],
         server' = server, observer' = observer, report' = report
  PROVE  Inv'
<1>1. host.disposition = None  BY DEF Inv, Processes, Searching
<1>2. /\ host' \in Host /\ host'.pc = pc /\ host'.event = host.event
      /\ host'.disposition = host.disposition /\ host'.directive = host.directive
      /\ host'.aborted = host.aborted /\ host'.yielded = host.yielded /\ host'.wake = host.wake
  BY InvFacts DEF Host
<1>3. /\ client' \in Client
      /\ client'.ready = client.ready /\ client'.closed = client.closed
      /\ client'.pending = client.pending /\ client'.outcome = client.outcome
      /\ client'.failure = client.failure /\ client'.stage = client.stage
      /\ client.signal = "KILL" => client'.signal = "KILL"
  BY InvFacts, SignalledEffect
<1> QED BY <1>1, <1>2, <1>3, SearchStep DEF Searching, Dispositions

LEMMA ReconcileInv == ASSUME Inv, Reconcile PROVE Inv'
<1>1. /\ host.pc = "CRASHED" /\ host.pc \in Searching
      /\ server' = server /\ observer' = observer /\ report' = report
  BY DEF Reconcile, Searching
<1>2. CASE Concluded("NOT_RECORDED") /\ client' = client
  BY <1>1, <1>2, ConcludedStep DEF Dispositions
<1>3. CASE Inspect(server) # "SIGNAL" /\ Concluded(Inspect(server)) /\ client' = client
  <2>1. Inspect(server) \in Dispositions \ {"TERMINATED"}
    BY <1>3 DEF Inspect, Dispositions
  <2>2. Inspect(server) = "ABSENT" => OwnedProcessGone(server)
    BY DEF Inspect, OwnedProcessGone, LeaderExists, GroupExists
  <2> QED BY <1>1, <1>3, <2>1, <2>2, ConcludedStep
<1>4. CASE Concluded("TERMINATION_FAILED") /\ client' = client
  BY <1>1, <1>4, ConcludedStep DEF Dispositions
<1>5. CASE client' = Signalled(client, "TERM") /\ host' = [host EXCEPT !.pc = "TERM_WAIT"]
  BY <1>1, <1>5, SignalledStep
<1> QED BY <1>2, <1>3, <1>4, <1>5 DEF Reconcile

LEMMA SeesProcessGoneInv == ASSUME Inv, SeesProcessGone PROVE Inv'
BY ConcludedStep DEF SeesProcessGone, Searching, Dispositions

LEMMA ReconcileTimeoutInv == ASSUME Inv, ReconcileTimeout PROVE Inv'
<1>1. /\ host.pc \in Searching /\ server' = server /\ observer' = observer /\ report' = report
  BY DEF ReconcileTimeout, Searching
<1>2. CASE client' = Signalled(client, "KILL") /\ host' = [host EXCEPT !.pc = "KILL_WAIT"]
  BY <1>1, <1>2, SignalledStep
<1>3. CASE Concluded("TERMINATION_FAILED") /\ client' = client
  BY <1>1, <1>3, ConcludedStep DEF Dispositions
<1> QED BY <1>2, <1>3 DEF ReconcileTimeout

-----------------------------------------------------------------------------
(* The invariant holds *)

LEMMA InitInv == ASSUME Init PROVE Inv
<1>1. /\ client = NoClient /\ server = NoServer /\ observer = NewObserver
      /\ host.pc = "IDLE" /\ host.directive \in Directives /\ ~host.aborted /\ ~host.yielded
      /\ host.event = "NONE" /\ host.wake = None /\ host.disposition = None
      /\ report.stage = "AUTHORIZED" /\ report.refused = "NO" /\ ~report.result
  BY DEF Init
<1>2. client \in Client /\ server \in Server /\ observer \in Observer
  BY <1>1 DEF NoClient, NoServer, NewObserver, Client, Server, Observer
<1>3. host \in Host /\ report \in Report
  BY DEF Init, Host, Report
<1>4. /\ NoClient.outcome = None /\ NoClient.pending = None
      /\ ~NoClient.ready /\ NoClient.failure = None /\ NoClient.stage = "NONE"
      /\ ~NoClient.closed
      /\ NoServer.state = "NONE" /\ ~NoServer.helper /\ ~NoServer.reused
      /\ NewObserver.failure = None /\ NewObserver.state = "READY"
      /\ NewObserver.session = None /\ NewObserver.operation = None
      /\ NewObserver.terminal = None /\ NewObserver.first = None
      /\ ~NewObserver.manual /\ NewObserver.open = {} /\ NewObserver.compactions = 0
      /\ NewObserver.messages = <<>>
  BY DEF NoClient, NoServer, NewObserver
<1>5. None # Rejected("HOST_CANCELLED") /\ None # "HOST_CANCELLED"
  <2>1. "HOST_CANCELLED" \in Codes  BY DEF Codes
  <2> QED BY <2>1, RejectedType
<1>6. Talk(client, host, report)
  BY <1>1, <1>4, <1>5
    DEF Talk, Recorded, CancelledByHost, Killing, Asking, Awaits, Reads
<1>7. Processes(client, server, observer, host, report)
  BY <1>1, <1>4 DEF Processes, Searching, Dispositions
<1>8. Observed(observer, host)
  BY <1>1, <1>4 DEF Observed, Flagged, Bound, Witnessed, Compacted, FailureCodes, Firsts
<1>9. Placed(client, server, observer, host, report)
  BY <1>1 DEF Placed, Awaits, Reads, Wakes
<1>10. TypeOK
  BY <1>1, <1>2, <1>3, <1>4 DEF TypeOK, ClientTypeOK
<1>11. ResultIsOwnTurn  BY <1>1 DEF ResultIsOwnTurn
<1> QED BY <1>6, <1>7, <1>8, <1>9, <1>10, <1>11 DEF Inv

LEMMA NextInv == ASSUME Inv, [Next]_vars PROVE Inv'
<1>1. CASE Next
  BY <1>1, HostStepInv, SpawnOutcomeInv, AbortInv, RequestTimeoutInv, TurnTimeoutInv,
     ShutdownTimeoutInv, RefusalSentInv, OutputEndsInv, CloseInv, ReplyInv, GarbageInv,
     ServerNotifiesInv, ServerRequestsInv, ProcessesLeaveInv, KilledInv, CrashInv,
     NumberReusedInv, ReconcileInv, SeesProcessGoneInv, ReconcileTimeoutInv
    DEF Next
<1>2. CASE UNCHANGED vars
  <2>1. /\ client' = client /\ server' = server /\ observer' = observer /\ host' = host
        /\ report' = report
    BY <1>2 DEF vars
  <2>2. TypeOK' /\ ResultIsOwnTurn'
    BY <2>1 DEF Inv, TypeOK, ClientTypeOK, ResultIsOwnTurn
  <2> QED BY <2>1, <2>2 DEF Inv
<1> QED BY <1>1, <1>2

THEOREM Invariant == Spec => []Inv
BY InitInv, NextInv, PTL DEF Spec

(* Every reachable state is well typed: no more messages are kept than the   *)
(* adapter allows, and every record of the client, of the observer and of    *)
(* the driver has the fields the code gives it.                              *)
THEOREM TypeCorrect == Spec => []TypeOK
<1>1. Inv => TypeOK  BY DEF Inv
<1> QED BY <1>1, Invariant, PTL

(* A result that the driver accepts is of the Turn that was bound and        *)
(* reported, with nothing recorded against it, and of a process that left    *)
(* with success; the driver refuses no completed Turn's result.              *)
THEOREM ResultsAreOwn == Spec => []ResultIsOwnTurn
<1>1. Inv => ResultIsOwnTurn  BY DEF Inv
<1> QED BY <1>1, Invariant, PTL

LEMMA InvLeavesNoProcess == ASSUME Inv PROVE LeavesNoProcess
<1>1. client.ready => report.stage # "AUTHORIZED"
  BY DEF Inv, Talk, Recorded
<1>2. ASSUME host.pc = "ENDED", server.state = "RUNNING"
      PROVE  client.stage = "EXPIRED" /\ client.signal = "KILL"
  <2>1. client # NoClient /\ ~client.closed  BY <1>2 DEF Inv, Processes
  <2>2. client.stage = "EXPIRED"  BY <1>2, <2>1 DEF Inv, Processes
  <2> QED BY <2>2 DEF Inv, Talk, Killing
<1>3. host.disposition \in {"ABSENT", "TERMINATED"} => OwnedProcessGone(server)
  BY DEF Inv, Processes
<1> QED BY <1>1, <1>2, <1>3 DEF LeavesNoProcess

(* The driver's record always lets the next host find a process the host     *)
(* talks to, a run ends only when its process is gone or was killed after    *)
(* every wait, and what the next host says of the processes is true.         *)
THEOREM ProcessesAreEnded == Spec => []LeavesNoProcess
BY InvLeavesNoProcess, Invariant, PTL

-----------------------------------------------------------------------------
(* One request at a time: what each step leaves in flight *)

LEMMA QuietlyDue == ASSUME client'.pending \in {None, client.pending} PROVE RequestDue
BY DEF RequestDue

LEMMA DueWhenIdle ==
  ASSUME client.pending = None, ~host.directive.manual \/ client'.pending # "turn/start"
  PROVE  RequestDue
BY DEF RequestDue

(* A client in shutdown has nothing in flight that was not there. *)
LEMMA ShutPending ==
  ASSUME NEW c \in Client, c.pending = None
  PROVE  Shutdown(Taken(c)).pending = None
<1>1. Taken(c) \in Client /\ Same(c, Taken(c))  BY TakenEffect
<1>2. Closing(Taken(c), Shutdown(Taken(c)))  BY <1>1, ShutdownEffect
<1> QED BY <1>1, <1>2 DEF Same, Closing

LEMMA AskPending ==
  ASSUME NEW c \in Client, c.pending = None, NEW method \in Methods, NEW aborted \in BOOLEAN
  PROVE  CancellableRequest(Taken(c), method, aborted).pending \in {None, method}
<1>1. Taken(c) \in Client /\ Same(c, Taken(c))  BY TakenEffect
<1>2. Asked(Taken(c), CancellableRequest(Taken(c), method, aborted), method, aborted)
  BY <1>1, RequestEffect
<1> QED BY <1>1, <1>2 DEF Same, Asked

LEMMA ThrowDue ==
  ASSUME Inv, client.pending = None, NEW o, NEW code, Throw(o, code)
  PROVE  RequestDue
<1>1. client'.pending = None  BY InvFacts, ShutPending DEF Throw
<1> QED BY <1>1, QuietlyDue

LEMMA AskDue ==
  ASSUME Inv, NEW c \in Client, client.pending = None, c.pending = None,
         NEW method \in Methods \ {"turn/start"}, NEW o, NEW h, Ask(o, c, method, h)
  PROVE  RequestDue
<1>1. host.aborted \in BOOLEAN  BY InvFacts DEF Host
<1>2. client'.pending \in {None, method}  BY <1>1, AskPending DEF Ask
<1>3. None \notin Methods /\ "turn/start" \in Methods  BY DEF Methods
<1>4. client'.pending # "turn/start"  BY <1>2, <1>3
<1> QED BY <1>4, DueWhenIdle

LEMMA InitDue == ASSUME Inv, ContinueInit PROVE RequestDue
<1> DEFINE c == Initialized(client)
<1>1. Continues("INIT") /\ "INIT" \in Awaits \ {"SHUTDOWN"}  BY DEF ContinueInit, Awaits
<1>2. client.pending = None  BY <1>1, ContinuesFacts
<1>3. c \in Client /\ c.pending = None
  <2>1. c \in Client  BY InvFacts, InitializedEffect
  <2>2. CASE Disturbed(client, c, "FAILED")
    BY <1>2, <2>1, <2>2 DEF Disturbed
  <2>3. CASE Same([client EXCEPT !.ready = TRUE], c)
    <3>1. [client EXCEPT !.ready = TRUE].pending = client.pending  BY InvFacts DEF Client
    <3> QED BY <1>2, <2>1, <2>3, <3>1 DEF Same
  <2> QED BY <2>1, <2>2, <2>3, InvFacts, InitializedEffect
<1>4. CASE c.ready
  <2>1. Ask(observer, c, "configRequirements/read",
            [host EXCEPT !.pc = "REQUIREMENTS", !.connected = TRUE])
    BY <1>4 DEF ContinueInit
  <2>2. "configRequirements/read" \in Methods \ {"turn/start"}  BY DEF Methods
  <2> HIDE DEF c
  <2> QED BY <1>2, <1>3, <2>1, <2>2, AskDue
<1>5. CASE ~c.ready
  <2>1. client' = Shutdown(Taken(c))  BY <1>5 DEF ContinueInit
  <2> HIDE DEF c
  <2>2. client'.pending = None  BY <1>3, <2>1, ShutPending
  <2> QED BY <2>2, QuietlyDue
<1> QED BY <1>4, <1>5

LEMMA ReadDue == ASSUME Inv, ContinueRead PROVE RequestDue
<1>1. PICK pc \in DOMAIN AfterRead :
        /\ Continues(pc)
        /\ IF ~client.outcome.ok THEN Throw(observer, RequestFailure)
           ELSE IF client.outcome.value # "FITS" THEN Throw(observer, "EFFECTIVE_INPUT_MISMATCH")
           ELSE Ask(observer, client, AfterRead[pc].method, [host EXCEPT !.pc = AfterRead[pc].pc])
  BY DEF ContinueRead
<1>2. /\ pc \in Awaits \ {"SHUTDOWN"}
      /\ AfterRead[pc].method \in Methods \ {"turn/start"}
  BY DEF AfterRead, Awaits, Reads, Methods
<1>3. client.pending = None  BY <1>1, <1>2, ContinuesFacts
<1>4. CASE Ask(observer, client, AfterRead[pc].method, [host EXCEPT !.pc = AfterRead[pc].pc])
  <2> DEFINE method == AfterRead[pc].method
             h == [host EXCEPT !.pc = AfterRead[pc].pc]
  <2>1. method \in Methods \ {"turn/start"} /\ Ask(observer, client, method, h)
    BY <1>2, <1>4
  <2> HIDE DEF method, h
  <2> QED BY <1>3, <2>1, InvFacts, AskDue
<1> QED BY <1>1, <1>3, <1>4, ThrowDue

LEMMA ThreadDue == ASSUME Inv, ContinueThread PROVE RequestDue
<1>1. Continues("THREAD") /\ "THREAD" \in Awaits \ {"SHUTDOWN"}  BY DEF ContinueThread, Awaits
<1>2. client.pending = None  BY <1>1, ContinuesFacts
<1>3. \/ \E code : Throw(observer, code)
      \/ \E h : Ask(observer, client, "config/read", h)
  BY DEF ContinueThread
<1>4. "config/read" \in Methods \ {"turn/start"}  BY DEF Methods
<1> QED BY <1>2, <1>3, <1>4, InvFacts, ThrowDue, AskDue

LEMMA SessionDue == ASSUME Inv, ContinueSession PROVE RequestDue
<1>1. Continues("POST_CONFIG") /\ "POST_CONFIG" \in Awaits \ {"SHUTDOWN"}
  BY DEF ContinueSession, Awaits, Reads
<1>2. client.pending = None  BY <1>1, ContinuesFacts
<1>3. CASE ~host.directive.manual
  BY <1>2, <1>3, DueWhenIdle
<1>4. CASE host.directive.manual
  <2>1. \/ \E o, code : Throw(o, code)
        \/ StartCompaction(BindThread(observer, host.thread))
    BY <1>4 DEF ContinueSession
  <2>2. ASSUME NEW o, StartCompaction(o), o.session \in Threads PROVE RequestDue
    <3>1. \/ \E code : Throw(BeginManualCompaction(o, host.directive), code)
          \/ client' = CompactThread(client, o.session)
      BY <2>2 DEF StartCompaction
    <3>2. ASSUME client' = CompactThread(client, o.session) PROVE RequestDue
      <4>1. Asked(client, client', "thread/compact/start", FALSE)
        BY <2>2, <3>2, InvFacts, CompactThreadEffect
      <4>2. client'.pending # "turn/start"
        BY <1>2, <4>1, ClientAssumption DEF Asked, Methods
      <4> QED BY <1>2, <4>2, DueWhenIdle
    <3> QED BY <1>2, <3>1, <3>2, ThrowDue
  <2>3. ASSUME StartCompaction(BindThread(observer, host.thread)) PROVE RequestDue
    <3> DEFINE bound == BindThread(observer, host.thread)
    <3>1. host.thread \in Threads
      <4>1. Running(observer, host, report) /\ host.pc = "POST_CONFIG"
        BY <1>1, ContinuesFacts
      <4> QED BY <4>1, InvFacts DEF Running, Host
    <3>2. Settled(bound, host) /\ bound.session # None
      BY <3>1, InvFacts, BindThreadEffect
    <3>3. bound.session \in Threads
      BY <3>2 DEF Settled, Formed, Observer
    <3> HIDE DEF bound
    <3> QED BY <2>2, <2>3, <3>3 DEF bound
  <2> QED BY <1>2, <2>1, <2>3, ThrowDue
<1> QED BY <1>3, <1>4

LEMMA CompactionDue == ASSUME Inv, ContinueCompaction PROVE RequestDue
<1> DEFINE finished == FinishManualCompaction(observer)
<1>1. Continues("COMPACT") /\ "COMPACT" \in Awaits \ {"SHUTDOWN"}
  BY DEF ContinueCompaction, Awaits
<1>2. client.pending = None /\ client.outcome # None  BY <1>1, ContinuesFacts
<1>3. CASE RejectedOutcome(client.outcome) \/ RejectedOutcome(client.compacted)
  <2> DEFINE c == CompactionRefused(client)
  <2>1. client' = Shutdown(Taken(c))  BY <1>3 DEF ContinueCompaction
  <2>2. c \in Client /\ c.pending = None
    BY <1>2, InvFacts, CompactionRefusedEffect DEF Same
  <2> HIDE DEF c
  <2>3. client'.pending = None  BY <2>1, <2>2, ShutPending
  <2> QED BY <2>3, QuietlyDue
<1>4. CASE ~(RejectedOutcome(client.outcome) \/ RejectedOutcome(client.compacted))
  <2>1. AcceptedOutcome(client.outcome)
    BY <1>2, <1>4 DEF RejectedOutcome, AcceptedOutcome
  <2>2. AcceptedOutcome(client.compacted)
    <3>1. host.pc = "COMPACT" /\ CompactionSettled
      BY <1>1 DEF Continues, AwaitSettled
    <3> QED BY <1>4, <2>1, <3>1 DEF CompactionSettled, RejectedOutcome, AcceptedOutcome
  <2>3. IF finished.failure # None THEN Throw(finished, finished.failure)
        ELSE IF host.aborted THEN Throw(finished, "HOST_CANCELLED")
        ELSE StartTurn(finished)
    BY <1>4 DEF ContinueCompaction
  <2>4. finished.failure = None => observer.compactions = 1 /\ observer.open = {}
    <3>1. Ordinary("COMPACTION_POLICY_VIOLATION")  BY DEF Ordinary, FailureCodes
    <3>2. FailWith(observer, "COMPACTION_POLICY_VIOLATION").failure # None
      BY <3>1, InvFacts, SettledPartial, FailWithEffect
    <3> QED BY <3>2 DEF FinishManualCompaction
  <2>5. ASSUME finished.failure = None PROVE RequestDue
    BY <1>2, <2>1, <2>2, <2>4, <2>5 DEF RequestDue
  <2> HIDE DEF finished
  <2> QED BY <1>2, <2>3, <2>5, ThrowDue
<1> QED BY <1>3, <1>4

LEMMA TurnDue == ASSUME Inv, ContinueTurn PROVE RequestDue
<1>1. Continues("TURN") /\ "TURN" \in Awaits \ {"SHUTDOWN"}  BY DEF ContinueTurn, Awaits
<1>2. client.pending = None  BY <1>1, ContinuesFacts
<1>3. client' = Taken(client) \/ \E o, code : Throw(o, code)
  BY DEF ContinueTurn
<1>4. client' = Taken(client) => client'.pending = None
  BY <1>2, InvFacts, TakenEffect DEF Same
<1> QED BY <1>2, <1>3, <1>4, QuietlyDue, ThrowDue

LEMMA WaitDue == ASSUME Inv, ContinueWait PROVE RequestDue
<1>1. Continues("WAIT") /\ "WAIT" \in Awaits \ {"SHUTDOWN"}  BY DEF ContinueWait, Awaits
<1>2. client.pending = None  BY <1>1, ContinuesFacts
<1>3. ASSUME NEW payload, Ended(payload) PROVE RequestDue
  <2>1. (\E o, code : Throw(o, code)) \/ client' = Shutdown(Taken(client))
    BY <1>3 DEF Ended, UseTerminal
  <2>2. client' = Shutdown(Taken(client)) => client'.pending = None
    BY <1>2, InvFacts, ShutPending
  <2> QED BY <1>2, <2>1, <2>2, QuietlyDue, ThrowDue
<1>4. ASSUME client' = Request(client, "turn/interrupt") PROVE RequestDue
  <2>1. "turn/interrupt" \in Methods  BY DEF Methods
  <2>2. Asked(client, client', "turn/interrupt", FALSE)
    BY <1>4, <2>1, InvFacts, RequestEffect
  <2>3. client'.pending # "turn/start"
    BY <1>2, <2>2, ClientAssumption DEF Asked, Methods
  <2> QED BY <1>2, <2>3, DueWhenIdle
<1>5. \/ client' = Request(client, "turn/interrupt")
      \/ \E code : Throw(observer, code)
      \/ \E payload : Ended(payload)
  <2>1. WaitResult \in {"ABORT", "TIMEOUT", "POLICY_FAILURE", "CLOSED", "TERMINAL"}
    BY WaitResultKinds DEF ContinueWait
  <2> QED BY <2>1 DEF ContinueWait
<1> QED BY <1>2, <1>3, <1>4, <1>5, ThrowDue

LEMMA InterruptDue == ASSUME Inv, ContinueInterrupt PROVE RequestDue
<1>1. Continues("INTERRUPT") /\ "INTERRUPT" \in Awaits \ {"SHUTDOWN"}
  BY DEF ContinueInterrupt, Awaits
<1>2. client.pending = None  BY <1>1, ContinuesFacts
<1>3. \E code : Throw(observer, code)  BY DEF ContinueInterrupt
<1> QED BY <1>2, <1>3, ThrowDue

LEMMA HostDue == ASSUME Inv, HostStep PROVE RequestDue
<1>1. CASE Decline \/ Conclude
  BY <1>1, QuietlyDue DEF Decline, Conclude
<1>2. CASE Start
  <2>1. client = NoClient  BY <1>2 DEF Start, Inv, Placed
  <2>2. client.pending = None /\ client'.pending = "spawn"
    BY <1>2, <2>1 DEF Start, NoClient, Constructed
  <2> QED BY <2>2, DueWhenIdle
<1> QED BY <1>1, <1>2, InitDue, ReadDue, ThreadDue, SessionDue, CompactionDue, TurnDue, WaitDue,
           InterruptDue DEF HostStep

LEMMA EventDue ==
  ASSUME Inv, \/ Abort \/ RequestTimeout \/ TurnTimeout \/ ShutdownTimeout \/ RefusalSent
              \/ OutputEnds \/ Close \/ Reply \/ Garbage \/ ServerNotifies \/ ServerRequests
  PROVE  RequestDue
<1>1. "FAILED" \in Codes /\ "HOST_CANCELLED" \in Codes /\ client \in Client
  BY InvFacts DEF Codes
<1>2. ASSUME NEW code \in Codes, client' \in {client, Fail(client, code)} PROVE RequestDue
  BY <1>1, <1>2, FailEffect, QuietlyDue DEF Disturbed
<1>3. CASE Abort \/ RequestTimeout \/ TurnTimeout \/ Garbage
  BY <1>1, <1>2, <1>3 DEF Abort, RequestTimeout, TurnTimeout, Garbage
<1>4. CASE ShutdownTimeout
  <2>1. Killing(client)  BY DEF Inv, Talk
  <2>2. client'.pending = client.pending
    BY <1>1, <1>4, <2>1, ShutdownTimerEffect DEF ShutdownTimeout
  <2> QED BY <2>2, QuietlyDue
<1>5. CASE RefusalSent
  <2> DEFINE a == [client EXCEPT !.refusing = FALSE]
  <2>1. a \in Client /\ a.pending = client.pending  BY <1>1 DEF Client
  <2>2. client' = Fail(a, "FAILED")  BY <1>5 DEF RefusalSent, RefusalWritten
  <2> HIDE DEF a
  <2>3. Disturbed(a, client', "FAILED")  BY <1>1, <2>1, <2>2, FailEffect
  <2> QED BY <2>1, <2>3, QuietlyDue DEF Disturbed
<1>6. CASE OutputEnds
  BY <1>1, <1>6, StdoutEndedEffect, QuietlyDue DEF OutputEnds, Disturbed
<1>7. CASE Close
  BY <1>1, <1>7, ProcessExitedEffect, QuietlyDue DEF Close
<1>8. CASE Reply
  <2>1. PICK body \in Replies \union {"ERROR", "MALFORMED"} : client' = ReceiveResponse(client, body)
    BY <1>8 DEF Reply
  <2>2. client.pending \in Methods \ {"spawn"}  BY <1>8, InvFacts DEF Reply, Client
  <2>3. Replies \subseteq Values
    BY <2>2 DEF Methods, Replies, ReadReplies, ThreadReplies, Values
  <2>4. client'.pending = None
    BY <1>1, <2>1, <2>3, ReceiveResponseEffect DEF Responded
  <2> QED BY <2>4, QuietlyDue
<1>9. CASE ServerNotifies
  <2>1. CASE client.handshake
    <3>1. PICK n \in Notification : client' = ObserveCompaction(client, n)
      BY <1>9, <2>1 DEF ServerNotifies, Notify
    <3>2. Disturbed(client, client', "FAILED")
      BY <1>1, <3>1, ObserveCompactionEffect
    <3> QED BY <3>2, QuietlyDue DEF Disturbed
  <2>2. CASE ~client.handshake
    BY <1>1, <1>2, <1>9, <2>2 DEF ServerNotifies, BeforeHandshake
  <2> QED BY <2>1, <2>2
<1>10. CASE ServerRequests
  <2>1. client' \in {client, RefuseServerRequest(client)}
    BY <1>10 DEF ServerRequests
  <2>2. RefuseServerRequest(client).pending = client.pending
    BY <1>1 DEF RefuseServerRequest, Client
  <2> QED BY <2>1, <2>2, QuietlyDue
<1> QED BY <1>3, <1>4, <1>5, <1>6, <1>7, <1>8, <1>9, <1>10

LEMMA StepDue == ASSUME Inv, [Next]_vars PROVE [RequestDue]_vars
<1>1. CASE SpawnOutcome
  <2>1. client = Constructed  BY <1>1, StartingFacts DEF SpawnOutcome, Spawning
  <2>2. \E admitted \in BOOLEAN : client' = Spawned(Constructed, admitted)
    <3>1. (report'.refused = "NO") \in BOOLEAN  OBVIOUS
    <3> QED BY <1>1, <2>1, <3>1 DEF SpawnOutcome
  <2>3. client.pending = "spawn" /\ client'.pending \in {"initialize", None}
    <3>1. client.pending = "spawn"  BY <2>1 DEF Constructed, NoClient
    <3>2. client'.pending \in {"initialize", None}  BY <2>2, SpawnedEffect
    <3> QED BY <3>1, <3>2
  <2> QED BY <2>3 DEF RequestDue
<1>2. CASE ProcessesLeave \/ Killed \/ NumberReused \/ SeesProcessGone
  BY <1>2, QuietlyDue DEF ProcessesLeave, Killed, NumberReused, SeesProcessGone
<1>3. CASE Crash
  BY <1>3, QuietlyDue DEF Crash, NoClient
<1>4. CASE Reconcile \/ ReconcileTimeout
  <2>1. client' \in {client, Signalled(client, "TERM"), Signalled(client, "KILL")}
    BY <1>4 DEF Reconcile, ReconcileTimeout
  <2>2. client'.pending = client.pending
    BY <2>1, InvFacts, SignalledEffect
  <2> QED BY <2>2, QuietlyDue
<1>5. CASE UNCHANGED vars
  BY <1>5
<1> QED BY <1>1, <1>2, <1>3, <1>4, <1>5, HostDue, EventDue DEF Next

(* The host never has two requests in flight, and asks for the Turn of a     *)
(* manual compaction only when the server accepted the compaction and saw it *)
(* through.                                                                  *)
THEOREM OneRequestAtATime == Spec => RequestsAwaited
<1>1. Inv /\ [Next]_vars => [RequestDue]_vars  BY StepDue
<1> QED BY <1>1, Invariant, PTL DEF Spec, RequestsAwaited

-----------------------------------------------------------------------------
(* The stream of boundaries: every step is a step of the abstract worker, or *)
(* none                                                                      *)

Moving == Worker!Next \/ UNCHANGED Worker!vars

LEMMA StillStream ==
  ASSUME server'.state = server.state, report' = report, host'.aborted = host.aborted
  PROVE  Moving
BY DEF Moving, Worker!vars, WorkerProcess, WorkerStage

LEMMA ExitStream ==
  ASSUME report' = report, host'.aborted = host.aborted,
         \/ server.state = "EXITED" /\ server'.state = "EXITED"
         \/ server.state \in {"STARTING", "RUNNING"} /\ server'.state \in {"RUNNING", "EXITED"}
  PROVE  Moving
<1>1. WorkerStage' = WorkerStage /\ report'.result = report.result  BY DEF WorkerStage
<1>2. CASE server.state = "EXITED" /\ server'.state = "EXITED"
  BY <1>1, <1>2, StillStream
<1>3. CASE server.state \in {"STARTING", "RUNNING"} /\ server'.state = "RUNNING"
  <2>1. WorkerProcess' = WorkerProcess  BY <1>3 DEF WorkerProcess
  <2> QED BY <1>1, <2>1 DEF Moving, Worker!vars
<1>4. CASE server.state \in {"STARTING", "RUNNING"} /\ server'.state = "EXITED"
  <2>1. WorkerProcess = "ALIVE" /\ WorkerProcess' = "GONE"  BY <1>4 DEF WorkerProcess
  <2>2. Worker!Exit  BY <1>1, <2>1 DEF Worker!Exit
  <2> QED BY <2>2 DEF Moving, Worker!Next
<1> QED BY <1>2, <1>3, <1>4

(* A boundary that the driver accepted or refused. *)
LEMMA BoundaryStream ==
  ASSUME report \in Report, report.stage \in OpenStages,
         NEW bound, NEW stored, NEW accepted \in Report, NEW from, NEW to,
         report' = Reported(report, bound, stored, accepted),
         accepted.refused = report.refused, accepted.result = report.result,
         accepted.stage = to, bound => report.stage = from,
         \/ from = "AUTHORIZED" /\ to = "PROCESS_OBSERVED"
         \/ from = "PROCESS_OBSERVED" /\ to = "SESSION_OBSERVED"
         \/ from = "SESSION_OBSERVED" /\ to = "OPERATION_RUNNING",
         WorkerProcess' = WorkerProcess, WorkerProcess # "NONE", host'.aborted = host.aborted
  PROVE  Moving
<1>1. /\ report' \in Report
      /\ report'.refused = "NO" => report' = accepted /\ bound
      /\ report'.refused # "NO" => /\ report'.stage = report.stage
                                   /\ report'.result = report.result
  BY ReportedType
<1>2. report'.result = report.result  BY <1>1
<1>3. CASE report.refused # "NO"
  <2>1. report' = report  BY <1>3 DEF Reported
  <2> QED BY <2>1 DEF Moving, Worker!vars, WorkerStage
<1>4. CASE report.refused = "NO" /\ report'.refused # "NO"
  <2>1. /\ WorkerStage = report.stage /\ WorkerStage' = "REFUSED"  BY <1>4 DEF WorkerStage
  <2>2. Worker!Refuse  BY <1>2, <2>1 DEF Worker!Refuse, Worker!Open, OpenStages
  <2> QED BY <2>2 DEF Moving, Worker!Next
<1>5. CASE report.refused = "NO" /\ report'.refused = "NO"
  <2>1. WorkerStage = from /\ WorkerStage' = to  BY <1>1, <1>5 DEF WorkerStage
  <2>2. Worker!Boundary(from, to)  BY <1>2, <2>1 DEF Worker!Boundary
  <2> QED BY <2>2 DEF Moving, Worker!Next
<1> QED BY <1>3, <1>4, <1>5

LEMMA ProcessFacts ==
  ASSUME Inv, host.pc \in Awaits
  PROVE  server.state \in {"STARTING", "RUNNING", "EXITED"} /\ WorkerProcess # "NONE"
<1>1. server.state # "NONE"  BY DEF Inv, Processes, Awaits, Reads
<1>2. server.state \in {"STARTING", "RUNNING", "EXITED"}  BY <1>1, InvFacts DEF Server
<1> QED BY <1>2 DEF WorkerProcess

LEMMA DeclineStream == ASSUME Inv, Decline PROVE Moving
<1>1. /\ host.pc = "IDLE" /\ report.stage = "AUTHORIZED" /\ report.refused = "NO"
      /\ server' = server
  BY DEF Decline, Inv, Placed
<1>2. /\ report'.refused = "DRIVER" /\ report'.result = report.result
      /\ host'.aborted = host.aborted
  BY InvFacts DEF Decline, Report, Host
<1>3. WorkerStage = "AUTHORIZED" /\ WorkerStage' = "REFUSED" /\ WorkerProcess' = WorkerProcess
  BY <1>1, <1>2 DEF WorkerStage, WorkerProcess
<1>4. Worker!Refuse  BY <1>2, <1>3 DEF Worker!Refuse, Worker!Open
<1> QED BY <1>4 DEF Moving, Worker!Next

LEMMA StartStream == ASSUME Inv, Start PROVE Moving
<1>1. /\ server = NoServer /\ report.stage = "AUTHORIZED" /\ report.refused = "NO"
      /\ report' = report
  BY DEF Start, Inv, Placed
<1>2. server.state = "NONE" /\ server'.state = "STARTING" /\ host'.aborted = host.aborted
  BY <1>1, InvFacts DEF Start, Server, Host, NoServer
<1>3. /\ WorkerProcess = "NONE" /\ WorkerProcess' = "ALIVE"
      /\ WorkerStage = "AUTHORIZED" /\ WorkerStage' = WorkerStage
  BY <1>1, <1>2 DEF WorkerProcess, WorkerStage
<1>4. Worker!Launch  BY <1>1, <1>2, <1>3 DEF Worker!Launch
<1> QED BY <1>4 DEF Moving, Worker!Next

LEMMA SpawnStream == ASSUME Inv, SpawnOutcome PROVE Moving
<1>1. /\ server.state = "STARTING" /\ host.pc = "INIT" /\ report.stage = "AUTHORIZED"
      /\ host' = host
  BY StartingFacts DEF SpawnOutcome, Spawning
<1>2. CASE server' = [server EXCEPT !.state = "EXITED", !.failed = TRUE] /\ report' = report
  <2>1. server'.state = "EXITED"  BY <1>2, InvFacts DEF Server
  <2> QED BY <1>1, <1>2, <2>1, ExitStream
<1>3. CASE server' = [server EXCEPT !.state = "RUNNING"] /\ report' = report
  <2>1. server'.state = "RUNNING"  BY <1>3, InvFacts DEF Server
  <2> QED BY <1>1, <1>3, <2>1, ExitStream
<1>4. ASSUME NEW stored \in BOOLEAN, report' = ProcessStarted(report, stored),
             server' = [server EXCEPT !.state = "RUNNING"]
      PROVE  Moving
  <2> DEFINE accepted == [report EXCEPT !.stage = "PROCESS_OBSERVED"]
             fits == report.stage = "AUTHORIZED"
  <2>1. /\ accepted \in Report /\ accepted.stage = "PROCESS_OBSERVED"
        /\ accepted.refused = report.refused /\ accepted.result = report.result
    BY InvFacts DEF Report
  <2>2. report' = Reported(report, fits, stored, accepted)
    BY <1>4 DEF ProcessStarted
  <2>3. server'.state = "RUNNING"  BY <1>4, InvFacts DEF Server
  <2>4. WorkerProcess = "ALIVE" /\ WorkerProcess' = "ALIVE"
    BY <1>1, <2>3 DEF WorkerProcess
  <2>5. report.stage \in OpenStages /\ host'.aborted = host.aborted
    BY <1>1 DEF OpenStages
  <2>6. fits => report.stage = "AUTHORIZED"  OBVIOUS
  <2> HIDE DEF accepted, fits
  <2> QED BY <2>1, <2>2, <2>4, <2>5, <2>6, InvFacts, BoundaryStream
<1> QED BY <1>2, <1>3, <1>4 DEF SpawnOutcome

(* A step of the run changes neither the process nor the request to stop. *)
LEMMA HostKeeps ==
  ASSUME Inv, HostStep, host.pc # "IDLE"
  PROVE  /\ server' = server /\ host'.aborted = host.aborted /\ host.pc \in Awaits
         /\ WorkerProcess' = WorkerProcess
<1>1. host.pc \in Awaits
  BY DEF HostStep, Decline, Start, ContinueInit, ContinueRead, ContinueThread, ContinueSession,
         ContinueCompaction, ContinueTurn, ContinueWait, ContinueInterrupt, Conclude,
         Continues, Awaits, Reads, AfterRead
<1>2. server' = server
  BY DEF HostStep, Decline, Start, ContinueInit, ContinueRead, ContinueThread, ContinueSession,
         ContinueCompaction, ContinueTurn, ContinueWait, ContinueInterrupt, Conclude
<1>3. host'.aborted = host.aborted
  <2>1. host \in Host  BY InvFacts
  <2>2. ASSUME NEW o, NEW code, Throw(o, code) PROVE host'.aborted = host.aborted
    BY <2>1, <2>2 DEF Throw, Host
  <2>3. ASSUME NEW o, StartTurn(o) PROVE host'.aborted = host.aborted
    <3>1. PICK fits \in BOOLEAN :
            IF ~fits THEN Throw(o, "EFFECTIVE_INPUT_MISMATCH")
            ELSE Ask([o EXCEPT !.policy = TRUE], client, "turn/start", [host EXCEPT !.pc = "TURN"])
      BY <2>3 DEF StartTurn
    <3>2. fits => host' = [host EXCEPT !.pc = "TURN"]  BY <3>1 DEF Ask
    <3>3. ~fits => Throw(o, "EFFECTIVE_INPUT_MISMATCH")  BY <3>1
    <3> QED BY <2>1, <2>2, <3>2, <3>3 DEF Host
  <2>4. ASSUME NEW o, StartCompaction(o) PROVE host'.aborted = host.aborted
    BY <2>1, <2>2, <2>4 DEF StartCompaction, Host
  <2>5. CASE Decline \/ Start \/ Conclude
    BY <2>1, <2>5 DEF Decline, Start, Conclude, Host
  <2>6. CASE ContinueInit \/ ContinueRead \/ ContinueThread
    BY <2>1, <2>2, <2>6 DEF ContinueInit, ContinueRead, ContinueThread, Ask, Host
  <2>7. CASE ContinueSession
    BY <2>2, <2>3, <2>4, <2>7 DEF ContinueSession
  <2>8. CASE ContinueCompaction
    BY <2>1, <2>2, <2>3, <2>8 DEF ContinueCompaction, Host
  <2>9. CASE ContinueTurn \/ ContinueInterrupt
    BY <2>1, <2>2, <2>9 DEF ContinueTurn, ContinueInterrupt, Host
  <2>10. CASE ContinueWait
    <3>1. ASSUME NEW payload, Ended(payload) PROVE host'.aborted = host.aborted
      BY <2>1, <2>2, <3>1 DEF Ended, UseTerminal, Host
    <3>2. \/ host' = [host EXCEPT !.pc = "INTERRUPT"]
          \/ \E code : Throw(observer, code)
          \/ \E payload : Ended(payload)
      <4>1. WaitResult \in {"ABORT", "TIMEOUT", "POLICY_FAILURE", "CLOSED", "TERMINAL"}
        BY <2>10, WaitResultKinds DEF ContinueWait
      <4> QED BY <2>10, <4>1 DEF ContinueWait
    <3> QED BY <2>1, <2>2, <3>1, <3>2 DEF Host
  <2> QED BY <2>5, <2>6, <2>7, <2>8, <2>9, <2>10 DEF HostStep
<1>4. WorkerProcess' = WorkerProcess  BY <1>2 DEF WorkerProcess
<1> QED BY <1>1, <1>2, <1>3, <1>4

LEMMA SessionStream == ASSUME Inv, ContinueSession PROVE Moving
<1>1. Continues("POST_CONFIG") /\ host.pc = "POST_CONFIG"
  BY DEF ContinueSession, Continues
<1>2. "POST_CONFIG" \in Awaits  BY DEF Awaits, Reads
<1>3. /\ host'.aborted = host.aborted /\ WorkerProcess' = WorkerProcess /\ server' = server
      /\ WorkerProcess # "NONE"
  BY <1>1, <1>2, HostKeeps, ProcessFacts DEF HostStep
<1>4. Running(observer, host, report)  BY <1>1, <1>2, ContinuesFacts
<1>5. CASE report' = report
  BY <1>3, <1>5, StillStream
<1>6. ASSUME NEW stored \in BOOLEAN, report' = SessionStarted(report, host.thread, stored)
      PROVE  Moving
  <2> DEFINE accepted == [report EXCEPT !.stage = "SESSION_OBSERVED", !.session = host.thread]
             fits == report.stage = "PROCESS_OBSERVED"
  <2>1. host.thread \in Threads \union {None}  BY InvFacts DEF Host
  <2>2. /\ accepted \in Report /\ accepted.stage = "SESSION_OBSERVED"
        /\ accepted.refused = report.refused /\ accepted.result = report.result
    BY <2>1, InvFacts DEF Report
  <2>3. report' = Reported(report, fits, stored, accepted)
    BY <1>6 DEF SessionStarted
  <2>4. report.stage \in OpenStages  BY <1>4 DEF Running
  <2>5. fits => report.stage = "PROCESS_OBSERVED"  OBVIOUS
  <2> HIDE DEF accepted, fits
  <2> QED BY <1>3, <2>2, <2>3, <2>4, <2>5, InvFacts, BoundaryStream
<1> QED BY <1>5, <1>6 DEF ContinueSession

LEMMA TurnStream == ASSUME Inv, ContinueTurn PROVE Moving
<1>1. Continues("TURN") /\ host.pc = "TURN"
  BY DEF ContinueTurn, Continues
<1>2. "TURN" \in Awaits \ {"SHUTDOWN"}  BY DEF Awaits
<1>3. /\ host'.aborted = host.aborted /\ WorkerProcess' = WorkerProcess /\ server' = server
      /\ WorkerProcess # "NONE"
  BY <1>1, <1>2, HostKeeps, ProcessFacts DEF HostStep
<1>4. Running(observer, host, report) /\ client.outcome # None
  BY <1>1, <1>2, ContinuesFacts
<1>5. CASE report' = report
  BY <1>3, <1>5, StillStream
<1>6. CASE report' # report
  <2> DEFINE turn == client.outcome.value
             bound == BindTurn(observer, turn)
             accepted == [report EXCEPT !.stage = "OPERATION_RUNNING",
                                        !.operation = bound.operation]
             fits == /\ report.stage = "SESSION_OBSERVED" /\ report.session = bound.session
                     /\ host.directive.manual => bound.compactions = 1
  <2>1. client.outcome.ok  BY <1>6 DEF ContinueTurn
  <2>2. turn \in Turns
    BY <1>1, <1>4, <2>1 DEF Inv, Talk, Asking
  <2>3. PICK stored \in BOOLEAN :
          report' = OperationStarted(report, bound, host.directive, stored)
    BY <1>6, <2>1 DEF ContinueTurn
  <2>4. Settled(bound, host)  BY <2>2, InvFacts, BindTurnEffect
  <2> HIDE DEF bound
  <2>5. bound.operation \in Turns \union {None}
    BY <2>4 DEF Settled, Formed, Observer
  <2>6. /\ accepted \in Report /\ accepted.stage = "OPERATION_RUNNING"
        /\ accepted.refused = report.refused /\ accepted.result = report.result
    BY <2>5, InvFacts DEF Report
  <2>7. report' = Reported(report, fits, stored, accepted)
    BY <2>3 DEF OperationStarted
  <2>8. report.stage \in OpenStages  BY <1>4 DEF Running
  <2>9. fits => report.stage = "SESSION_OBSERVED"  OBVIOUS
  <2> HIDE DEF accepted, fits
  <2> QED BY <1>3, <2>6, <2>7, <2>8, <2>9, InvFacts, BoundaryStream
<1> QED BY <1>5, <1>6

LEMMA ConcludeStream == ASSUME Inv, Conclude PROVE Moving
<1> DEFINE end == Finished(Swept(observer))
           yielded == end.event # "NONE"
<1>1. /\ Continues("SHUTDOWN") /\ host.pc = "SHUTDOWN" /\ observer' = end.o
      /\ \E stored \in BOOLEAN :
           report' = TerminalReported(report, end.o, host.directive, yielded, stored)
  BY DEF Conclude, Continues
<1>2. "SHUTDOWN" \in Awaits  BY DEF Awaits
<1>3. /\ host'.aborted = host.aborted /\ WorkerProcess' = WorkerProcess /\ server' = server
  BY <1>1, <1>2, HostKeeps DEF HostStep
<1>4. Running(observer, host, report) /\ report.stage \in OpenStages /\ ~report.result
  BY <1>1, <1>2, ContinuesFacts DEF Running, Inv, Placed
<1>5. /\ \/ end.event # "NONE" /\ Yielding(end.o)
         \/ /\ end.event = "NONE" /\ Settled(end.o, host)
            /\ end.o.state \in {"FAILED", "INTERRUPTED"}
  BY <1>1, FinishedEffect
<1>6. yielded \in BOOLEAN /\ (yielded => Yielding(observer'))
      /\ (~yielded => Settled(observer', host) /\ observer'.state \in {"FAILED", "INTERRUPTED"})
  BY <1>1, <1>5
<1>7. PICK stored \in BOOLEAN :
        report' = TerminalReported(report, observer', host.directive, yielded, stored)
  BY <1>1
<1> HIDE DEF end, yielded
<1>8. /\ observer'.state \in {"COMPLETED", "FAILED", "INTERRUPTED"}
      /\ observer'.state = "COMPLETED" => yielded
      /\ observer'.state = "INTERRUPTED" => host.aborted /\ ~yielded
      /\ yielded => ~host.aborted /\ client.closed
  <2>1. CASE yielded
    BY <1>1, <1>6, <2>1, YieldingEffect DEF Yielding
  <2>2. CASE ~yielded
    BY <1>6, <2>2 DEF Settled, Observed, Flagged
  <2> QED BY <2>1, <2>2
<1>9. yielded => WorkerProcess = "GONE" /\ report.stage = "OPERATION_RUNNING"
  <2> SUFFICES ASSUME yielded
               PROVE  WorkerProcess = "GONE" /\ report.stage = "OPERATION_RUNNING"
    OBVIOUS
  <2>1. server.state = "EXITED"  BY <1>8 DEF Inv, Processes
  <2>2. host.event # "NONE"  BY <1>6 DEF Yielding
  <2>3. Attached(observer, report)  BY <1>4, <2>2 DEF Running
  <2> QED BY <2>1, <2>3 DEF WorkerProcess, Attached
<1> DEFINE accepted == [report EXCEPT !.stage = observer'.state, !.result = yielded]
           allowed == /\ TerminalBound(report, observer', yielded)
                      /\ ObservationAllowed(observer', host.directive)
<1>10. /\ accepted \in Report /\ accepted.stage = observer'.state /\ accepted.result = yielded
       /\ accepted.refused = report.refused
  BY <1>6, <1>8, InvFacts DEF Report
<1>11. report' = Reported(report, allowed, stored, accepted)
  BY <1>7 DEF TerminalReported
<1> HIDE DEF accepted, allowed
<1>12. /\ report'.refused = "NO" => report' = accepted /\ allowed
       /\ report'.refused # "NO" => report'.stage = report.stage /\ report'.result = report.result
  BY <1>10, <1>11, InvFacts, ReportedType
<1>13. CASE report.refused # "NO"
  <2>1. report' = report  BY <1>11, <1>13 DEF Reported
  <2> QED BY <1>3, <2>1, StillStream
<1>14. CASE report.refused = "NO" /\ report'.refused # "NO"
  <2>1. /\ WorkerStage = report.stage /\ WorkerStage' = "REFUSED"  BY <1>14 DEF WorkerStage
  <2>2. Worker!Refuse
    BY <1>3, <1>4, <1>12, <1>14, <2>1 DEF Worker!Refuse, Worker!Open, OpenStages
  <2> QED BY <2>2 DEF Moving, Worker!Next
<1>15. CASE report.refused = "NO" /\ report'.refused = "NO"
  <2>1. /\ WorkerStage = report.stage /\ WorkerStage' = observer'.state
        /\ report'.result = yielded
    BY <1>10, <1>12, <1>15 DEF WorkerStage
  <2>2. Worker!Terminal(observer'.state, yielded)
    BY <1>3, <1>4, <1>8, <1>9, <2>1 DEF Worker!Terminal, Worker!Open, OpenStages
  <2>3. observer'.state \in Worker!Closed  BY <1>8 DEF Worker!Closed
  <2> QED BY <1>6, <2>2, <2>3 DEF Moving, Worker!Next
<1> QED BY <1>13, <1>14, <1>15

LEMMA HostStream == ASSUME Inv, HostStep PROVE Moving
<1>1. CASE Decline
  BY <1>1, DeclineStream
<1>2. CASE Start
  BY <1>2, StartStream
<1>3. CASE ContinueSession \/ ContinueTurn \/ Conclude
  BY <1>3, SessionStream, TurnStream, ConcludeStream
<1>4. CASE \/ ContinueInit \/ ContinueRead \/ ContinueThread \/ ContinueCompaction
           \/ ContinueWait \/ ContinueInterrupt
  <2>1. report' = report
    BY <1>4 DEF ContinueInit, ContinueRead, ContinueThread, ContinueCompaction, ContinueWait,
                ContinueInterrupt
  <2>2. host.pc # "IDLE"
    BY <1>4 DEF ContinueInit, ContinueRead, ContinueThread, ContinueCompaction, ContinueWait,
                ContinueInterrupt, Continues, AfterRead
  <2> QED BY <2>1, <2>2, HostKeeps, StillStream
<1> QED BY <1>1, <1>2, <1>3, <1>4 DEF HostStep

LEMMA EventStream ==
  ASSUME Inv, \/ Abort \/ RequestTimeout \/ TurnTimeout \/ ShutdownTimeout \/ RefusalSent
              \/ OutputEnds \/ Close \/ Reply \/ Garbage \/ ServerNotifies \/ ServerRequests
  PROVE  Moving
<1>1. CASE Abort
  <2>1. server' = server /\ report' = report /\ host'.aborted = TRUE
    BY <1>1, InvFacts DEF Abort, Host
  <2>2. Worker!Abort
    BY <2>1 DEF Worker!Abort, WorkerProcess, WorkerStage
  <2> QED BY <2>2 DEF Moving, Worker!Next
<1>2. CASE \/ RequestTimeout \/ ShutdownTimeout \/ RefusalSent \/ OutputEnds \/ Reply \/ Garbage
  BY <1>2, StillStream
    DEF RequestTimeout, ShutdownTimeout, RefusalSent, OutputEnds, Reply, Garbage
<1>3. CASE TurnTimeout
  <2>1. server' = server /\ report' = report /\ host'.aborted = host.aborted
    BY <1>3, InvFacts DEF TurnTimeout, Host
  <2> QED BY <2>1, StillStream
<1>4. CASE Close
  <2>1. /\ server.state \in {"RUNNING", "EXITED"} /\ host' = host /\ report' = report
        /\ \E failed \in BOOLEAN :
             server' = [server EXCEPT !.state = "EXITED", !.failed = @ \/ failed]
    BY <1>4 DEF Close
  <2>2. server'.state = "EXITED"  BY <2>1, InvFacts DEF Server
  <2> QED BY <2>1, <2>2, ExitStream
<1>5. CASE ServerNotifies \/ ServerRequests
  <2>1. host' = host /\ report' = report
    BY <1>5 DEF ServerNotifies, ServerRequests
  <2>2. \E stray : Sends(stray)
    BY <1>5 DEF ServerNotifies, ServerRequests
  <2>3. server'.state = server.state
    BY <2>2, SendsServer DEF SameServer
  <2> QED BY <2>1, <2>3, StillStream
<1> QED BY <1>1, <1>2, <1>3, <1>4, <1>5

LEMMA AfterwardsStream ==
  ASSUME Inv, \/ ProcessesLeave \/ Killed \/ Crash \/ NumberReused
              \/ Reconcile \/ SeesProcessGone \/ ReconcileTimeout
  PROVE  Moving
<1>1. CASE ProcessesLeave
  <2>1. /\ report' = report /\ host' = host /\ host.pc \in Searching
        /\ \/ server.state = "RUNNING" /\ server' = [server EXCEPT !.state = "EXITED"]
           \/ server.helper /\ server' = [server EXCEPT !.helper = FALSE]
    BY <1>1 DEF ProcessesLeave, Searching
  <2>2. \/ server.state = "RUNNING" /\ server'.state = "EXITED"
        \/ server'.state = server.state
    BY <2>1, InvFacts DEF Server
  <2> QED BY <2>1, <2>2, ExitStream, StillStream
<1>2. CASE Killed
  <2>1. /\ report' = report /\ host' = host
        /\ server.state = "RUNNING" \/ server.helper
        /\ server' = [server EXCEPT !.state = "EXITED", !.failed = TRUE, !.helper = FALSE]
    BY <1>2 DEF Killed
  <2>2. server'.state = "EXITED" /\ server.state \in {"NONE", "STARTING", "RUNNING", "EXITED"}
    BY <2>1, InvFacts DEF Server
  <2>3. server.state # "NONE"
    BY <2>1 DEF Inv, Processes, Searching
  <2> QED BY <2>1, <2>2, <2>3, ExitStream
<1>3. CASE Crash
  <2>1. /\ report' = report /\ host.pc \in Awaits
        /\ host' = [host EXCEPT !.pc = "CRASHED", !.connected = FALSE, !.thread = None,
                                !.wake = None, !.event = "NONE"]
        /\ \E survives \in (IF server.state = "EXITED" THEN {FALSE} ELSE BOOLEAN),
              helper \in BOOLEAN :
             server' = [server EXCEPT !.state = IF survives THEN "RUNNING" ELSE "EXITED",
                                      !.helper = helper, !.stray = 0]
    BY <1>3 DEF Crash
  <2>2. host'.aborted = host.aborted  BY <2>1, InvFacts DEF Host
  <2>3. server.state \in {"STARTING", "RUNNING", "EXITED"}  BY <2>1, ProcessFacts
  <2>4. /\ server'.state \in {"RUNNING", "EXITED"}
        /\ server.state = "EXITED" => server'.state = "EXITED"
    BY <2>1, InvFacts DEF Server
  <2> QED BY <2>1, <2>2, <2>3, <2>4, ExitStream
<1>4. CASE NumberReused
  <2>1. /\ report' = report /\ host' = host /\ server' = [server EXCEPT !.reused = TRUE]
    BY <1>4 DEF NumberReused
  <2>2. server'.state = server.state  BY <2>1, InvFacts DEF Server
  <2> QED BY <2>1, <2>2, StillStream
<1>5. CASE Reconcile \/ SeesProcessGone \/ ReconcileTimeout
  <2>1. server' = server /\ report' = report
    BY <1>5 DEF Reconcile, SeesProcessGone, ReconcileTimeout
  <2>2. host'.aborted = host.aborted
    BY <1>5, InvFacts DEF Reconcile, SeesProcessGone, ReconcileTimeout, Concluded, Host
  <2> QED BY <2>1, <2>2, StillStream
<1> QED BY <1>1, <1>2, <1>3, <1>4, <1>5

LEMMA StepStreams == ASSUME Inv, [Next]_vars PROVE [Worker!Next]_Worker!vars
<1>1. CASE UNCHANGED vars
  BY <1>1, StillStream DEF vars, Moving
<1>2. CASE Next
  BY <1>2, HostStream, SpawnStream, EventStream, AfterwardsStream DEF Next, Moving
<1> QED BY <1>1, <1>2

LEMMA InitStreams == ASSUME Init PROVE Worker!Init
BY DEF Init, NoServer, Worker!Init, WorkerProcess, WorkerStage

(* The adapter, its client and the driver's checks implement the stream of   *)
(* boundaries: each once and in order, and a result only of an operation that *)
(* was reported running, whose process is gone and which nobody cancelled.   *)
THEOREM StreamImplemented == Spec => ImplementsWorker
<1>1. Init => Worker!Init  BY InitStreams
<1>2. Inv /\ [Next]_vars => [Worker!Next]_Worker!vars  BY StepStreams
<1> QED BY <1>1, <1>2, Invariant, PTL DEF Spec, ImplementsWorker, Worker!Spec
=============================================================================
