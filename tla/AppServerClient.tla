---------------------------- MODULE AppServerClient ----------------------------
(***************************************************************************)
(* The client of a Codex App Server: one child process that speaks a line  *)
(* protocol on its standard streams.  The client answers every request of  *)
(* its host exactly once, with the server's reply or with the one failure  *)
(* that stopped it; it follows the lifecycle of a manual compaction through*)
(* the notifications; and it ends the process it owns.                     *)
(*                                                                         *)
(* The handlers of the client run to completion, so each is a function from*)
(* the client's state to its next state here; CodexTurn makes them actions,*)
(* together with what the host does in their callbacks.  Requests are not  *)
(* numbered, because the host awaits each one before it sends another:     *)
(* `outcome' is how the latest one was settled.  Every message the client  *)
(* refuses (malformed, over a limit, of an unknown or repeated identifier) *)
(* stands for all of them.                                                 *)
(***************************************************************************)
EXTENDS Naturals, FiniteSets

CONSTANTS
  Threads, Turns,  \* identities the server gives out
  Items,           \* identities of compaction items
  None,            \* an absent optional field
  MaxStray         \* bounds the messages of the server that are not the expected ones

VARIABLES
  client,  \* the client object
  server   \* the App Server's process

Methods == {"spawn", "initialize", "configRequirements/read", "config/read",
            "permissionProfile/list", "thread/start", "thread/resume",
            "thread/compact/start", "turn/start", "turn/interrupt"}

\* The codes of an error that a host of the client tells apart.  FAILED stands
\* for every failure that stops the client other than a cancellation.
Codes == {"HOST_CANCELLED", "REQUEST_REJECTED", "SHUTDOWN", "FAILED"}

\* What a reply says: it fits what the host expects, it does not, or it
\* names the Thread or Turn that was started.
Values == {"FITS", "DIFFERS"} \union Threads \union Turns
Outcome == [ok : {TRUE}, value : Values] \union [ok : {FALSE}, code : Codes]
Answered(value) == [ok |-> TRUE, value |-> value]
Rejected(code) == [ok |-> FALSE, code |-> code]

\* The lifecycle of a manual compaction the host awaits, and the compactions
\* that began and did not complete.
Tracker == [thread : Threads, item : Items \union {None}, turn : Turns \union {None},
            itemDone : BOOLEAN, turnDone : BOOLEAN]
Compaction == [item : Items, thread : Threads, turn : Turns, manual : BOOLEAN]

Client ==
  [ready : BOOLEAN, handshake : BOOLEAN, stopping : BOOLEAN, closed : BOOLEAN,
   failure : Codes \union {None}, signal : {"NONE", "TERM", "KILL"},
   pending : Methods \union {None}, outcome : Outcome \union {None},
   tracker : Tracker \union {None}, compacted : Outcome \union {None},
   observed : SUBSET Compaction, refusing : BOOLEAN,
   stage : {"NONE", "GRACE", "TERM", "KILL", "EXPIRED"}]

\* helper: another process of the group the server leads.
\* reused: the process number was given to a stranger after the server left.
Server ==
  [state : {"NONE", "STARTING", "RUNNING", "EXITED"}, failed : BOOLEAN,
   helper : BOOLEAN, reused : BOOLEAN, stray : 0..MaxStray]

ASSUME ClientAssumption ==
  /\ MaxStray \in Nat
  /\ None \notin Threads \union Turns \union Items \union Methods \union Codes \union Outcome \union Tracker
  /\ {"ERROR", "MALFORMED"} \intersect Values = {}

NoClient ==
  [ready |-> FALSE, handshake |-> FALSE, stopping |-> FALSE, closed |-> FALSE,
   failure |-> None, signal |-> "NONE", pending |-> None, outcome |-> None,
   tracker |-> None, compacted |-> None, observed |-> {}, refusing |-> FALSE,
   stage |-> "NONE"]
NoServer == [state |-> "NONE", failed |-> FALSE, helper |-> FALSE, reused |-> FALSE, stray |-> 0]

ClientTypeOK == client \in Client /\ server \in Server

-----------------------------------------------------------------------------
(* Settling and failing *)

\* The host's promise of the request in flight, and no other, is settled.
Settle(c, outcome) == [c EXCEPT !.pending = None, !.outcome = outcome]

Signalled(c, signal) == [c EXCEPT !.signal = IF @ = "KILL" THEN @ ELSE signal]

RejectPending(c, code) == IF c.pending = None THEN c ELSE Settle(c, Rejected(code))

RejectCompactions(c, code) ==
  [c EXCEPT !.compacted = IF c.tracker = None THEN @ ELSE Rejected(code),
            !.tracker = None, !.observed = {}]

\* Mutant: what was in flight is left to its timers.
FailKeepingRequests(c, code) ==
  IF c.failure # None \/ c.closed THEN c
  ELSE Signalled([c EXCEPT !.failure = code, !.ready = FALSE], "TERM")

\* The first failure decides: nothing stays in flight and the process is told
\* to terminate.
Fail(c, code) ==
  IF c.failure # None \/ c.closed THEN c
  ELSE Signalled(RejectCompactions(RejectPending([c EXCEPT !.failure = code, !.ready = FALSE],
                                                 code), code), "TERM")

-----------------------------------------------------------------------------
(* What the host asks for *)

\* The constructor: the process is being spawned.
Constructed == [NoClient EXCEPT !.pending = "spawn"]

\* The spawn event: the process identity was captured and its report accepted,
\* or the client fails.  initialize is the first request.
Spawned(c, admitted) ==
  IF ~admitted THEN Fail(c, "FAILED")
  ELSE IF c.failure # None \/ c.closed THEN RejectPending(c, "FAILED")
  ELSE [c EXCEPT !.pending = "initialize"]

\* The rest of initialize, after its reply was awaited.
Initialized(c) ==
  IF c.outcome.ok /\ c.failure = None /\ ~c.closed THEN [c EXCEPT !.ready = TRUE]
  ELSE Fail(c, "FAILED")

Request(c, method) ==
  IF ~c.ready \/ c.stopping \/ c.closed \/ c.failure # None
  THEN [c EXCEPT !.outcome = Rejected("SHUTDOWN")]
  ELSE [c EXCEPT !.pending = method, !.outcome = None]

\* A request that the host may cancel.
CancellableRequest(c, method, aborted) ==
  IF c.ready /\ ~c.stopping /\ ~c.closed /\ aborted
  THEN [c EXCEPT !.outcome = Rejected("HOST_CANCELLED")]
  ELSE Request(c, method)

\* Only one compaction of a Thread is awaited; its timer covers the lifecycle.
CompactThread(c, thread) ==
  LET tracked == [c EXCEPT !.compacted = None,
                    !.tracker = [thread |-> thread, item |-> None, turn |-> None,
                                 itemDone |-> FALSE, turnDone |-> FALSE]]
      asked == Request(tracked, "thread/compact/start") IN
  IF asked.pending = None THEN [asked EXCEPT !.tracker = None] ELSE asked

\* The request was rejected: its lifecycle is awaited no more.
CompactionRefused(c) == [c EXCEPT !.tracker = None]

Shutdown(c) ==
  IF c.closed THEN c
  ELSE RejectCompactions(RejectPending([c EXCEPT !.stopping = TRUE, !.ready = FALSE,
                                                 !.stage = "GRACE"], "SHUTDOWN"), "SHUTDOWN")

\* The host took the outcome it waited for.
Taken(c) == [c EXCEPT !.outcome = None, !.compacted = None]

\* Mutant: the last wait ends before the process is killed.
ShutdownTimerWithoutKill(c) ==
  CASE c.stage = "GRACE" -> Signalled([c EXCEPT !.stage = "TERM"], "TERM")
    [] c.stage \in {"TERM", "KILL"} ->
         [c EXCEPT !.stage = "EXPIRED",
                   !.failure = IF @ = None THEN "FAILED" ELSE @]

\* Each wait of a shutdown ends with a stronger signal, the last with an error.
ShutdownTimer(c) ==
  CASE c.stage = "GRACE" -> Signalled([c EXCEPT !.stage = "TERM"], "TERM")
    [] c.stage = "TERM" -> Signalled([c EXCEPT !.stage = "KILL"], "KILL")
    [] c.stage = "KILL" -> [c EXCEPT !.stage = "EXPIRED",
                                     !.failure = IF @ = None THEN "FAILED" ELSE @]

-----------------------------------------------------------------------------
(* What the server sends *)

\* A response to the request in flight.
ReceiveResponse(c, body) ==
  CASE body \in Values ->
         [Settle(c, Answered(body)) EXCEPT !.handshake = @ \/ c.pending = "initialize"]
    [] body = "ERROR" -> Settle(c, Rejected("REQUEST_REJECTED"))
    [] body = "MALFORMED" -> Fail(Settle(c, Rejected("FAILED")), "FAILED")

\* A message with a method must wait for the handshake.
BeforeHandshake(c) == Fail(c, "FAILED")

\* An unsupported request is answered with an error; the client fails once
\* that answer was written.
RefuseServerRequest(c) == [c EXCEPT !.refusing = TRUE]
RefusalWritten(c) == Fail([c EXCEPT !.refusing = FALSE], "FAILED")

\* Both ends of a lifecycle were seen, in either order: the host's promise is kept.
CompleteManualCompaction(c) ==
  IF c.tracker.itemDone /\ c.tracker.turnDone
  THEN [c EXCEPT !.tracker = None, !.compacted = Answered("FITS")]
  ELSE c

IsCompaction(n) == n.method \in {"item/started", "item/completed"} /\ n.item \in Items
Began(c, n) == \E x \in c.observed : x.item = n.item
Tracks(c, thread) == c.tracker # None /\ c.tracker.thread = thread
Matching(c, n) == {x \in c.observed : x.item = n.item /\ x.thread = n.thread /\ x.turn = n.turn}

\* The lifecycle event of an item, or None when it is out of order.
CompactionEvent(c, n) ==
  IF ~IsCompaction(n) THEN None
  ELSE IF n.method = "item/started"
  THEN IF Began(c, n) \/ (Tracks(c, n.thread) /\ c.tracker.item # None) THEN None
       ELSE [stage |-> "STARTED", item |-> n.item, thread |-> n.thread, turn |-> n.turn,
             manual |-> Tracks(c, n.thread)]
  ELSE IF Matching(c, n) = {} THEN None
  ELSE [stage |-> "COMPLETED", item |-> n.item, thread |-> n.thread, turn |-> n.turn,
        manual |-> \E x \in Matching(c, n) : x.manual]

\* What the client makes of a notification before the host sees it.
ObserveCompaction(c, n) ==
  LET e == CompactionEvent(c, n) IN
  CASE n.method = "turn/completed" /\ Tracks(c, n.thread) /\ c.tracker.turn = n.turn ->
         IF c.tracker.turnDone THEN Fail(c, "FAILED")
         ELSE CompleteManualCompaction([c EXCEPT !.tracker.turnDone = TRUE])
    [] IsCompaction(n) /\ e = None -> Fail(c, "FAILED")
    [] IsCompaction(n) /\ e # None /\ e.stage = "STARTED" ->
         LET begun == [c EXCEPT !.observed = @ \union {[item |-> e.item, thread |-> e.thread,
                                                        turn |-> e.turn, manual |-> e.manual]}] IN
         IF e.manual THEN [begun EXCEPT !.tracker.item = e.item, !.tracker.turn = e.turn] ELSE begun
    [] IsCompaction(n) /\ e # None /\ e.stage = "COMPLETED" ->
         LET ended == [c EXCEPT !.observed = @ \ Matching(c, n)] IN
         IF ~e.manual THEN ended
         ELSE IF Tracks(c, n.thread) /\ c.tracker.item = n.item /\ c.tracker.turn = n.turn
         THEN CompleteManualCompaction([ended EXCEPT !.tracker.itemDone = TRUE])
         ELSE Fail(ended, "FAILED")
    [] OTHER -> c

-----------------------------------------------------------------------------
(* The process ends *)

\* End of standard output, with a line left incomplete or not.
StdoutEnded(c, partial) ==
  IF c.closed \/ (c.stopping /\ ~partial) THEN c
  ELSE Fail(c, "FAILED")

ProcessExited(c) ==
  LET over == [c EXCEPT !.closed = TRUE, !.ready = FALSE] IN
  IF c.closed THEN c
  ELSE IF ~c.stopping /\ c.failure = None
  THEN RejectCompactions(RejectPending([over EXCEPT !.failure = "FAILED"],
                                       "FAILED"), "FAILED")
  ELSE over

\* The result of the close: the exit status is zero and nothing ever failed.
CleanClose(c, s) == c.closed /\ ~s.failed /\ c.failure = None

-----------------------------------------------------------------------------
(* The process of another, earlier host, by its recorded identity *)

LeaderExists(s) == s.state = "RUNNING" \/ s.reused
GroupExists(s) == LeaderExists(s) \/ s.helper

\* The look at the leader and at its start identity, before any signal.
Inspect(s) ==
  IF s.reused THEN "IDENTITY_MISMATCH"
  ELSE IF LeaderExists(s) THEN "SIGNAL"
  ELSE IF s.helper THEN "UNAVAILABLE"
  ELSE "ABSENT"

\* Neither the leader nor any other process of its group is left.
OwnedProcessGone(s) == ~LeaderExists(s) /\ ~GroupExists(s)
=============================================================================
