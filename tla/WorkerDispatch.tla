--------------------------- MODULE WorkerDispatch ---------------------------
(***************************************************************************)
(* How a worker is let loose on an Attempt and what is believed of what it *)
(* says.  The process that begins an Attempt holds the prepared request in *)
(* its memory, claims the dispatch in the store, runs the worker and       *)
(* submits every event of its stream.  A delivery has an identity of its   *)
(* own: the store keeps one receipt per event, ADMITTED together with the  *)
(* end of the Attempt, or IGNORED.  Meanwhile the Attempt may be ended by  *)
(* others: startup recovery of a second process, a cancellation.           *)
(*                                                                         *)
(* An undecodable delivery changes nothing and is left out.                *)
(***************************************************************************)
EXTENDS Naturals

CONSTANTS
  Procs,
  MaxAttempts,    \* bound: Attempts of the Workflow
  EventIds,
  Events,         \* what a worker may deliver
  MaxDeliveries,  \* bound: events of one stream
  None

Attempts == 1..MaxAttempts
Kinds == {"RESULT", "FAILURE"}

\* The Attempt and the Context Manifest an event names; exact: its session,
\* digests and result kind are those of that Attempt's request.
Event == [id : EventIds, attempt : Attempts, manifest : Attempts, exact : BOOLEAN, kind : Kinds]

ASSUME DispatchAssumption ==
  /\ MaxAttempts \in Nat \ {0} /\ MaxDeliveries \in Nat
  /\ Events \subseteq Event

VARIABLES
  wf,        \* the Workflow: version, run status, active Attempt
  attempts,  \* Attempt rows; context is the version its manifest binds
  claims,    \* dispatch claims: the Workflow version, or 0
  receipts,  \* per event identity a receipt or None
  session    \* per process, the dispatch in its hands

vars == <<wf, attempts, claims, receipts, session>>

\* The status an admitted event gives its Attempt.
Ended == [RESULT |-> "RESULT_RECORDED", FAILURE |-> "FAILED"]
Receipt == [event : Event, disposition : {"ADMITTED", "IGNORED"}, observed : Nat]
Steps == {"IDLE", "PREPARED", "CLAIMING", "STREAM", "READ", "IGNORE", "ADMIT",
          "PORT", "FAILING", "DONE"}
ASSUME NoneIsNoReceipt == None \notin Receipt
NoAttempt == [status |-> "NONE", context |-> 0]
Quiet == [step |-> "IDLE", attempt |-> 0, event |-> None, observed |-> 0, tries |-> 0,
          left |-> 0, admitted |-> FALSE, control |-> FALSE, aborted |-> FALSE]

Workflow == [version : Nat \ {0}, active : 0..MaxAttempts,
             run : {"READY", "RUNNING", "BLOCKED", "CANCELLED"}]
Attempt == [status : {"NONE", "RUNNING", "RESULT_RECORDED", "FAILED", "INTERRUPTED"},
            context : Nat]
Session == [step : Steps, attempt : 0..MaxAttempts, event : Events \union {None},
            observed : Nat, tries : 0..1, left : 0..MaxDeliveries,
            admitted : BOOLEAN, control : BOOLEAN, aborted : BOOLEAN]

TypeOK ==
  /\ wf \in Workflow
  /\ attempts \in [Attempts -> Attempt]
  /\ claims \in [Attempts -> Nat]
  /\ receipts \in [EventIds -> Receipt \union {None}]
  /\ session \in [Procs -> Session]
-----------------------------------------------------------------------------
Begun(a) == attempts[a].status # "NONE"

\* What assertWorkerEventBindsRequest demands.
Binds(e, a) == e.attempt = a /\ e.manifest = a /\ e.exact

Running(a) == wf.run = "RUNNING" /\ wf.active = a /\ attempts[a].status = "RUNNING"

\* The request, its manifest, the Workflow and the Attempt still agree.
Current(a) == Running(a) /\ wf.version = attempts[a].context


Become(p, s) == session' = [session EXCEPT ![p] = s]
Goto(p, step) == Become(p, [session[p] EXCEPT !.step = step])

\* Back to the stream: the event being admitted has its answer.
Answer(p, terminal, control) ==
  Become(p, [session[p] EXCEPT !.step = "STREAM", !.event = None, !.observed = 0, !.tries = 0,
                               !.admitted = @ \/ terminal, !.control = @ \/ control])

\* The Workflow and its Attempt rows move together.
EndAttempt(status, run) ==
  /\ attempts' = [attempts EXCEPT ![wf.active].status = status]
  /\ wf' = [version |-> wf.version + 1, active |-> 0, run |-> run]

Store == <<wf, attempts, claims, receipts>>
-----------------------------------------------------------------------------
(* Dispatch *)

\* beginAttempt committed; its request is prepared in this process only.
BeginAttempt(p) ==
  /\ session[p].step \in {"IDLE", "DONE"} /\ wf.run = "READY"
  /\ \E a \in Attempts :
       /\ ~Begun(a) /\ \A b \in 1..(a - 1) : Begun(b)
       /\ attempts' = [attempts EXCEPT ![a] = [status |-> "RUNNING", context |-> wf.version + 1]]
       /\ wf' = [version |-> wf.version + 1, active |-> a, run |-> "RUNNING"]
       /\ Become(p, [Quiet EXCEPT !.step = "PREPARED", !.attempt = a])
  /\ UNCHANGED <<claims, receipts>>

\* claimWorkerDispatch compares the request with the rows it reads.
ReadDispatch(p) ==
  /\ session[p].step = "PREPARED"
  /\ Goto(p, IF Current(session[p].attempt) THEN "CLAIMING" ELSE "DONE")
  /\ UNCHANGED Store

\* Mutant: the claim is inserted on the strength of the earlier reading.
ClaimUnchecked(p) ==
  /\ session[p].step = "CLAIMING"
  /\ claims' = [claims EXCEPT ![session[p].attempt] = wf.version]
  /\ Become(p, [session[p] EXCEPT !.step = "STREAM", !.left = MaxDeliveries])
  /\ UNCHANGED <<wf, attempts, receipts>>

\* The transaction looks again; only a fresh claim lets the worker run.
CommitClaim(p) ==
  /\ session[p].step = "CLAIMING"
  /\ LET a == session[p].attempt IN
     IF claims[a] = 0 /\ Current(a)
     THEN /\ claims' = [claims EXCEPT ![a] = wf.version]
          /\ Become(p, [session[p] EXCEPT !.step = "STREAM", !.left = MaxDeliveries])
     ELSE Goto(p, "DONE") /\ UNCHANGED claims
  /\ UNCHANGED <<wf, attempts, receipts>>

-----------------------------------------------------------------------------
(* Admission of one event *)

Deliver(p, e) ==
  /\ session[p].step = "STREAM" /\ session[p].left > 0
  /\ Become(p, [session[p] EXCEPT !.step = "READ", !.event = e, !.left = @ - 1])
  /\ UNCHANGED Store

\* Mutant: any admitted duplicate terminates the stream it is replayed in.
DuplicateTerminates(p, row) ==
  Answer(p, row.event = session[p].event /\ row.disposition = "ADMITTED", FALSE)

\* A known identity: the same event is a duplicate, another one a conflict.
Replay(p, row) ==
  Answer(p, /\ row.event = session[p].event /\ row.disposition = "ADMITTED"
            /\ Binds(session[p].event, session[p].attempt), FALSE)

ReadEvent(p) ==
  /\ session[p].step = "READ"
  /\ LET e == session[p].event
         plan == IF Binds(e, session[p].attempt) /\ Current(session[p].attempt)
                 THEN "ADMIT" ELSE "IGNORE" IN
     IF receipts[e.id] # None THEN Replay(p, receipts[e.id])
     ELSE IF Begun(e.attempt) /\ Begun(e.manifest)
     THEN Become(p, [session[p] EXCEPT !.step = plan, !.observed = wf.version])
     ELSE Answer(p, FALSE, FALSE)
  /\ UNCHANGED Store

\* Mutant: the version is not compared again inside the transaction.
NeverMoved(p) == TRUE

VersionCurrent(p) == session[p].observed = wf.version

\* A second lost race is a failure of the control plane.
TryAgain(p) ==
  IF session[p].tries = 0
  THEN Become(p, [session[p] EXCEPT !.step = "READ", !.observed = 0, !.tries = 1])
  ELSE Answer(p, FALSE, TRUE)

AddReceipt(p, disposition) ==
  receipts' = [receipts EXCEPT ![session[p].event.id] =
    [event |-> session[p].event, disposition |-> disposition, observed |-> session[p].observed]]

\* Mutant: an ignored event is recorded without looking its identity up.
IgnoreUpserts(p) ==
  /\ session[p].step = "IGNORE"
  /\ IF VersionCurrent(p) THEN AddReceipt(p, "IGNORED") /\ Answer(p, FALSE, FALSE)
                          ELSE TryAgain(p) /\ UNCHANGED receipts
  /\ UNCHANGED <<wf, attempts, claims>>

\* Only of a dispatched Attempt, named with its own manifest, is an event kept.
Dispatched(e) == claims[e.attempt] # 0 /\ e.manifest = e.attempt

CommitIgnored(p) ==
  /\ session[p].step = "IGNORE"
  /\ LET row == receipts[session[p].event.id] IN
     \/ row # None /\ Replay(p, row) /\ UNCHANGED receipts
     \/ row = None /\ ~Dispatched(session[p].event) /\ Answer(p, FALSE, TRUE)
        /\ UNCHANGED receipts
     \/ row = None /\ Dispatched(session[p].event) /\ ~VersionCurrent(p) /\ TryAgain(p)
        /\ UNCHANGED receipts
     \/ row = None /\ Dispatched(session[p].event) /\ VersionCurrent(p)
        /\ AddReceipt(p, "IGNORED") /\ Answer(p, FALSE, FALSE)
  /\ UNCHANGED <<wf, attempts, claims>>

CommitAdmitted(p) ==
  /\ session[p].step = "ADMIT"
  /\ LET row == receipts[session[p].event.id] IN
     \/ row # None /\ Replay(p, row) /\ UNCHANGED <<wf, attempts, receipts>>
     \/ row = None /\ ~VersionCurrent(p) /\ TryAgain(p) /\ UNCHANGED <<wf, attempts, receipts>>
     \/ row = None /\ VersionCurrent(p)
        /\ EndAttempt(Ended[session[p].event.kind],
                      IF session[p].event.kind = "RESULT" THEN "READY" ELSE "BLOCKED")
        /\ AddReceipt(p, "ADMITTED") /\ Answer(p, TRUE, FALSE)
  /\ UNCHANGED claims

-----------------------------------------------------------------------------
(* The end of a stream *)

\* Mutant: only a stream without any event is a failed one.
AnyEventEndsStream(p) ==
  /\ session[p].step = "STREAM"
  /\ Goto(p, IF session[p].left < MaxDeliveries THEN "DONE" ELSE "PORT")
  /\ UNCHANGED Store

\* A stream that brought no terminal event failed, unless the control plane did.
EndStream(p) ==
  /\ session[p].step = "STREAM"
  /\ Goto(p, IF session[p].admitted \/ session[p].control \/ session[p].aborted
             THEN "DONE" ELSE "PORT")
  /\ UNCHANGED Store

\* The worker throws, or is not a stream at all.
BreakStream(p) ==
  /\ session[p].step = "STREAM" /\ ~session[p].aborted
  /\ Goto(p, "PORT")
  /\ UNCHANGED Store

ReadPort(p) ==
  /\ session[p].step = "PORT"
  /\ IF Running(session[p].attempt)
     THEN Become(p, [session[p] EXCEPT !.step = "FAILING", !.observed = wf.version])
     ELSE Goto(p, "DONE")
  /\ UNCHANGED Store

\* recordAttemptFailure, expecting the version just read.
CommitPort(p) ==
  /\ session[p].step = "FAILING"
  /\ IF VersionCurrent(p)
     THEN EndAttempt("FAILED", "BLOCKED")
     ELSE UNCHANGED <<wf, attempts>>
  /\ Become(p, [session[p] EXCEPT !.step = "DONE", !.observed = 0])
  /\ UNCHANGED <<claims, receipts>>

\* A call of the store throws: admission answers, everything else gives up.
StoreFails(p) ==
  /\ \/ session[p].step \in {"READ", "IGNORE", "ADMIT"} /\ Answer(p, FALSE, TRUE)
     \/ /\ session[p].step \in {"PREPARED", "CLAIMING", "PORT", "FAILING"}
        /\ Become(p, [session[p] EXCEPT !.step = "DONE", !.observed = 0, !.control = TRUE])
  /\ UNCHANGED Store

-----------------------------------------------------------------------------
(* What else happens to the Attempt *)

\* The process is not inside one of its own synchronous kernel calls.
Responsive(p) == session[p].step \in {"IDLE", "STREAM", "DONE"}

\* cancelGoal; the abort reaches only a stream of the same process.
CancelGoal(p) ==
  /\ Responsive(p) /\ wf.run # "CANCELLED"
  /\ IF wf.run = "RUNNING"
     THEN EndAttempt("INTERRUPTED", "CANCELLED")
     ELSE wf' = [wf EXCEPT !.version = @ + 1, !.run = "CANCELLED"] /\ UNCHANGED attempts
  /\ Become(p, [session[p] EXCEPT !.aborted = @ \/ session[p].step = "STREAM"])
  /\ UNCHANGED <<claims, receipts>>

StartupRecovery(p) ==
  /\ session[p].step = "IDLE" /\ wf.run = "RUNNING"
  /\ EndAttempt("INTERRUPTED", "BLOCKED")
  /\ UNCHANGED <<claims, receipts, session>>

ResumeGoal(p) ==
  /\ Responsive(p) /\ wf.run = "BLOCKED"
  /\ wf' = [wf EXCEPT !.version = @ + 1, !.run = "READY"]
  /\ UNCHANGED <<attempts, claims, receipts, session>>

Crash(p) ==
  /\ session[p] # Quiet
  /\ Become(p, Quiet)
  /\ UNCHANGED Store

Init ==
  /\ wf = [version |-> 1, active |-> 0, run |-> "READY"]
  /\ attempts = [a \in Attempts |-> NoAttempt]
  /\ claims = [a \in Attempts |-> 0]
  /\ receipts = [i \in EventIds |-> None]
  /\ session = [p \in Procs |-> Quiet]

\* What a live process does next of its own accord.
Step(p) ==
  \/ ReadDispatch(p) \/ CommitClaim(p)
  \/ ReadEvent(p) \/ CommitIgnored(p) \/ CommitAdmitted(p)
  \/ EndStream(p) \/ ReadPort(p) \/ CommitPort(p)

Next ==
  \E p \in Procs :
    \/ Step(p) \/ BeginAttempt(p) \/ (\E e \in Events : Deliver(p, e)) \/ BreakStream(p)
    \/ StoreFails(p) \/ CancelGoal(p) \/ StartupRecovery(p) \/ ResumeGoal(p) \/ Crash(p)

Spec == Init /\ [][Next]_vars

\* An event loop keeps turning, and streams end (workers have a deadline).
FairSpec == Spec /\ \A p \in Procs : WF_vars(Step(p))
-----------------------------------------------------------------------------
(* Properties *)

Admitted(i) == receipts[i] # None /\ receipts[i].disposition = "ADMITTED"

(* What a replay asserts of retained rows is always so: a receipt is of a     *)
(* dispatched Attempt and not older than its claim; an admitted event bound   *)
(* its dispatch exactly, was judged at the claimed version, was the only one, *)
(* and the Attempt ended the way it says, whatever raced with it              *)
(* (assertWorkerEventReplayAuthorityIntegrity never throws).                  *)
ReplayAuthority ==
  \A i \in EventIds : receipts[i] # None =>
    LET e == receipts[i].event IN
    /\ e.id = i /\ Dispatched(e)
    /\ receipts[i].observed >= claims[e.attempt]
    /\ Admitted(i) =>
         /\ e.exact /\ receipts[i].observed = claims[e.attempt]
         /\ attempts[e.attempt].status = Ended[e.kind]
         /\ \A j \in EventIds : Admitted(j) /\ j # i => receipts[j].event.attempt # e.attempt

(* A driver that is done with a dispatch leaves no Attempt running, unless    *)
(* the control plane failed it: no delivery, late, foreign or duplicated,     *)
(* keeps an Attempt alive after its stream (ADR 0025).                        *)
StreamEndsAttempt ==
  \A p \in Procs :
    session[p].step = "DONE" /\ session[p].attempt # 0 /\ ~session[p].control
      => ~Running(session[p].attempt)

(* A driver that counts its stream as terminated is right: an event of this   *)
(* very dispatch was admitted, here or in an earlier delivery.                *)
TerminalForDispatch ==
  \A p \in Procs : session[p].admitted =>
    \E i \in EventIds : Admitted(i) /\ Binds(receipts[i].event, session[p].attempt)

(* The worker runs only for a claim made while the Attempt was current, and a *)
(* claim, a receipt and the end of an Attempt are never revised.              *)
DecidedOnce ==
  [][/\ \A a \in Attempts :
          /\ claims[a] # 0 => claims'[a] = claims[a]
          /\ claims[a] = 0 /\ claims'[a] # 0 => Current(a) /\ claims'[a] = attempts[a].context
          /\ attempts[a].status \notin {"NONE", "RUNNING"} => attempts'[a] = attempts[a]
     /\ \A i \in EventIds : receipts[i] # None => receipts'[i] = receipts[i]]_vars

(* Every dispatched Attempt ends, unless its process dies or its control      *)
(* plane fails: then startup recovery has to end it.                          *)
DispatchEnds ==
  \A p \in Procs, a \in Attempts :
    session[p].attempt = a /\ session[p].step = "STREAM"
      ~> ~Running(a) \/ session[p].attempt # a \/ session[p].control
=============================================================================
