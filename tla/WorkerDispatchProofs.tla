------------------------ MODULE WorkerDispatchProofs ------------------------
(* Theorems about WorkerDispatch for any number of processes, Attempts and    *)
(* events.                                                                    *)
EXTENDS WorkerDispatch, TLAPS

USE DispatchAssumption, NoneIsNoReceipt DEF Attempts

-----------------------------------------------------------------------------
(* The inductive invariant *)

RowTypes ==
  /\ wf \in Workflow
  /\ attempts \in [Attempts -> Attempt]
  /\ claims \in [Attempts -> Nat]
  /\ receipts \in [EventIds -> Receipt \union {None}]

(* Only the active Attempt of a RUNNING Workflow runs, under the version it   *)
(* began with; every other one is of an earlier version; claims bind it.      *)
Rows ==
  /\ wf.run = "RUNNING" => wf.active \in Attempts /\ attempts[wf.active].status = "RUNNING"
  /\ \A a \in Attempts :
       /\ attempts[a].status = "RUNNING" =>
            wf.run = "RUNNING" /\ wf.active = a /\ wf.version = attempts[a].context
       /\ Begun(a) /\ attempts[a].status # "RUNNING" => attempts[a].context < wf.version
       /\ claims[a] # 0 => Begun(a) /\ claims[a] = attempts[a].context

Streaming == {"STREAM", "READ", "IGNORE", "ADMIT", "PORT", "FAILING"}

(* A dispatch in progress is of an Attempt that was begun. *)
Placed(s) ==
  /\ s.step # "IDLE" => s.attempt \in Attempts /\ Begun(s.attempt)
  /\ s.step = "IDLE" => s.attempt = 0 /\ ~s.admitted /\ ~s.aborted

(* Its worker runs only for a claim, and only it makes the claim. *)
Claimed(s) ==
  /\ s.step \in {"PREPARED", "CLAIMING"} => claims[s.attempt] = 0
  /\ s.step \in Streaming => claims[s.attempt] # 0

(* A commit in preparation binds the dispatch and read its version. *)
Reading(s) ==
  /\ s.step \in {"READ", "IGNORE", "ADMIT"} => s.event \in Events
  /\ s.step = "ADMIT" => Binds(s.event, s.attempt)
  /\ s.step \in {"ADMIT", "FAILING"} => s.observed = attempts[s.attempt].context

(* It was told an event was admitted only if one of its own was. *)
Told(s) == s.admitted => \E i \in EventIds : Admitted(i) /\ Binds(receipts[i].event, s.attempt)

(* It is aborted, or done, only with an Attempt that ended. *)
Over(s) == s.aborted \/ (s.step = "DONE" /\ ~s.control) => attempts[s.attempt].status # "RUNNING"

Good(s) == Placed(s) /\ Claimed(s) /\ Reading(s) /\ Told(s) /\ Over(s)

Sessions == session \in [Procs -> Session] /\ \A p \in Procs : Good(session[p])

(* A request is in the hands of one process. *)
Exclusive ==
  \A p, q \in Procs : p # q /\ session[p].step # "IDLE" /\ session[q].step # "IDLE"
                        => session[p].attempt # session[q].attempt

Inv == RowTypes /\ Rows /\ ReplayAuthority /\ Sessions /\ Exclusive

(* What no step ever takes back. *)
Stable ==
  /\ \A a \in Attempts :
       /\ Begun(a) => Begun(a)' /\ attempts'[a].context = attempts[a].context
       /\ Begun(a) /\ attempts[a].status # "RUNNING" => attempts'[a] = attempts[a]
       /\ claims[a] # 0 => claims'[a] = claims[a]
  /\ \A i \in EventIds : receipts[i] # None => receipts'[i] = receipts[i]

LEMMA GoodStable ==
  ASSUME NEW s \in Session, Good(s), Stable, ReplayAuthority,
         s.step \in {"PREPARED", "CLAIMING"} => claims'[s.attempt] = 0
  PROVE  Good(s)'
<1>1. Placed(s)'
  BY DEF Good, Stable, Placed, Begun
<1>2. Claimed(s)'
  BY DEF Good, Stable, Placed, Claimed, Streaming
<1>3. Reading(s)'
  BY DEF Good, Stable, Placed, Reading, Binds
<1>4. Told(s)'
  BY DEF Good, Stable, Told, Admitted, Binds
<1>5. Over(s)'
  BY DEF Good, Stable, Placed, Over
<1> QED BY <1>1, <1>2, <1>3, <1>4, <1>5 DEF Good

(* A step of process p: the other dispatches go on as they were. *)
LEMMA SessionStep ==
  ASSUME Inv, Stable, NEW p \in Procs, NEW s \in Session, session' = [session EXCEPT ![p] = s],
         Good(s)', s.step = "IDLE" \/ (s.attempt = session[p].attempt /\ session[p].step # "IDLE"),
         \A a \in Attempts : claims'[a] = claims[a] \/ (a = session[p].attempt /\ session[p].step # "IDLE")
  PROVE  Sessions' /\ Exclusive'
<1>1. \A q \in Procs : session'[q] = IF q = p THEN s ELSE session[q]
  BY DEF Inv, Sessions
<1>2. ASSUME NEW q \in Procs PROVE Good(session[q])'
  <2>1. CASE q = p
    <3>1. PICK t : t = session'[q]
      OBVIOUS
    <3>2. t = s
      BY <1>1, <2>1, <3>1
    <3> QED BY <3>1, <3>2 DEF Good, Placed, Claimed, Reading, Told, Over, Begun, Binds, Admitted
  <2>2. CASE q # p
    <3>1. PICK t \in Session : t = session[q]
      BY DEF Inv, Sessions
    <3>2. Good(t)
      BY <3>1 DEF Inv, Sessions
    <3>3. t.step \in {"PREPARED", "CLAIMING"} => claims'[t.attempt] = 0
      BY <2>2, <3>1, <3>2 DEF Inv, Exclusive, Good, Claimed, Placed
    <3>4. Good(t)'
      BY <3>2, <3>3, GoodStable DEF Inv
    <3>5. session'[q] = t
      BY <1>1, <2>2, <3>1
    <3> QED BY <3>4, <3>5 DEF Good, Placed, Claimed, Reading, Told, Over, Begun, Binds, Admitted
  <2> QED BY <2>1, <2>2
<1>3. Exclusive'
  BY <1>1 DEF Inv, Exclusive
<1>4. session' \in [Procs -> Session]
  BY DEF Inv, Sessions
<1> QED BY <1>2, <1>3, <1>4 DEF Sessions

(* ... which is all there is to a step that makes no claim. *)
LEMMA Advance ==
  ASSUME Inv, Stable, UNCHANGED claims, RowTypes', Rows', ReplayAuthority',
         NEW p \in Procs, NEW s \in Session, session' = [session EXCEPT ![p] = s],
         session[p].step # "IDLE", s.step # "IDLE", s.attempt = session[p].attempt,
         s.step # "PREPARED", s.step = "CLAIMING" => session[p].step = "PREPARED",
         s.step \in Streaming => session[p].step \in Streaming,
         Reading(s)',
         s.admitted /\ ~session[p].admitted => Told(s)',
         s.aborted /\ ~session[p].aborted => attempts'[s.attempt].status # "RUNNING",
         s.step = "DONE" /\ ~s.control => attempts'[s.attempt].status # "RUNNING"
  PROVE  Inv'
<1>1. PICK t \in Session : t = session[p]
  BY DEF Inv, Sessions
<1>2. Good(t)
  BY <1>1 DEF Inv, Sessions
<1>3. Good(t)'
  BY <1>2, GoodStable DEF Inv, Good, Claimed
<1>4. Placed(s)'
  BY <1>1, <1>3 DEF Good, Placed, Begun
<1>5. Claimed(s)'
  BY <1>1, <1>2, <1>3 DEF Good, Claimed
<1>6. Told(s)'
  BY <1>1, <1>3 DEF Good, Told, Admitted, Binds
<1>7. Over(s)'
  <2>1. t.aborted = session[p].aborted /\ t.attempt = s.attempt
    BY <1>1
  <2>2. t.aborted => attempts'[s.attempt].status # "RUNNING"
    BY <1>3, <2>1 DEF Good, Over
  <2>3. s.aborted => attempts'[s.attempt].status # "RUNNING"
    BY <2>1, <2>2
  <2> QED BY <2>3 DEF Over
<1>8. Good(s)'
  BY <1>4, <1>5, <1>6, <1>7 DEF Good
<1>9. Sessions' /\ Exclusive'
  BY <1>8, SessionStep
<1> QED BY <1>9 DEF Inv

(* A step that leaves the session of every process alone. *)
LEMMA SessionsKept ==
  ASSUME Inv, Stable, UNCHANGED <<claims, session>>
  PROVE  Sessions' /\ Exclusive'
<1>1. ASSUME NEW p \in Procs PROVE Good(session[p])'
  <2>1. PICK t \in Session : t = session[p]
    BY DEF Inv, Sessions
  <2>2. Good(t)
    BY <2>1 DEF Inv, Sessions
  <2>3. Good(t)'
    BY <2>2, GoodStable DEF Inv, Good, Claimed
  <2>4. session'[p] = t
    BY <2>1
  <2> QED BY <2>3, <2>4 DEF Good, Placed, Claimed, Reading, Told, Over, Begun, Binds, Admitted
<1>2. Exclusive'
  BY DEF Inv, Exclusive
<1> QED BY <1>1, <1>2 DEF Inv, Sessions

-----------------------------------------------------------------------------
(* What the rows do *)

(* A receipt r for the event i is right, and an admitted one the only one. *)
Sound(i, r) ==
  /\ r.event.id = i /\ claims[r.event.attempt] # 0 /\ r.event.manifest = r.event.attempt
  /\ r.observed >= claims[r.event.attempt]
  /\ r.disposition = "ADMITTED" =>
       /\ r.event.exact /\ r.observed = claims[r.event.attempt]
       /\ attempts[r.event.attempt].status = Ended[r.event.kind]

Sole == \A i, j \in EventIds :
  Admitted(i) /\ Admitted(j) /\ j # i => receipts[j].event.attempt # receipts[i].event.attempt

LEMMA ReplayParts ==
  ReplayAuthority <=> (\A i \in EventIds : receipts[i] # None => Sound(i, receipts[i])) /\ Sole
BY DEF ReplayAuthority, Sound, Sole, Admitted, Dispatched

LEMMA ReplayPartsNext ==
  ASSUME \A i \in EventIds : receipts'[i] # None => Sound(i, receipts[i])', Sole'
  PROVE  ReplayAuthority'
BY DEF ReplayAuthority, Sound, Sole, Admitted, Dispatched

(* Receipts stay right while rows only move forward. *)
LEMMA ReceiptsKept ==
  ASSUME Inv, Stable, UNCHANGED receipts
  PROVE  ReplayAuthority'
<1> SUFFICES ASSUME NEW i \in EventIds, receipts[i] # None
             PROVE  LET e == receipts[i].event IN
                    /\ e.id = i /\ Dispatched(e)'
                    /\ receipts[i].observed >= claims'[e.attempt]
                    /\ Admitted(i) =>
                         /\ e.exact /\ receipts[i].observed = claims'[e.attempt]
                         /\ attempts'[e.attempt].status = Ended[e.kind]
                         /\ \A j \in EventIds : Admitted(j) /\ j # i
                              => receipts[j].event.attempt # e.attempt
  BY DEF ReplayAuthority, Admitted, Dispatched
<1> DEFINE e == receipts[i].event
<1>1. e \in Event
  BY DEF Inv, RowTypes, Receipt
<1>2. e.attempt \in Attempts /\ Ended[e.kind] \in {"RESULT_RECORDED", "FAILED"}
  BY <1>1 DEF Event, Kinds, Ended
<1>3. claims'[e.attempt] = claims[e.attempt] /\ claims[e.attempt] # 0
  BY <1>2 DEF Inv, ReplayAuthority, Dispatched, Stable
<1>4. Admitted(i) => attempts'[e.attempt] = attempts[e.attempt]
  BY <1>2 DEF Inv, ReplayAuthority, Stable, Begun
<1> QED BY <1>3, <1>4 DEF Inv, ReplayAuthority, Dispatched

LEMMA StoreKept ==
  ASSUME Inv, UNCHANGED Store
  PROVE  Stable /\ RowTypes' /\ Rows' /\ ReplayAuthority'
<1>1. Stable
  BY DEF Stable, Begun, Store
<1>2. RowTypes' /\ Rows'
  BY DEF Inv, RowTypes, Rows, Begun, Store
<1> QED BY <1>1, <1>2, ReceiptsKept DEF Store

(* The Workflow and its active Attempt move together. *)
LEMMA EndsAttempt ==
  ASSUME Inv, wf.run = "RUNNING", NEW st \in {"RESULT_RECORDED", "FAILED", "INTERRUPTED"},
         NEW run \in {"READY", "BLOCKED", "CANCELLED"}, EndAttempt(st, run), UNCHANGED claims
  PROVE  /\ wf' \in Workflow /\ attempts' \in [Attempts -> Attempt] /\ Rows'
         /\ \A a \in Attempts : attempts'[a].status # "RUNNING"
         /\ \A a \in Attempts : attempts'[a].status = IF a = wf.active THEN st ELSE attempts[a].status
         /\ \A a \in Attempts :
              /\ Begun(a) => Begun(a)' /\ attempts'[a].context = attempts[a].context
              /\ Begun(a) /\ attempts[a].status # "RUNNING" => attempts'[a] = attempts[a]
<1>1. wf.active \in Attempts /\ attempts[wf.active].status = "RUNNING" /\ wf.version \in Nat \ {0}
  BY DEF Inv, Rows, RowTypes, Workflow
<1>2. wf' = [version |-> wf.version + 1, active |-> 0, run |-> run]
  BY DEF EndAttempt
<1>3. wf' \in Workflow
  BY <1>1, <1>2 DEF Workflow
<1>4. \A a \in Attempts : attempts[a] \in Attempt
  BY DEF Inv, RowTypes
<1>5. \A a \in Attempts : attempts'[a] = IF a = wf.active THEN [attempts[a] EXCEPT !.status = st]
                                                        ELSE attempts[a]
  BY DEF EndAttempt, Inv, RowTypes
<1>6. \A a \in Attempts : /\ attempts'[a] \in Attempt
                        /\ attempts'[a].context = attempts[a].context
                        /\ attempts'[a].status = IF a = wf.active THEN st ELSE attempts[a].status
  BY <1>4, <1>5 DEF Attempt
<1>7. attempts' \in [Attempts -> Attempt]
  <2>1. attempts' = [a \in Attempts |-> attempts'[a]]
    BY DEF EndAttempt, Inv, RowTypes
  <2> QED BY <2>1, <1>6
<1>8. \A a \in Attempts : attempts'[a].status # "RUNNING"
  BY <1>6 DEF Inv, Rows
<1>9. \A a \in Attempts :
              /\ Begun(a) => Begun(a)' /\ attempts'[a].context = attempts[a].context
              /\ Begun(a) /\ attempts[a].status # "RUNNING" => attempts'[a] = attempts[a]
  BY <1>1, <1>5, <1>6 DEF Begun
<1>10. ASSUME NEW a \in Attempts
       PROVE  /\ Begun(a)' /\ attempts'[a].status # "RUNNING" => attempts'[a].context < wf'.version
              /\ claims'[a] # 0 => Begun(a)' /\ claims'[a] = attempts'[a].context
  <2>1. Begun(a)' => Begun(a)
    BY <1>1, <1>6 DEF Begun
  <2>2. attempts[a].context \in Nat
    BY <1>4 DEF Attempt
  <2>3. Begun(a) => attempts[a].context < wf.version + 1
    BY <1>1, <2>2 DEF Inv, Rows
  <2>4. wf'.version = wf.version + 1
    BY <1>2
  <2> QED BY <2>1, <2>3, <2>4, <1>6, <1>9 DEF Inv, Rows
<1>11. wf'.run # "RUNNING"
  BY <1>2
<1>12. Rows'
  BY <1>8, <1>10, <1>11 DEF Rows
<1> QED BY <1>3, <1>6, <1>7, <1>8, <1>9, <1>12

-----------------------------------------------------------------------------
(* What the sessions do *)

(* Moving the fields of a session one at a time. *)
LEMMA SessionMoves ==
  ASSUME NEW t \in Session
  PROVE  /\ \A x \in Steps : [t EXCEPT !.step = x] \in Session
         /\ \A x \in Events \union {None} : [t EXCEPT !.event = x] \in Session
         /\ \A x \in Nat : [t EXCEPT !.observed = x] \in Session
         /\ [t EXCEPT !.tries = 0] \in Session /\ [t EXCEPT !.tries = 1] \in Session
         /\ \A x \in 0..MaxDeliveries : [t EXCEPT !.left = x] \in Session
         /\ \A x \in BOOLEAN : /\ [t EXCEPT !.admitted = x] \in Session
                               /\ [t EXCEPT !.control = x] \in Session
                               /\ [t EXCEPT !.aborted = x] \in Session
  BY DEF Session

(* The answer to an event, whatever became of the rows meanwhile. *)
LEMMA AnswerStep ==
  ASSUME Inv, Stable, UNCHANGED claims, RowTypes', Rows', ReplayAuthority',
         NEW p \in Procs, session[p].step \in {"READ", "IGNORE", "ADMIT"},
         NEW terminal \in BOOLEAN, NEW control \in BOOLEAN, Answer(p, terminal, control),
         terminal => (\E i \in EventIds : Admitted(i) /\ Binds(receipts[i].event, session[p].attempt))'
  PROVE  Inv'
<1>1. PICK t \in Session : t = session[p]
  BY DEF Inv, Sessions
<1>2. PICK s : s = [t EXCEPT !.step = "STREAM", !.event = None, !.observed = 0, !.tries = 0,
                             !.admitted = @ \/ terminal, !.control = @ \/ control]
  OBVIOUS
<1>3. s \in Session
  <2>1. PICK u \in Session : u = [t EXCEPT !.step = "STREAM"]
    BY SessionMoves DEF Steps
  <2>2. PICK v \in Session : v = [u EXCEPT !.event = None]
    BY SessionMoves
  <2>3. PICK w \in Session : w = [v EXCEPT !.observed = 0]
    BY SessionMoves
  <2>4. PICK x \in Session : x = [w EXCEPT !.tries = 0]
    BY SessionMoves
  <2>5. PICK y \in Session : y = [x EXCEPT !.admitted = t.admitted \/ terminal]
    BY SessionMoves
  <2>6. PICK z \in Session : z = [y EXCEPT !.control = t.control \/ control]
    BY SessionMoves
  <2>7. z = s
    BY <1>2, <2>1, <2>2, <2>3, <2>4, <2>5, <2>6 DEF Session
  <2> QED BY <2>7
<1>4. s.step = "STREAM" /\ s.attempt = t.attempt /\ s.aborted = t.aborted
      /\ s.admitted = (t.admitted \/ terminal)
  BY <1>2 DEF Session
<1>5. session' = [session EXCEPT ![p] = s]
  BY <1>1, <1>2 DEF Answer, Become
<1>6. Reading(s)'
  BY <1>4 DEF Reading
<1>7. session'[p].attempt = s.attempt
  BY <1>1, <1>5 DEF Inv, Sessions
<1>8. s.admitted /\ ~t.admitted => Told(s)'
  BY <1>1, <1>4, <1>7 DEF Told
<1>9. "STREAM" \in Streaming /\ session[p].step \in Streaming
  BY DEF Streaming
<1> QED BY <1>1, <1>3, <1>4, <1>5, <1>6, <1>8, <1>9, Advance

(* Reading an event once more, or giving it up. *)
LEMMA AgainStep ==
  ASSUME Inv, UNCHANGED Store, NEW p \in Procs, session[p].step \in {"IGNORE", "ADMIT"}, TryAgain(p)
  PROVE  Inv'
<1>1. CASE session[p].tries = 0
  <2>1. PICK t \in Session : t = session[p]
    BY DEF Inv, Sessions
  <2>2. PICK s : s = [t EXCEPT !.step = "READ", !.observed = 0, !.tries = 1]
    OBVIOUS
  <2>a. s \in Session
    <3>1. PICK u \in Session : u = [t EXCEPT !.step = "READ"]
      BY SessionMoves DEF Steps
    <3>2. PICK v \in Session : v = [u EXCEPT !.observed = 0]
      BY SessionMoves
    <3>3. [v EXCEPT !.tries = 1] \in Session
      BY SessionMoves
    <3> QED BY <2>2, <3>1, <3>2, <3>3
  <2>3. s \in Session /\ s.step = "READ" /\ s.attempt = t.attempt /\ s.aborted = t.aborted
        /\ s.admitted = t.admitted /\ s.event = t.event
    BY <2>2, <2>a DEF Session, Steps
  <2>4. session' = [session EXCEPT ![p] = s]
    BY <2>1, <2>2, <1>1 DEF TryAgain, Become
  <2>5. Reading(s)'
    BY <2>1, <2>3 DEF Inv, Sessions, Good, Reading
  <2>6. "READ" \in Streaming /\ session[p].step \in Streaming
    BY DEF Streaming
  <2> QED BY <2>1, <2>3, <2>4, <2>5, <2>6, StoreKept, Advance DEF Store
<1>2. CASE session[p].tries # 0
  <2>1. Answer(p, FALSE, TRUE)
    BY <1>2 DEF TryAgain
  <2> QED BY <2>1, StoreKept, AnswerStep DEF Store
<1> QED BY <1>1, <1>2

(* A replay answers a duplicate as terminal only for its own dispatch. *)
LEMMA ReplayStep ==
  ASSUME Inv, UNCHANGED Store, NEW p \in Procs, session[p].step \in {"READ", "IGNORE", "ADMIT"},
         NEW row, row = receipts[session[p].event.id], row # None, Replay(p, row)
  PROVE  Inv'
<1>1. session[p].event.id \in EventIds
  BY DEF Inv, Sessions, Good, Reading, DispatchAssumption, Event
<1> DEFINE terminal == /\ row.event = session[p].event /\ row.disposition = "ADMITTED"
                       /\ Binds(session[p].event, session[p].attempt)
<1>2. PICK b \in BOOLEAN : b = terminal
  OBVIOUS
<1>3. Answer(p, b, FALSE)
  BY <1>2 DEF Replay
<1>4. b => \E i \in EventIds : Admitted(i) /\ Binds(receipts[i].event, session[p].attempt)
  BY <1>1, <1>2 DEF Admitted
<1>5. PICK a : a = session[p].attempt
  OBVIOUS
<1>6. session'[p].attempt = session[p].attempt
  <2>1. PICK t \in Session : t = session[p]
    BY DEF Inv, Sessions
  <2>2. session'[p] = [t EXCEPT !.step = "STREAM", !.event = None, !.observed = 0, !.tries = 0,
                             !.admitted = @ \/ b, !.control = @ \/ FALSE]
    BY <1>3, <2>1 DEF Answer, Become, Inv, Sessions
  <2> QED BY <2>1, <2>2 DEF Session
<1>7. b => (\E i \in EventIds : Admitted(i) /\ Binds(receipts[i].event, session[p].attempt))'
  BY <1>4, <1>6 DEF Admitted, Binds, Store
<1> QED BY <1>3, <1>7, StoreKept, AnswerStep DEF Store

-----------------------------------------------------------------------------
(* The steps *)

(* A move inside one dispatch that touches nothing else. *)
LEMMA QuietStep ==
  ASSUME Inv, UNCHANGED Store, NEW p \in Procs, NEW s \in Session, Become(p, s),
         session[p].step # "IDLE", s.step # "IDLE", s.attempt = session[p].attempt,
         s.step # "PREPARED", s.step = "CLAIMING" => session[p].step = "PREPARED",
         s.step \in Streaming => session[p].step \in Streaming,
         Reading(s), s.admitted = session[p].admitted, s.aborted = session[p].aborted,
         s.step = "DONE" /\ ~s.control => attempts[s.attempt].status # "RUNNING"
  PROVE  Inv'
<1>1. Reading(s)'
  BY DEF Reading, Binds, Store
<1> QED BY <1>1, StoreKept, Advance DEF Store, Become

(* The running Attempt of a dispatch is current. *)
LEMMA RunningCurrent ==
  ASSUME Inv, NEW a \in Attempts, attempts[a].status = "RUNNING"
  PROVE  Running(a) /\ Current(a)
BY DEF Inv, Rows, Running, Current

LEMMA DispatchOf ==
  ASSUME Inv, NEW p \in Procs
  PROVE  session[p] \in Session /\ Good(session[p])
         /\ (session[p].step # "IDLE" => session[p].attempt \in Attempts)
BY DEF Inv, Sessions, Good, Placed

LEMMA ReadDispatchStep ==
  ASSUME Inv, NEW p \in Procs, ReadDispatch(p)
  PROVE  Inv'
<1>1. PICK t \in Session : t = session[p]
  BY DispatchOf
<1>2. PICK x : x = IF Current(t.attempt) THEN "CLAIMING" ELSE "DONE"
  OBVIOUS
<1>3. PICK s \in Session : s = [t EXCEPT !.step = x]
  BY <1>2, SessionMoves DEF Steps
<1>4. Become(p, s) /\ t.step = "PREPARED" /\ UNCHANGED Store
  BY <1>1, <1>2, <1>3 DEF ReadDispatch, Goto
<1>5. s.step = x /\ s.attempt = t.attempt /\ s.admitted = t.admitted /\ s.aborted = t.aborted
  BY <1>3 DEF Session
<1>6. Reading(s) /\ x \notin Streaming
  BY <1>2, <1>5 DEF Reading, Streaming
<1>7. x = "DONE" => attempts[t.attempt].status # "RUNNING"
  BY <1>1, <1>2, <1>4, RunningCurrent, DispatchOf
<1> QED BY <1>1, <1>2, <1>4, <1>5, <1>6, <1>7, QuietStep

LEMMA DeliverStep ==
  ASSUME Inv, NEW p \in Procs, NEW e \in Events, Deliver(p, e)
  PROVE  Inv'
<1>1. PICK t \in Session : t = session[p]
  BY DispatchOf
<1>2. t.step = "STREAM" /\ t.left \in 1..MaxDeliveries /\ UNCHANGED Store
  BY <1>1 DEF Deliver, Session
<1>3. PICK u \in Session : u = [t EXCEPT !.step = "READ"]
  BY SessionMoves DEF Steps
<1>4. PICK v \in Session : v = [u EXCEPT !.event = e]
  BY SessionMoves
<1>5. t.left - 1 \in 0..MaxDeliveries
  BY <1>2
<1>6. PICK s \in Session : s = [v EXCEPT !.left = t.left - 1]
  BY <1>5, SessionMoves
<1>7. Become(p, s)
  BY <1>1, <1>3, <1>4, <1>6 DEF Deliver
<1>8. s.step = "READ" /\ s.event = e /\ s.attempt = t.attempt /\ s.admitted = t.admitted
      /\ s.aborted = t.aborted
  BY <1>3, <1>4, <1>6 DEF Session
<1>9. Reading(s) /\ "READ" \in Streaming /\ "STREAM" \in Streaming
  BY <1>8 DEF Reading, Streaming
<1> QED BY <1>1, <1>2, <1>7, <1>8, <1>9, QuietStep

(* What is planned as an admission binds the dispatch, and read its version. *)
LEMMA ReadEventStep ==
  ASSUME Inv, NEW p \in Procs, ReadEvent(p)
  PROVE  Inv'
<1>1. PICK t \in Session : t = session[p]
  BY DispatchOf
<1>2. t.step = "READ" /\ UNCHANGED Store /\ t.event \in Events /\ t.attempt \in Attempts
      /\ wf.version \in Nat
  BY <1>1, DispatchOf DEF ReadEvent, Good, Reading, Inv, RowTypes, Workflow
<1>3. CASE receipts[t.event.id] # None
  <2>1. Replay(p, receipts[t.event.id])
    BY <1>1, <1>3 DEF ReadEvent
  <2> QED BY <1>1, <1>2, <1>3, <2>1, ReplayStep
<1>4. CASE receipts[t.event.id] = None /\ Begun(t.event.attempt) /\ Begun(t.event.manifest)
  <2>1. PICK x : x = IF Binds(t.event, t.attempt) /\ Current(t.attempt) THEN "ADMIT" ELSE "IGNORE"
    OBVIOUS
  <2>2. PICK u \in Session : u = [t EXCEPT !.step = x]
    BY <2>1, SessionMoves DEF Steps
  <2>3. PICK s \in Session : s = [u EXCEPT !.observed = wf.version]
    BY <1>2, SessionMoves
  <2>4. Become(p, s)
    BY <1>1, <1>4, <2>1, <2>2, <2>3 DEF ReadEvent
  <2>5. s.step = x /\ s.event = t.event /\ s.attempt = t.attempt /\ s.admitted = t.admitted
        /\ s.aborted = t.aborted /\ s.observed = wf.version
    BY <2>2, <2>3 DEF Session
  <2>6. Reading(s)
    BY <1>2, <2>1, <2>5 DEF Reading, Current
  <2>7. x \in Streaming /\ x \notin {"IDLE", "PREPARED", "CLAIMING", "DONE"} /\ "READ" \in Streaming
    BY <2>1 DEF Streaming
  <2> QED BY <1>1, <1>2, <2>4, <2>5, <2>6, <2>7, QuietStep
<1>5. CASE receipts[t.event.id] = None /\ ~(Begun(t.event.attempt) /\ Begun(t.event.manifest))
  <2>1. Answer(p, FALSE, FALSE)
    BY <1>1, <1>5 DEF ReadEvent
  <2> QED BY <1>1, <1>2, <2>1, StoreKept, AnswerStep DEF Store
<1> QED BY <1>3, <1>4, <1>5

LEMMA CommitClaimStep ==
  ASSUME Inv, NEW p \in Procs, CommitClaim(p)
  PROVE  Inv' /\ Stable
<1>1. PICK t \in Session : t = session[p]
  BY DispatchOf
<1>2. PICK a \in Attempts : a = t.attempt
  BY <1>1, DispatchOf DEF CommitClaim
<1>3. t.step = "CLAIMING" /\ Good(t) /\ Begun(a) /\ claims[a] = 0 /\ UNCHANGED <<wf, attempts, receipts>>
  BY <1>1, <1>2, DispatchOf DEF CommitClaim, Good, Placed, Claimed
<1>4. CASE Current(a)
  <2>1. claims' = [claims EXCEPT ![a] = wf.version] /\ wf.version \in Nat \ {0}
        /\ wf.version = attempts[a].context
    BY <1>1, <1>2, <1>3, <1>4 DEF CommitClaim, Current, Inv, RowTypes, Workflow
  <2>2. PICK u \in Session : u = [t EXCEPT !.step = "STREAM"]
    BY SessionMoves DEF Steps
  <2>3. MaxDeliveries \in 0..MaxDeliveries
    OBVIOUS
  <2>4. PICK s \in Session : s = [u EXCEPT !.left = MaxDeliveries]
    BY <2>3, SessionMoves
  <2>5. session' = [session EXCEPT ![p] = s]
    BY <1>1, <1>2, <1>3, <1>4, <2>2, <2>4 DEF CommitClaim, Become
  <2>6. s.step = "STREAM" /\ s.attempt = a /\ s.admitted = t.admitted /\ s.aborted = t.aborted
    BY <1>2, <2>2, <2>4 DEF Session
  <2>7. \A b \in Attempts : claims'[b] = IF b = a THEN wf.version ELSE claims[b]
    BY <2>1 DEF Inv, RowTypes
  <2>8. Stable
    BY <1>3, <2>7 DEF Stable, Begun
  <2>9. RowTypes'
    BY <1>3, <2>1 DEF Inv, RowTypes
  <2>10. Rows'
    BY <1>3, <2>1, <2>7 DEF Inv, Rows, Begun
  <2>11. ReplayAuthority'
    BY <1>3, <2>8, ReceiptsKept
  <2>12. Placed(s)' /\ Claimed(s)' /\ Reading(s)'
    BY <1>2, <1>3, <2>1, <2>6, <2>7 DEF Placed, Claimed, Reading, Begun
  <2>13. Told(s)'
    BY <1>2, <1>3, <2>6 DEF Good, Told, Admitted, Binds
  <2>14. Over(s)'
    BY <1>2, <1>3, <2>6 DEF Good, Over
  <2>15. Good(s)'
    BY <2>12, <2>13, <2>14 DEF Good
  <2>16. \A b \in Attempts : claims'[b] = claims[b] \/ (b = session[p].attempt /\ session[p].step # "IDLE")
    BY <1>1, <1>2, <1>3, <2>7
  <2>17. Sessions' /\ Exclusive'
    BY <1>1, <1>2, <1>3, <2>5, <2>6, <2>8, <2>15, <2>16, SessionStep
  <2> QED BY <2>8, <2>9, <2>10, <2>11, <2>17 DEF Inv
<1>5. CASE ~Current(a)
  <2>1. PICK s \in Session : s = [t EXCEPT !.step = "DONE"]
    BY SessionMoves DEF Steps
  <2>2. Become(p, s) /\ UNCHANGED Store
    BY <1>1, <1>2, <1>3, <1>5, <2>1 DEF CommitClaim, Goto, Store
  <2>3. s.step = "DONE" /\ s.attempt = a /\ s.admitted = t.admitted /\ s.aborted = t.aborted
    BY <1>2, <2>1 DEF Session
  <2>4. Reading(s) /\ "DONE" \notin Streaming
    BY <2>3 DEF Reading, Streaming
  <2>5. attempts[a].status # "RUNNING"
    BY <1>5, RunningCurrent
  <2> QED BY <1>1, <1>2, <1>3, <2>2, <2>3, <2>4, <2>5, QuietStep, StoreKept
<1> QED BY <1>4, <1>5

(* A receipt is added where there was none, for a dispatched Attempt. *)
LEMMA AddReceiptStep ==
  ASSUME Inv, NEW p \in Procs, session[p].step \in {"IGNORE", "ADMIT"},
         NEW d \in {"ADMITTED", "IGNORED"}, AddReceipt(p, d),
         receipts[session[p].event.id] = None
  PROVE  /\ receipts' \in [EventIds -> Receipt \union {None}]
         /\ session[p].event \in Event
         /\ \A i \in EventIds :
              receipts'[i] = IF i = session[p].event.id
                             THEN [event |-> session[p].event, disposition |-> d,
                                   observed |-> session[p].observed]
                             ELSE receipts[i]
         /\ \A i \in EventIds : receipts[i] # None => receipts'[i] = receipts[i]
         /\ receipts'[session[p].event.id] # None
<1>1. session[p].event \in Event /\ session[p].observed \in Nat
  BY DispatchOf DEF Good, Reading, Session
<1>2. session[p].event.id \in EventIds
  BY <1>1 DEF Event
<1>3. PICK r : r = [event |-> session[p].event, disposition |-> d, observed |-> session[p].observed]
  OBVIOUS
<1>4. r \in Receipt
  BY <1>1, <1>3 DEF Receipt
<1>5. receipts' = [receipts EXCEPT ![session[p].event.id] = r]
  BY <1>3 DEF AddReceipt
<1>6. receipts' \in [EventIds -> Receipt \union {None}]
  BY <1>4, <1>5 DEF Inv, RowTypes
<1>7. \A i \in EventIds : receipts'[i] = IF i = session[p].event.id THEN r ELSE receipts[i]
  BY <1>5 DEF Inv, RowTypes
<1> QED BY <1>1, <1>2, <1>3, <1>4, <1>6, <1>7

LEMMA CommitIgnoredStep ==
  ASSUME Inv, NEW p \in Procs, CommitIgnored(p)
  PROVE  Inv' /\ Stable
<1> DEFINE row == receipts[session[p].event.id]
           e == session[p].event
<1>1. session[p].step = "IGNORE" /\ UNCHANGED <<wf, attempts, claims>>
  BY DEF CommitIgnored
<1>2. CASE row # None /\ Replay(p, row) /\ UNCHANGED receipts
  BY <1>1, <1>2, ReplayStep, StoreKept DEF Store
<1>3. CASE row = None /\ Answer(p, FALSE, TRUE) /\ UNCHANGED receipts
  BY <1>1, <1>3, StoreKept, AnswerStep DEF Store
<1>4. CASE row = None /\ TryAgain(p) /\ UNCHANGED receipts
  BY <1>1, <1>4, AgainStep, StoreKept DEF Store
<1>5. CASE /\ row = None /\ Dispatched(e) /\ VersionCurrent(p)
           /\ AddReceipt(p, "IGNORED") /\ Answer(p, FALSE, FALSE)
  <2>1. /\ receipts' \in [EventIds -> Receipt \union {None}] /\ e \in Event
        /\ \A i \in EventIds : receipts'[i] = IF i = e.id
                               THEN [event |-> e, disposition |-> "IGNORED", observed |-> session[p].observed]
                               ELSE receipts[i]
        /\ \A i \in EventIds : receipts[i] # None => receipts'[i] = receipts[i]
    BY <1>1, <1>5, AddReceiptStep
  <2>2. Stable
    BY <1>1, <2>1 DEF Stable, Begun
  <2>3. RowTypes'
    BY <1>1, <2>1 DEF Inv, RowTypes
  <2>4. Rows'
    BY <1>1 DEF Inv, Rows, Begun
  <2>5. session[p].observed >= claims[e.attempt]
    <3>1. e.attempt \in Attempts /\ wf.version \in Nat
      BY <2>1 DEF Event, Inv, RowTypes, Workflow
    <3>2. claims[e.attempt] = attempts[e.attempt].context /\ attempts[e.attempt].context \in Nat
          /\ attempts[e.attempt].context <= wf.version
      BY <1>5, <3>1 DEF Dispatched, Inv, Rows, RowTypes, Attempt
    <3> QED BY <1>5, <3>1, <3>2 DEF VersionCurrent
  <2>6. ReplayAuthority'
    <3>1. \A j \in EventIds : Admitted(j)' => Admitted(j) /\ receipts'[j] = receipts[j]
      BY <2>1 DEF Admitted
    <3>2. Sole'
      BY <3>1, ReplayParts DEF Inv, Sole, Admitted
    <3>3. ASSUME NEW i \in EventIds, receipts'[i] # None PROVE Sound(i, receipts[i])'
      <4>1. CASE i = e.id
        <5>1. PICK r : r = receipts'[i]
          OBVIOUS
        <5>2. r.event = e /\ r.disposition = "IGNORED" /\ r.observed = session[p].observed
          BY <2>1, <4>1, <5>1
        <5> QED BY <1>1, <1>5, <2>5, <4>1, <5>1, <5>2 DEF Sound, Dispatched
      <4>2. CASE i # e.id
        <5>1. receipts'[i] = receipts[i] /\ receipts[i] # None
          BY <2>1, <3>3, <4>2
        <5>2. Sound(i, receipts[i])
          BY <5>1, ReplayParts DEF Inv
        <5> QED BY <1>1, <5>1, <5>2 DEF Sound
      <4> QED BY <4>1, <4>2
    <3> QED BY <3>2, <3>3, ReplayPartsNext
  <2>7. Inv'
    BY <1>1, <1>5, <2>2, <2>3, <2>4, <2>6, AnswerStep
  <2> QED BY <2>2, <2>7
<1> QED BY <1>2, <1>3, <1>4, <1>5 DEF CommitIgnored

(* What is admitted in the version of its Attempt finds the Attempt running. *)
LEMMA StillRunning ==
  ASSUME Inv, NEW p \in Procs, session[p].step \in {"ADMIT", "FAILING"}, VersionCurrent(p)
  PROVE  /\ wf.run = "RUNNING" /\ wf.active = session[p].attempt /\ wf.active \in Attempts
         /\ claims[wf.active] # 0 /\ session[p].observed = claims[wf.active]
         /\ attempts[wf.active].status = "RUNNING"
<1>1. PICK t \in Session : t = session[p]
  BY DispatchOf
<1>2. PICK a \in Attempts : a = t.attempt
  BY <1>1, DispatchOf
<1>3. Begun(a) /\ claims[a] # 0 /\ t.observed = attempts[a].context /\ t.observed = wf.version
  BY <1>1, <1>2, DispatchOf DEF Good, Placed, Claimed, Reading, Streaming, VersionCurrent
<1>4. attempts[a].context \in Nat /\ wf.version \in Nat
  BY DEF Inv, RowTypes, Attempt, Workflow
<1>5. attempts[a].status = "RUNNING"
  <2>1. ~(attempts[a].context < wf.version)
    BY <1>3, <1>4
  <2> QED BY <1>3, <2>1 DEF Inv, Rows
<1> QED BY <1>1, <1>2, <1>3, <1>5 DEF Inv, Rows

LEMMA CommitAdmittedStep ==
  ASSUME Inv, NEW p \in Procs, CommitAdmitted(p)
  PROVE  Inv' /\ Stable
<1> DEFINE row == receipts[session[p].event.id]
<1>1. session[p].step = "ADMIT" /\ UNCHANGED claims
  BY DEF CommitAdmitted
<1>2. CASE row # None /\ Replay(p, row) /\ UNCHANGED <<wf, attempts, receipts>>
  BY <1>1, <1>2, ReplayStep, StoreKept DEF Store
<1>3. CASE row = None /\ TryAgain(p) /\ UNCHANGED <<wf, attempts, receipts>>
  BY <1>1, <1>3, AgainStep, StoreKept DEF Store
<1>4. CASE /\ row = None /\ VersionCurrent(p)
           /\ EndAttempt(Ended[session[p].event.kind],
                         IF session[p].event.kind = "RESULT" THEN "READY" ELSE "BLOCKED")
           /\ AddReceipt(p, "ADMITTED") /\ Answer(p, TRUE, FALSE)
  <2>1. PICK e, a, o : e = session[p].event /\ a = session[p].attempt /\ o = session[p].observed
    OBVIOUS
  <2>2. /\ receipts' \in [EventIds -> Receipt \union {None}] /\ e \in Event
        /\ \A i \in EventIds : receipts'[i] = IF i = e.id
                               THEN [event |-> e, disposition |-> "ADMITTED", observed |-> o]
                               ELSE receipts[i]
        /\ \A i \in EventIds : receipts[i] # None => receipts'[i] = receipts[i]
    BY <1>1, <1>4, <2>1, AddReceiptStep
  <2>3. /\ wf.run = "RUNNING" /\ wf.active = a /\ a \in Attempts
        /\ claims[a] # 0 /\ o = claims[a] /\ attempts[a].status = "RUNNING"
    BY <1>1, <1>4, <2>1, StillRunning
  <2>4. Binds(e, a)
    BY <1>1, <2>1, DispatchOf DEF Good, Reading
  <2>5. PICK st : st = Ended[e.kind]
    OBVIOUS
  <2>6. st \in {"RESULT_RECORDED", "FAILED"}
    BY <2>2, <2>5 DEF Event, Kinds, Ended
  <2>7. PICK run \in {"READY", "BLOCKED"} : run = IF e.kind = "RESULT" THEN "READY" ELSE "BLOCKED"
    OBVIOUS
  <2>8. EndAttempt(st, run)
    BY <1>4, <2>1, <2>5, <2>7
  <2>9. /\ wf' \in Workflow /\ attempts' \in [Attempts -> Attempt] /\ Rows'
        /\ \A b \in Attempts : attempts'[b].status = IF b = a THEN st ELSE attempts[b].status
        /\ \A b \in Attempts :
             /\ Begun(b) => Begun(b)' /\ attempts'[b].context = attempts[b].context
             /\ Begun(b) /\ attempts[b].status # "RUNNING" => attempts'[b] = attempts[b]
    BY <1>1, <2>3, <2>6, <2>8, EndsAttempt
  <2>10. Stable
    BY <1>1, <2>2, <2>9 DEF Stable
  <2>11. RowTypes'
    BY <1>1, <2>2, <2>9 DEF Inv, RowTypes
  <2>12. ASSUME NEW i \in EventIds, receipts[i] # None
         PROVE  /\ Sound(i, receipts[i]) /\ receipts[i].event.attempt \in Attempts
                /\ Sound(i, receipts[i])' /\ receipts'[i] = receipts[i]
                /\ (Admitted(i) => receipts[i].event.attempt # a)
    <3>1. PICK r \in Receipt : r = receipts[i] /\ r = receipts'[i]
      BY <2>2, <2>12 DEF Inv, RowTypes
    <3>2. Sound(i, r)
      BY <2>12, <3>1, ReplayParts DEF Inv
    <3>3. r.event.attempt \in Attempts /\ Ended[r.event.kind] \in {"RESULT_RECORDED", "FAILED"}
      BY <3>1 DEF Receipt, Event, Kinds, Ended
    <3>4. r.disposition = "ADMITTED" =>
            /\ r.event.attempt # a
            /\ attempts'[r.event.attempt].status = attempts[r.event.attempt].status
      BY <2>3, <2>9, <3>2, <3>3 DEF Sound
    <3>5. Sound(i, receipts[i])'
      BY <1>1, <3>1, <3>2, <3>3, <3>4 DEF Sound
    <3> QED BY <3>1, <3>2, <3>3, <3>4, <3>5 DEF Admitted
  <2>13. e.id \in EventIds /\ receipts[e.id] = None /\ None \notin Receipt
    BY <1>4, <2>1, <2>2 DEF Event
  <2>14. PICK r : r = receipts'[e.id] /\ r.event = e /\ r.disposition = "ADMITTED" /\ r.observed = o
    BY <2>2, <2>13
  <2>15. r # None
    <3>1. o \in Nat
      BY <2>1, DispatchOf DEF Session
    <3>2. r = [event |-> e, disposition |-> "ADMITTED", observed |-> o]
      BY <2>2, <2>13, <2>14
    <3>3. r \in Receipt
      BY <2>2, <3>1, <3>2 DEF Receipt
    <3> QED BY <2>13, <3>3
  <2>16. Sound(e.id, receipts[e.id])'
    <3>1. claims[a] \in Nat
      BY <2>3 DEF Inv, RowTypes
    <3> QED BY <1>1, <2>3, <2>4, <2>5, <2>9, <2>14, <3>1 DEF Sound, Binds
  <2>17. Sole'
    <3>1. \A i \in EventIds : i # e.id /\ Admitted(i)' => Admitted(i) /\ receipts'[i] = receipts[i]
                                /\ receipts[i].event.attempt # a
      BY <2>2, <2>12 DEF Admitted
    <3>2. Sole
      BY ReplayParts DEF Inv
    <3>3. receipts'[e.id].event.attempt = a
      BY <2>4, <2>14 DEF Binds
    <3> QED BY <3>1, <3>2, <3>3 DEF Sole
  <2>18. ReplayAuthority'
    <3>1. ASSUME NEW i \in EventIds, receipts'[i] # None PROVE Sound(i, receipts[i])'
      BY <2>2, <2>12, <2>16, <3>1
    <3> QED BY <3>1, <2>17, ReplayPartsNext
  <2>19. (\E i \in EventIds : Admitted(i) /\ Binds(receipts[i].event, session[p].attempt))'
    <3>1. session'[p].attempt = a
      <4>1. PICK t \in Session : t = session[p]
        BY DispatchOf
      <4>2. session'[p] = [t EXCEPT !.step = "STREAM", !.event = None, !.observed = 0, !.tries = 0,
                                 !.admitted = @ \/ TRUE, !.control = @ \/ FALSE]
        BY <1>4, <4>1 DEF Answer, Become, Inv, Sessions
      <4> QED BY <2>1, <4>1, <4>2 DEF Session
    <3> QED BY <2>4, <2>13, <2>14, <2>15, <3>1 DEF Admitted, Binds
  <2>20. Inv'
    BY <1>1, <1>4, <2>9, <2>10, <2>11, <2>18, <2>19, AnswerStep
  <2> QED BY <2>10, <2>20
<1> QED BY <1>2, <1>3, <1>4 DEF CommitAdmitted

LEMMA EndStreamStep ==
  ASSUME Inv, NEW p \in Procs, EndStream(p) \/ BreakStream(p)
  PROVE  Inv'
<1>1. PICK t \in Session : t = session[p]
  BY DispatchOf
<1>3. t.step = "STREAM" /\ UNCHANGED Store /\ Good(t) /\ t.attempt \in Attempts
  BY <1>1, DispatchOf DEF EndStream, BreakStream
<1>4. PICK y \in {"PORT", "DONE"} : Goto(p, y) /\ (y = "DONE" => t.admitted \/ t.control \/ t.aborted)
  <2>1. CASE EndStream(p)
    BY <1>1, <2>1 DEF EndStream
  <2>2. CASE BreakStream(p)
    BY <2>2 DEF BreakStream
  <2> QED BY <2>1, <2>2
<1>5. PICK s \in Session : s = [t EXCEPT !.step = y]
  BY <1>4, SessionMoves DEF Steps
<1>6. Become(p, s)
  BY <1>1, <1>4, <1>5 DEF Goto
<1>7. s.step = y /\ s.attempt = t.attempt /\ s.admitted = t.admitted /\ s.aborted = t.aborted
      /\ s.control = t.control
  BY <1>5 DEF Session
<1>8. t.admitted => attempts[t.attempt].status # "RUNNING"
  <2> SUFFICES ASSUME t.admitted PROVE attempts[t.attempt].status # "RUNNING"
    OBVIOUS
  <2>1. PICK i \in EventIds : Admitted(i) /\ Binds(receipts[i].event, t.attempt)
    BY <1>3 DEF Good, Told
  <2>2. attempts[t.attempt].status = Ended[receipts[i].event.kind]
    BY <2>1 DEF Inv, ReplayAuthority, Admitted, Binds
  <2>3. Ended[receipts[i].event.kind] \in {"RESULT_RECORDED", "FAILED"}
    BY <2>1 DEF Inv, RowTypes, Admitted, Receipt, Event, Kinds, Ended
  <2> QED BY <2>2, <2>3
<1>9. t.aborted => attempts[t.attempt].status # "RUNNING"
  BY <1>3 DEF Good, Over
<1>10. s.step = "DONE" /\ ~s.control => attempts[s.attempt].status # "RUNNING"
  BY <1>4, <1>7, <1>8, <1>9
<1>11. Reading(s) /\ (y \in Streaming => t.step \in Streaming) /\ y \notin {"IDLE", "PREPARED", "CLAIMING"}
  BY <1>3, <1>4, <1>7 DEF Reading, Streaming
<1> QED BY <1>1, <1>3, <1>6, <1>7, <1>10, <1>11, QuietStep

LEMMA ReadPortStep ==
  ASSUME Inv, NEW p \in Procs, ReadPort(p)
  PROVE  Inv'
<1>1. PICK t \in Session : t = session[p]
  BY DispatchOf
<1>2. t.step = "PORT" /\ UNCHANGED Store /\ t.attempt \in Attempts
  BY <1>1, DispatchOf DEF ReadPort
<1>3. CASE Running(t.attempt)
  <2>1. wf.version = attempts[t.attempt].context /\ wf.version \in Nat
    BY <1>2, <1>3, RunningCurrent DEF Running, Current, Inv, RowTypes, Workflow
  <2>2. PICK u \in Session : u = [t EXCEPT !.step = "FAILING"]
    BY SessionMoves DEF Steps
  <2>3. PICK s \in Session : s = [u EXCEPT !.observed = wf.version]
    BY <2>1, SessionMoves
  <2>4. Become(p, s)
    BY <1>1, <1>3, <2>2, <2>3 DEF ReadPort
  <2>5. s.step = "FAILING" /\ s.attempt = t.attempt /\ s.admitted = t.admitted /\ s.aborted = t.aborted
        /\ s.observed = wf.version
    BY <2>2, <2>3 DEF Session
  <2>6. Reading(s) /\ {"FAILING", "PORT"} \subseteq Streaming
    BY <2>1, <2>5 DEF Reading, Streaming
  <2> QED BY <1>1, <1>2, <2>4, <2>5, <2>6, QuietStep
<1>4. CASE ~Running(t.attempt)
  <2>1. PICK s \in Session : s = [t EXCEPT !.step = "DONE"]
    BY SessionMoves DEF Steps
  <2>2. Become(p, s)
    BY <1>1, <1>4, <2>1 DEF ReadPort, Goto
  <2>3. s.step = "DONE" /\ s.attempt = t.attempt /\ s.admitted = t.admitted /\ s.aborted = t.aborted
    BY <2>1 DEF Session
  <2>4. Reading(s) /\ "DONE" \notin Streaming
    BY <2>3 DEF Reading, Streaming
  <2>5. attempts[t.attempt].status # "RUNNING"
    BY <1>2, <1>4, RunningCurrent
  <2> QED BY <1>1, <1>2, <2>2, <2>3, <2>4, <2>5, QuietStep
<1> QED BY <1>3, <1>4

LEMMA CommitPortStep ==
  ASSUME Inv, NEW p \in Procs, CommitPort(p)
  PROVE  Inv' /\ Stable
<1>1. PICK t \in Session : t = session[p]
  BY DispatchOf
<1>2. PICK a \in Attempts : a = t.attempt
  BY <1>1, DispatchOf DEF CommitPort
<1>3. t.step = "FAILING" /\ Good(t) /\ UNCHANGED <<claims, receipts>>
  BY <1>1, DispatchOf DEF CommitPort
<1>4. Stable /\ RowTypes' /\ Rows' /\ attempts'[a].status # "RUNNING"
  <2>1. CASE VersionCurrent(p)
    <3>1. EndAttempt("FAILED", "BLOCKED") /\ wf.run = "RUNNING" /\ wf.active = a
      BY <1>1, <1>2, <1>3, <2>1, StillRunning DEF CommitPort
    <3>2. /\ wf' \in Workflow /\ attempts' \in [Attempts -> Attempt] /\ Rows'
          /\ \A b \in Attempts : attempts'[b].status # "RUNNING"
          /\ \A b \in Attempts :
               /\ Begun(b) => Begun(b)' /\ attempts'[b].context = attempts[b].context
               /\ Begun(b) /\ attempts[b].status # "RUNNING" => attempts'[b] = attempts[b]
      BY <1>3, <3>1, EndsAttempt
    <3>3. Stable
      BY <1>3, <3>2 DEF Stable
    <3>4. RowTypes'
      BY <1>3, <3>2 DEF Inv, RowTypes
    <3> QED BY <3>2, <3>3, <3>4
  <2>2. CASE ~VersionCurrent(p)
    <3>1. UNCHANGED Store
      BY <1>3, <2>2 DEF CommitPort, Store
    <3>2. t.observed = attempts[a].context
      BY <1>2, <1>3 DEF Good, Reading
    <3>3. attempts[a].status # "RUNNING"
      BY <1>1, <2>2, <3>2, RunningCurrent DEF VersionCurrent, Current
    <3> QED BY <3>1, <3>3, StoreKept DEF Store
  <2> QED BY <2>1, <2>2
<1>5. ReplayAuthority'
  BY <1>3, <1>4, ReceiptsKept
<1>6. PICK u \in Session : u = [t EXCEPT !.step = "DONE"]
  BY SessionMoves DEF Steps
<1>7. PICK s \in Session : s = [u EXCEPT !.observed = 0]
  BY SessionMoves
<1>8. session' = [session EXCEPT ![p] = s]
  BY <1>1, <1>6, <1>7 DEF CommitPort, Become
<1>9. s.step = "DONE" /\ s.attempt = a /\ s.admitted = t.admitted /\ s.aborted = t.aborted
  BY <1>2, <1>6, <1>7 DEF Session
<1>10. Reading(s)' /\ "DONE" \notin Streaming
  BY <1>9 DEF Reading, Streaming
<1> QED BY <1>1, <1>2, <1>3, <1>4, <1>5, <1>8, <1>9, <1>10, Advance

LEMMA StoreFailsStep ==
  ASSUME Inv, NEW p \in Procs, StoreFails(p)
  PROVE  Inv'
<1>1. PICK t \in Session : t = session[p]
  BY DispatchOf
<1>2. UNCHANGED Store
  BY DEF StoreFails
<1>3. CASE t.step \in {"READ", "IGNORE", "ADMIT"} /\ Answer(p, FALSE, TRUE)
  BY <1>1, <1>2, <1>3, StoreKept, AnswerStep DEF Store
<1>4. CASE /\ t.step \in {"PREPARED", "CLAIMING", "PORT", "FAILING"}
           /\ Become(p, [session[p] EXCEPT !.step = "DONE", !.observed = 0, !.control = TRUE])
  <2>1. PICK u \in Session : u = [t EXCEPT !.step = "DONE"]
    BY SessionMoves DEF Steps
  <2>2. PICK v \in Session : v = [u EXCEPT !.observed = 0]
    BY SessionMoves
  <2>3. PICK s \in Session : s = [v EXCEPT !.control = TRUE]
    BY SessionMoves
  <2>4. Become(p, s)
    BY <1>1, <1>4, <2>1, <2>2, <2>3
  <2>5. s.step = "DONE" /\ s.attempt = t.attempt /\ s.admitted = t.admitted /\ s.aborted = t.aborted
        /\ s.control
    BY <2>1, <2>2, <2>3 DEF Session
  <2>6. Reading(s) /\ "DONE" \notin Streaming
    BY <2>5 DEF Reading, Streaming
  <2> QED BY <1>1, <1>2, <1>4, <2>4, <2>5, <2>6, QuietStep
<1> QED BY <1>1, <1>3, <1>4 DEF StoreFails

(* Only the version of the Workflow moves, while no Attempt runs. *)
LEMMA VersionMoves ==
  ASSUME Inv, wf.run # "RUNNING", NEW run \in {"READY", "CANCELLED"},
         wf' = [wf EXCEPT !.version = @ + 1, !.run = run], UNCHANGED <<attempts, claims, receipts>>
  PROVE  Stable /\ RowTypes' /\ Rows' /\ ReplayAuthority'
<1>1. wf \in Workflow
  BY DEF Inv, RowTypes
<1>2. wf' \in Workflow /\ wf'.version = wf.version + 1 /\ wf'.run = run /\ wf.version \in Nat
  <2>1. PICK v : v = [wf EXCEPT !.version = wf.version + 1]
    OBVIOUS
  <2>2. v \in Workflow /\ v.version = wf.version + 1 /\ wf.version \in Nat
    BY <1>1, <2>1 DEF Workflow
  <2>3. wf' = [v EXCEPT !.run = run]
    BY <2>1
  <2> QED BY <2>2, <2>3 DEF Workflow
<1>3. Stable
  BY DEF Stable, Begun
<1>4. RowTypes'
  BY <1>2 DEF Inv, RowTypes
<1>5. ASSUME NEW a \in Attempts
      PROVE  /\ attempts[a].status # "RUNNING"
             /\ Begun(a) => attempts[a].context < wf'.version
  <2>1. attempts[a].status # "RUNNING" /\ attempts[a].context \in Nat
    BY DEF Inv, Rows, RowTypes, Attempt
  <2>2. Begun(a) => attempts[a].context < wf.version
    BY <2>1 DEF Inv, Rows
  <2> QED BY <1>2, <2>1, <2>2
<1>6. Rows'
  BY <1>2, <1>5 DEF Inv, Rows, Begun
<1> QED BY <1>3, <1>4, <1>6, ReceiptsKept

LEMMA CancelGoalStep ==
  ASSUME Inv, NEW p \in Procs, CancelGoal(p)
  PROVE  Inv' /\ Stable
<1>1. PICK t \in Session : t = session[p]
  BY DispatchOf
<1>2. t.step \in {"IDLE", "STREAM", "DONE"} /\ Good(t) /\ UNCHANGED <<claims, receipts>>
  BY <1>1, DispatchOf DEF CancelGoal, Responsive
<1>3. Stable /\ RowTypes' /\ Rows' /\ ReplayAuthority'
      /\ \A b \in Attempts : attempts'[b].status # "RUNNING"
  <2>1. CASE wf.run = "RUNNING"
    <3>1. EndAttempt("INTERRUPTED", "CANCELLED")
      BY <2>1 DEF CancelGoal
    <3>2. /\ wf' \in Workflow /\ attempts' \in [Attempts -> Attempt] /\ Rows'
          /\ \A b \in Attempts : attempts'[b].status # "RUNNING"
          /\ \A b \in Attempts :
               /\ Begun(b) => Begun(b)' /\ attempts'[b].context = attempts[b].context
               /\ Begun(b) /\ attempts[b].status # "RUNNING" => attempts'[b] = attempts[b]
      BY <1>2, <2>1, <3>1, EndsAttempt
    <3>3. Stable
      BY <1>2, <3>2 DEF Stable
    <3>4. RowTypes'
      BY <1>2, <3>2 DEF Inv, RowTypes
    <3> QED BY <1>2, <3>2, <3>3, <3>4, ReceiptsKept
  <2>2. CASE wf.run # "RUNNING"
    <3>1. wf' = [wf EXCEPT !.version = @ + 1, !.run = "CANCELLED"] /\ UNCHANGED attempts
      BY <2>2 DEF CancelGoal
    <3>2. Stable /\ RowTypes' /\ Rows' /\ ReplayAuthority'
      BY <1>2, <2>2, <3>1, VersionMoves
    <3> QED BY <2>2, <3>1, <3>2 DEF Inv, Rows
  <2> QED BY <2>1, <2>2
<1>4. PICK x \in BOOLEAN : x = (t.aborted \/ t.step = "STREAM")
  OBVIOUS
<1>5. PICK s \in Session : s = [t EXCEPT !.aborted = x]
  BY SessionMoves
<1>6. session' = [session EXCEPT ![p] = s]
  BY <1>1, <1>4, <1>5 DEF CancelGoal, Become
<1>7. s.step = t.step /\ s.attempt = t.attempt /\ s.admitted = t.admitted /\ s.aborted = x
      /\ s.control = t.control /\ s.event = t.event /\ s.observed = t.observed
  BY <1>5 DEF Session
<1>8. Good(t)'
  BY <1>2, <1>3, GoodStable DEF Inv, Good, Claimed
<1>9. Good(s)'
  <2>1. Placed(s)'
    BY <1>2, <1>4, <1>7, <1>8 DEF Good, Placed, Begun
  <2>2. Claimed(s)' /\ Reading(s)'
    BY <1>7, <1>8 DEF Good, Claimed, Reading, Binds
  <2>3. Told(s)'
    BY <1>7, <1>8 DEF Good, Told, Admitted, Binds
  <2>4. Over(s)'
    <3>1. t.step # "IDLE" => attempts'[t.attempt].status # "RUNNING"
      BY <1>2, <1>3 DEF Good, Placed
    <3>2. t.step = "IDLE" => ~x
      BY <1>2, <1>4 DEF Good, Placed
    <3> QED BY <1>7, <3>1, <3>2 DEF Over
  <2> QED BY <2>1, <2>2, <2>3, <2>4 DEF Good
<1>10. Sessions' /\ Exclusive'
  BY <1>1, <1>2, <1>3, <1>6, <1>7, <1>9, SessionStep
<1> QED BY <1>3, <1>10 DEF Inv

LEMMA QuietSession == Quiet \in Session
<1>1. 0 \in 0..MaxDeliveries /\ 0 \in 0..MaxAttempts /\ 0 \in 0..1 /\ "IDLE" \in Steps
      /\ None \in Events \union {None}
  BY DEF DispatchAssumption, Steps
<1> QED BY <1>1 DEF Quiet, Session

LEMMA OtherStep ==
  ASSUME Inv, NEW p \in Procs, StartupRecovery(p) \/ ResumeGoal(p) \/ Crash(p)
  PROVE  Inv' /\ Stable
<1>1. CASE StartupRecovery(p)
  <2>1. EndAttempt("INTERRUPTED", "BLOCKED") /\ wf.run = "RUNNING"
        /\ UNCHANGED <<claims, receipts, session>>
    BY <1>1 DEF StartupRecovery
  <2>2. /\ wf' \in Workflow /\ attempts' \in [Attempts -> Attempt] /\ Rows'
        /\ \A b \in Attempts :
             /\ Begun(b) => Begun(b)' /\ attempts'[b].context = attempts[b].context
             /\ Begun(b) /\ attempts[b].status # "RUNNING" => attempts'[b] = attempts[b]
    BY <2>1, EndsAttempt
  <2>3. Stable
    BY <2>1, <2>2 DEF Stable
  <2>4. RowTypes'
    BY <2>1, <2>2 DEF Inv, RowTypes
  <2>5. ReplayAuthority' /\ Sessions' /\ Exclusive'
    BY <2>1, <2>3, ReceiptsKept, SessionsKept
  <2> QED BY <2>2, <2>3, <2>4, <2>5 DEF Inv
<1>2. CASE ResumeGoal(p)
  <2>1. /\ wf.run # "RUNNING" /\ wf' = [wf EXCEPT !.version = @ + 1, !.run = "READY"]
        /\ UNCHANGED <<attempts, claims, receipts, session>>
    BY <1>2 DEF ResumeGoal
  <2>2. Stable /\ RowTypes' /\ Rows' /\ ReplayAuthority'
    BY <2>1, VersionMoves
  <2>3. Sessions' /\ Exclusive'
    BY <2>1, <2>2, SessionsKept
  <2> QED BY <2>2, <2>3 DEF Inv
<1>3. CASE Crash(p)
  <2>1. UNCHANGED Store /\ session' = [session EXCEPT ![p] = Quiet]
    BY <1>3 DEF Crash, Become
  <2>2. PICK s \in Session : s = Quiet
    <3>1. Quiet \in Session
      BY QuietSession
    <3> QED BY <3>1
  <2>3. s.step = "IDLE" /\ s.attempt = 0 /\ ~s.admitted /\ ~s.aborted
    BY <2>2 DEF Quiet
  <2>4. Good(s)'
    BY <2>3 DEF Good, Placed, Claimed, Reading, Told, Over, Streaming
  <2>5. Stable /\ RowTypes' /\ Rows' /\ ReplayAuthority'
    BY <2>1, StoreKept
  <2>6. Sessions' /\ Exclusive'
    BY <2>1, <2>2, <2>3, <2>4, <2>5, SessionStep DEF Store
  <2> QED BY <2>5, <2>6 DEF Inv
<1> QED BY <1>1, <1>2, <1>3

(* A new Attempt is nobody's yet, and nobody claimed it. *)
LEMMA BeginAttemptStep ==
  ASSUME Inv, NEW p \in Procs, BeginAttempt(p)
  PROVE  Inv' /\ Stable
<1>1. PICK a \in Attempts :
        /\ ~Begun(a)
        /\ attempts' = [attempts EXCEPT ![a] = [status |-> "RUNNING", context |-> wf.version + 1]]
        /\ wf' = [version |-> wf.version + 1, active |-> a, run |-> "RUNNING"]
        /\ session' = [session EXCEPT ![p] = [Quiet EXCEPT !.step = "PREPARED", !.attempt = a]]
  BY DEF BeginAttempt, Become
<1>2. wf.run # "RUNNING" /\ wf.version \in Nat /\ claims[a] = 0 /\ UNCHANGED <<claims, receipts>>
  BY <1>1 DEF BeginAttempt, Inv, RowTypes, Workflow, Rows
<1>3. PICK row \in Attempt : row = [status |-> "RUNNING", context |-> wf.version + 1]
  <2>1. wf.version + 1 \in Nat
    BY <1>2
  <2> QED BY <2>1 DEF Attempt
<1>4. \A b \in Attempts : attempts'[b] = IF b = a THEN row ELSE attempts[b]
  BY <1>1, <1>3 DEF Inv, RowTypes
<1>5. Stable
  BY <1>1, <1>2, <1>4 DEF Stable, Begun
<1>6. RowTypes'
  <2>1. wf' \in Workflow
    BY <1>1, <1>2 DEF Workflow
  <2>2. attempts' \in [Attempts -> Attempt]
    BY <1>1, <1>3 DEF Inv, RowTypes
  <2> QED BY <1>2, <2>1, <2>2 DEF Inv, RowTypes
<1>7. Rows'
  <2>1. wf'.run = "RUNNING" /\ wf'.active = a /\ wf'.version = wf.version + 1
    BY <1>1
  <2>2. attempts'[a].status = "RUNNING" /\ attempts'[a].context = wf.version + 1
    BY <1>3, <1>4
  <2>3. ASSUME NEW b \in Attempts, b # a
        PROVE  /\ attempts'[b].status # "RUNNING"
               /\ Begun(b)' => attempts'[b].context < wf'.version
               /\ claims'[b] # 0 => Begun(b)' /\ claims'[b] = attempts'[b].context
    <3>1. attempts'[b] = attempts[b] /\ attempts[b].context \in Nat
      BY <1>4, <2>3 DEF Inv, RowTypes, Attempt
    <3>2. Begun(b) => attempts[b].context < wf.version
      BY <1>2 DEF Inv, Rows
    <3>3. Begun(b) => attempts[b].context < wf.version + 1
      BY <1>2, <3>1, <3>2
    <3> QED BY <1>2, <2>1, <3>1, <3>3 DEF Inv, Rows, Begun
  <2> QED BY <1>2, <2>1, <2>2, <2>3 DEF Rows
<1>8. ReplayAuthority'
  BY <1>2, <1>5, ReceiptsKept
<1>9. PICK s \in Session : s = [Quiet EXCEPT !.step = "PREPARED", !.attempt = a]
  <2>1. PICK u \in Session : u = [Quiet EXCEPT !.step = "PREPARED"]
    BY QuietSession, SessionMoves DEF Steps
  <2>2. [u EXCEPT !.attempt = a] \in Session
    <3>1. a \in 0..MaxAttempts
      OBVIOUS
    <3> QED BY <3>1, <2>1 DEF Session
  <2> QED BY <2>1, <2>2
<1>10. s.step = "PREPARED" /\ s.attempt = a /\ s.admitted = FALSE /\ s.aborted = FALSE
  BY <1>9 DEF Quiet
<1>11. Good(s)'
  BY <1>2, <1>3, <1>4, <1>10 DEF Good, Placed, Claimed, Reading, Told, Over, Streaming, Begun
<1>12. \A q \in Procs : session'[q] = IF q = p THEN s ELSE session[q]
  BY <1>1, <1>9 DEF Inv, Sessions
<1>13. ASSUME NEW q \in Procs PROVE Good(session[q])'
  <2>1. PICK t \in Session : t = session'[q]
    BY <1>12, DispatchOf
  <2>2. Good(t)'
    <3>1. CASE q = p
      BY <1>11, <1>12, <2>1, <3>1
    <3>2. CASE q # p
      <4>1. t = session[q]
        BY <1>12, <2>1, <3>2
      <4>2. Good(t)
        BY <4>1, DispatchOf
      <4> QED BY <1>2, <1>5, <4>2, GoodStable DEF Inv, Good, Claimed
    <3> QED BY <3>1, <3>2
  <2> QED BY <2>1, <2>2 DEF Good, Placed, Claimed, Reading, Told, Over, Begun, Binds, Admitted
<1>14. Exclusive'
  <2>1. \A q \in Procs : session[q].step # "IDLE" => session[q].attempt # a
    BY <1>1, DispatchOf DEF Good, Placed
  <2> QED BY <1>10, <1>12, <2>1 DEF Inv, Exclusive
<1>15. session' \in [Procs -> Session]
  BY <1>1, <1>9 DEF Inv, Sessions
<1> QED BY <1>5, <1>6, <1>7, <1>8, <1>13, <1>14, <1>15 DEF Inv, Sessions

LEMMA InitInv == Init => Inv
<1> SUFFICES ASSUME Init PROVE Inv
  OBVIOUS
<1>1. RowTypes
  BY DEF Init, RowTypes, Workflow, Attempt, NoAttempt
<1>2. Rows
  BY DEF Init, Rows, NoAttempt, Begun
<1>3. ReplayAuthority
  BY DEF Init, ReplayAuthority
<1>4. \A p \in Procs : session[p] = Quiet
  BY DEF Init
<1>5. Quiet.step = "IDLE" /\ Quiet.attempt = 0 /\ ~Quiet.admitted /\ ~Quiet.aborted
  BY DEF Quiet
<1>6. Good(Quiet)
  BY <1>5 DEF Good, Placed, Claimed, Reading, Told, Over, Streaming
<1>7. Sessions
  BY <1>4, <1>6, QuietSession DEF Init, Sessions
<1>8. Exclusive
  BY <1>4, <1>5 DEF Exclusive
<1> QED BY <1>1, <1>2, <1>3, <1>7, <1>8 DEF Inv

(* A claim is made of a current Attempt, by the one step that makes claims. *)
ClaimCurrent ==
  \A a \in Attempts : claims[a] = 0 /\ claims'[a] # 0 => Current(a) /\ claims'[a] = attempts[a].context

LEMMA StepInv ==
  ASSUME Inv, [Next]_vars
  PROVE  Inv' /\ Stable /\ ClaimCurrent
<1>1. CASE UNCHANGED vars
  <2>1. UNCHANGED Store /\ UNCHANGED session /\ UNCHANGED claims
    BY <1>1 DEF vars, Store
  <2> QED BY <2>1, StoreKept, SessionsKept DEF Inv, ClaimCurrent
<1>2. CASE Next
  <2>1. PICK p \in Procs :
          \/ Step(p) \/ BeginAttempt(p) \/ (\E e \in Events : Deliver(p, e)) \/ BreakStream(p)
          \/ StoreFails(p) \/ CancelGoal(p) \/ StartupRecovery(p) \/ ResumeGoal(p) \/ Crash(p)
    BY <1>2 DEF Next
  <2>2. CASE \/ ReadDispatch(p) \/ ReadEvent(p) \/ EndStream(p) \/ BreakStream(p) \/ ReadPort(p)
             \/ StoreFails(p) \/ \E e \in Events : Deliver(p, e)
    <3>1. UNCHANGED Store
      BY <2>2 DEF ReadDispatch, ReadEvent, EndStream, BreakStream, ReadPort, StoreFails, Deliver
    <3>2. Inv'
      BY <2>2, ReadDispatchStep, ReadEventStep, EndStreamStep, ReadPortStep, StoreFailsStep, DeliverStep
    <3> QED BY <3>1, <3>2, StoreKept DEF Store, ClaimCurrent
  <2>3. CASE CommitClaim(p)
    <3>1. ClaimCurrent
      BY <2>3 DEF CommitClaim, ClaimCurrent, Current, Inv, RowTypes
    <3> QED BY <2>3, <3>1, CommitClaimStep
  <2>4. CASE CommitIgnored(p) \/ CommitAdmitted(p) \/ CommitPort(p)
    <3>1. UNCHANGED claims
      BY <2>4 DEF CommitIgnored, CommitAdmitted, CommitPort
    <3> QED BY <2>4, <3>1, CommitIgnoredStep, CommitAdmittedStep, CommitPortStep DEF ClaimCurrent
  <2>5. CASE BeginAttempt(p) \/ CancelGoal(p) \/ StartupRecovery(p) \/ ResumeGoal(p) \/ Crash(p)
    <3>1. UNCHANGED claims
      BY <2>5 DEF BeginAttempt, CancelGoal, StartupRecovery, ResumeGoal, Crash, Store
    <3> QED BY <2>5, <3>1, BeginAttemptStep, CancelGoalStep, OtherStep DEF ClaimCurrent
  <2> QED BY <2>1, <2>2, <2>3, <2>4, <2>5 DEF Step
<1> QED BY <1>1, <1>2

THEOREM InvCorrect == Spec => []Inv
<1>1. Inv /\ [Next]_vars => Inv'
  BY StepInv
<1> QED BY <1>1, InitInv, PTL DEF Spec

-----------------------------------------------------------------------------
(* The theorems *)

(* Every row and every dispatch in memory stays within its type. *)
THEOREM DispatchTypeCorrect == Spec => []TypeOK
<1>1. Inv => TypeOK
  BY DEF Inv, RowTypes, Sessions, TypeOK
<1> QED BY <1>1, InvCorrect, PTL

(* What a replay asserts of the retained rows holds whatever raced with the   *)
(* admission: claims, receipts and the ends of Attempts agree.                *)
THEOREM ReplayCorrect == Spec => []ReplayAuthority
<1>1. Inv => ReplayAuthority
  BY DEF Inv
<1> QED BY <1>1, InvCorrect, PTL

(* A driver done with a dispatch leaves no Attempt running, unless the        *)
(* control plane failed it, with any number of deliveries and processes.      *)
THEOREM StreamCorrect == Spec => []StreamEndsAttempt
<1>1. Inv => StreamEndsAttempt
  BY DispatchOf DEF StreamEndsAttempt, Good, Over, Placed, Running
<1> QED BY <1>1, InvCorrect, PTL

(* A stream counts as terminated only by an event of its own dispatch. *)
THEOREM TerminalDispatchCorrect == Spec => []TerminalForDispatch
<1>1. Inv => TerminalForDispatch
  BY DispatchOf DEF TerminalForDispatch, Good, Told
<1> QED BY <1>1, InvCorrect, PTL

(* A worker runs only for a claim made of a current Attempt; claims, receipts *)
(* and the ends of Attempts are never revised by any step.                    *)
THEOREM DecidedCorrect == Spec => DecidedOnce
<1>1. Inv /\ [Next]_vars =>
        [/\ \A a \in Attempts :
              /\ claims[a] # 0 => claims'[a] = claims[a]
              /\ claims[a] = 0 /\ claims'[a] # 0 => Current(a) /\ claims'[a] = attempts[a].context
              /\ attempts[a].status \notin {"NONE", "RUNNING"} => attempts'[a] = attempts[a]
         /\ \A i \in EventIds : receipts[i] # None => receipts'[i] = receipts[i]]_vars
  BY StepInv DEF Stable, ClaimCurrent, Begun
<1> QED BY <1>1, InvCorrect, PTL DEF Spec, DecidedOnce
=============================================================================
