----------------------- MODULE CommandExecutionProofs -----------------------
(* Theorems about CommandExecution for any number of processes, identities    *)
(* and commands.                                                              *)
EXTENDS CommandExecution, TLAPS

USE CommandAssumption, NoneIsNoRow

-----------------------------------------------------------------------------
(* The inductive invariant *)

(* An execution in progress is of a request its caller could make; what it    *)
(* planned to apply is for the version it read, and a second try comes after  *)
(* the expected version has passed.                                           *)
Execution(c) ==
  c.step # "IDLE" =>
    /\ c.request \in Requests /\ c.request.expected <= version
    /\ c.tries = 1 => c.request.expected < version
    /\ c.step = "COMMIT" =>
         /\ c.reply \in Verdicts
         /\ c.request.expected <= c.observed /\ c.observed <= version
         /\ c.reply = "APPLIED" => c.request.expected = c.observed
    /\ c.step = "REPLY" => c.reply \in Replies

(* A reply is true, and an exhausted request is out of date.                  *)
TrueReply(r, reply) ==
  LET row == processed[r.id] IN
  /\ reply \in Verdicts => row # None /\ row.request = r /\ row.verdict = reply
  /\ reply = "CONFLICT" => row # None /\ row.request # r
  /\ reply = "EXHAUSTED" => /\ ~(Applied(r.id) /\ row.request = r)
                            /\ r.expected < version

Executions == \A p \in Procs : Execution(call[p])
PendingReplies ==
  \A p \in Procs : call[p].step = "REPLY" => TrueReply(call[p].request, call[p].reply)
GivenReplies == \A a \in answers : TrueReply(a.request, a.reply)
RowsBind == \A id \in Ids : processed[id] # None => processed[id].request.id = id
Advanced ==
  \A id \in Ids :
    Applied(id) /\ processed[id].request.body \notin Appending
      => processed[id].request.expected < version

Inv == /\ TypeOK /\ Executions /\ PendingReplies /\ GivenReplies /\ RowsBind
       /\ AppliedFresh /\ Advanced /\ OneWinnerPerVersion

-----------------------------------------------------------------------------
(* Steps that leave the store alone *)

LEMMA StoreKept ==
  ASSUME UNCHANGED <<version, processed, effects>>
  PROVE  /\ RowsBind => RowsBind'
         /\ AppliedFresh => AppliedFresh'
         /\ Advanced => Advanced'
         /\ OneWinnerPerVersion => OneWinnerPerVersion'
         /\ \A r, reply : TrueReply(r, reply) => TrueReply(r, reply)'
         /\ \A c : Execution(c) => Execution(c)'
<1>1. \A id : Applied(id)' <=> Applied(id)
  BY DEF Applied
<1>2. RowsBind => RowsBind'
  BY DEF RowsBind
<1>3. AppliedFresh => AppliedFresh'
  BY <1>1 DEF AppliedFresh
<1>4. Advanced => Advanced'
  BY <1>1 DEF Advanced
<1>5. OneWinnerPerVersion => OneWinnerPerVersion'
  BY <1>1 DEF OneWinnerPerVersion
<1>6. ASSUME NEW r, NEW reply, TrueReply(r, reply) PROVE TrueReply(r, reply)'
  BY <1>1, <1>6 DEF TrueReply
<1>7. ASSUME NEW c, Execution(c) PROVE Execution(c)'
  BY <1>7 DEF Execution
<1> QED BY <1>2, <1>3, <1>4, <1>5, <1>6, <1>7
LEMMA CallKept ==
  ASSUME Inv, NEW p \in Procs, NEW c \in Call, call' = [call EXCEPT ![p] = c],
         UNCHANGED <<version, processed, effects, answers>>,
         Execution(c), c.step = "REPLY" => TrueReply(c.request, c.reply)
  PROVE  Inv'
<1>1. TypeOK'
  BY DEF Inv, TypeOK
<1>2. \A q \in Procs : call'[q] = IF q = p THEN c ELSE call[q]
  BY DEF Inv, TypeOK
<1>3. Executions'
  BY <1>2, StoreKept DEF Inv, Executions
<1>4. PendingReplies'
  BY <1>2, StoreKept DEF Inv, PendingReplies
<1>5. GivenReplies'
  BY StoreKept DEF Inv, GivenReplies
<1> QED BY <1>1, <1>3, <1>4, <1>5, StoreKept DEF Inv

(* A reply to the request of process p. *)
LEMMA ReplyKept ==
  ASSUME Inv, NEW p \in Procs, NEW reply \in Replies, call[p].step # "IDLE",
         ReplyWith(p, reply), TrueReply(Request(p), reply),
         UNCHANGED <<version, processed, effects, answers>>
  PROVE  Inv'
<1> DEFINE c == [call[p] EXCEPT !.step = "REPLY", !.reply = reply]
<1>1. call[p] \in Call
  BY DEF Inv, TypeOK
<1>2. c \in Call
  BY <1>1 DEF Call, Steps
<1>3. c.step = "REPLY" /\ c.reply = reply /\ c.request = call[p].request /\ c.tries = call[p].tries
  BY <1>1 DEF Call
<1>4. call' = [call EXCEPT ![p] = c]
  BY DEF ReplyWith
<1> HIDE DEF c
<1>5. Execution(c)
  BY <1>3 DEF Inv, Executions, Execution
<1> QED BY <1>2, <1>3, <1>4, <1>5, CallKept DEF Request

LEMMA ReplayKept ==
  ASSUME Inv, NEW p \in Procs, call[p].step # "IDLE", processed[Request(p).id] # None,
         Replay(p), UNCHANGED <<version, processed, effects, answers>>
  PROVE  Inv'
<1> DEFINE row == processed[Request(p).id]
<1>1. Request(p) \in Requests /\ Request(p).id \in Ids
  BY DEF Inv, Executions, Execution, Request, Requests
<1>2. row \in Row
  BY <1>1 DEF Inv, TypeOK
<1>3. CASE row.request = Request(p)
  <2>1. ReplyWith(p, row.verdict) /\ row.verdict \in Verdicts
    BY <1>2, <1>3 DEF Replay, SameCommand, Row
  <2>2. TrueReply(Request(p), row.verdict)
    BY <1>3, <2>1 DEF TrueReply, Verdicts
  <2> QED BY <2>1, <2>2, ReplyKept DEF Replies
<1>4. CASE row.request # Request(p)
  <2>1. ReplyWith(p, "CONFLICT")
    BY <1>4 DEF Replay, SameCommand
  <2>2. TrueReply(Request(p), "CONFLICT")
    BY <1>4 DEF TrueReply, Verdicts
  <2> QED BY <2>1, <2>2, ReplyKept DEF Replies
<1> QED BY <1>3, <1>4

LEMMA QuietType ==
  Quiet \in Call /\ Quiet.step = "IDLE" /\ Quiet.tries = 0
  BY DEF Quiet, Call, Steps

(* Updates of a call, field by field. *)
LEMMA CallFields ==
  ASSUME NEW c \in Call, NEW step \in Steps
  PROVE  /\ [c EXCEPT !.step = step] \in Call
         /\ \A r \in Requests : [c EXCEPT !.step = step, !.request = r] \in Call
         /\ \A r \in Requests : [c EXCEPT !.step = step, !.request = r, !.tries = 1] \in Call
         /\ \A v \in 0..MaxVersion, reply \in Replies :
              [c EXCEPT !.step = step, !.observed = v, !.reply = reply] \in Call
<1>1. [c EXCEPT !.step = step] \in Call
  BY DEF Call
<1>2. ASSUME NEW r \in Requests
      PROVE  /\ [c EXCEPT !.step = step, !.request = r] \in Call
             /\ [c EXCEPT !.step = step, !.request = r, !.tries = 1] \in Call
  <2>1. r \in Requests \union {None} /\ 1 \in 0..1
    OBVIOUS
  <2> DEFINE R == Requests \union {None}
             Y == Replies \union {"NONE"}
  <2>2. r \in R /\ Call = [step : Steps, request : R, tries : 0..1,
                           observed : 0..MaxVersion, reply : Y]
    BY <2>1 DEF Call
  <2> HIDE DEF R, Y
  <2>3. [c EXCEPT !.step = step, !.request = r] \in Call
    BY <2>2
  <2>4. [c EXCEPT !.step = step, !.request = r, !.tries = 1] \in Call
    BY <2>1, <2>2
  <2> QED BY <2>3, <2>4
<1>3. ASSUME NEW v \in 0..MaxVersion, NEW reply \in Replies
      PROVE  [c EXCEPT !.step = step, !.observed = v, !.reply = reply] \in Call
  BY DEF Call
<1> QED BY <1>1, <1>2, <1>3

LEMMA QuietKept ==
  ASSUME Inv, NEW p \in Procs, call' = [call EXCEPT ![p] = Quiet],
         UNCHANGED <<version, processed, effects, answers>>
  PROVE  Inv'
  BY QuietType, CallKept DEF Execution

LEMMA SubmitKept ==
  ASSUME Inv, NEW p \in Procs, NEW r \in Requests, Submit(p, r) PROVE Inv'
<1> DEFINE c == [Quiet EXCEPT !.step = "LOOKUP", !.request = r]
<1>1. c \in Call
  BY QuietType, CallFields DEF Steps
<1>3. c.step = "LOOKUP" /\ c.request = r /\ c.tries = 0
  BY DEF Quiet
<1>2. call' = [call EXCEPT ![p] = c] /\ r.expected <= version
  BY DEF Submit
<1> HIDE DEF c
<1>4. Execution(c)
  BY <1>2, <1>3 DEF Execution
<1> QED BY <1>1, <1>2, <1>3, <1>4, CallKept DEF Submit, Unrecorded

LEMMA LookUpKept ==
  ASSUME Inv, NEW p \in Procs, LookUp(p) PROVE Inv'
<1>1. CASE processed[Request(p).id] # None
  BY <1>1, ReplayKept DEF LookUp, Unrecorded
<1>2. CASE processed[Request(p).id] = None
  <2> DEFINE c == [call[p] EXCEPT !.step = "PLAN"]
  <2>1. call[p] \in Call
    BY DEF Inv, TypeOK
  <2>2. c \in Call /\ c.step = "PLAN" /\ c.request = call[p].request /\ c.tries = call[p].tries
    BY <2>1 DEF Call, Steps
  <2>3. call' = [call EXCEPT ![p] = c] /\ Execution(call[p]) /\ call[p].step = "LOOKUP"
    BY <1>2 DEF LookUp, Inv, Executions
  <2> HIDE DEF c
  <2>4. Execution(c)
    BY <2>2, <2>3 DEF Execution
  <2> QED BY <2>2, <2>3, <2>4, CallKept DEF LookUp, Unrecorded
<1> QED BY <1>1, <1>2

LEMMA PlanKept ==
  ASSUME Inv, NEW p \in Procs, MakePlan(p) PROVE Inv'
<1>1. PICK verdict \in Verdicts :
        /\ verdict = "APPLIED" => Fresh(p)
        /\ call' = [call EXCEPT ![p] = [call[p] EXCEPT !.step = "COMMIT", !.observed = version,
                                                       !.reply = verdict]]
  BY DEF MakePlan
<1> DEFINE c == [call[p] EXCEPT !.step = "COMMIT", !.observed = version, !.reply = verdict]
<1>2. call[p] \in Call /\ version \in 1..MaxVersion
  BY DEF Inv, TypeOK
<1>6. version \in 0..MaxVersion /\ verdict \in Replies
  BY <1>2 DEF Replies
<1>7. c \in Call
  BY <1>2, <1>6, CallFields DEF Steps
<1>3. /\ c.step = "COMMIT" /\ c.request = call[p].request
      /\ c.tries = call[p].tries /\ c.observed = version /\ c.reply = verdict
  BY <1>2 DEF Call
<1>4. call' = [call EXCEPT ![p] = c] /\ Execution(call[p]) /\ call[p].step = "PLAN"
  BY <1>1 DEF MakePlan, Inv, Executions
<1> HIDE DEF c
<1>5. Execution(c)
  BY <1>1, <1>2, <1>3, <1>4 DEF Execution, Fresh, Request
<1> QED BY <1>3, <1>4, <1>5, <1>7, CallKept DEF MakePlan, Unrecorded

LEMMA StartOverKept ==
  ASSUME Inv, NEW p \in Procs, call[p].step = "COMMIT", processed[Request(p).id] = None,
         ~VersionCurrent(p), StartOver(p), UNCHANGED <<version, processed, effects, answers>>
  PROVE  Inv'
<1>1. /\ call[p] \in Call /\ Request(p) \in Requests /\ Request(p).expected \in Nat
      /\ version \in Nat /\ call[p].observed \in Nat
  BY DEF Inv, TypeOK, Executions, Execution, Request, Requests, Call
<1>2. Request(p).expected < version
  BY <1>1 DEF Inv, Executions, Execution, VersionCurrent, Request
<1>3. CASE call[p].tries = 0
  <2> DEFINE c == [Quiet EXCEPT !.step = "LOOKUP", !.request = Request(p), !.tries = 1]
  <2>1. c \in Call
    BY <1>1, QuietType, CallFields DEF Steps
  <2>3. c.step = "LOOKUP" /\ c.request = Request(p) /\ c.tries = 1
    BY DEF Quiet
  <2>2. call' = [call EXCEPT ![p] = c]
    BY <1>3 DEF StartOver
  <2> HIDE DEF c
  <2>4. Execution(c)
    BY <1>1, <1>2, <2>3 DEF Execution
  <2> QED BY <2>1, <2>2, <2>3, <2>4, CallKept
<1>4. CASE call[p].tries # 0
  <2>1. TrueReply(Request(p), "EXHAUSTED")
    BY <1>2 DEF TrueReply, Applied, Verdicts
  <2> QED BY <1>4, <2>1, ReplyKept DEF StartOver, Replies
<1> QED BY <1>3, <1>4
-----------------------------------------------------------------------------
(* The step that writes the store *)

(* A new row leaves every true reply true. *)
LEMMA RecordReplies ==
  ASSUME Inv, NEW p \in Procs, NEW verdict \in Verdicts, call[p].step = "COMMIT",
         call[p].reply = verdict, processed[Request(p).id] = None, VersionCurrent(p),
         Record(p, verdict)
  PROVE  /\ version' \in 1..MaxVersion /\ version <= version'
         /\ Request(p) \in Requests
         /\ processed' = [processed EXCEPT ![Request(p).id] =
                            [request |-> Request(p), verdict |-> verdict, at |-> version]]
         /\ verdict = "APPLIED" => Request(p).expected = version
         /\ \A r : r = Request(p) => TrueReply(r, verdict)'
         /\ \A r \in Requests, reply \in Replies : TrueReply(r, reply) => TrueReply(r, reply)'
<1> DEFINE row == [request |-> Request(p), verdict |-> verdict, at |-> version]
<1>1. version \in 1..MaxVersion /\ call[p] \in Call
  BY DEF Inv, TypeOK
<1>2. /\ Request(p) \in Requests /\ Request(p).id \in Ids
      /\ verdict = "APPLIED" => Request(p).expected = version
  BY DEF Inv, Executions, Execution, Request, Requests, VersionCurrent
<1>3. version' \in 1..MaxVersion /\ version <= version'
  BY <1>1 DEF Record
<1>4. processed' = [processed EXCEPT ![Request(p).id] = row]
  BY DEF Record
<1>5. row \in Row /\ row.request = Request(p) /\ row.verdict = verdict
  BY <1>1, <1>2 DEF Row
<1> HIDE DEF row
<1>6. row # None
  BY <1>5
<1>7. processed'[Request(p).id] = row
  BY <1>2, <1>4 DEF Inv, TypeOK
<1>8. \A id \in Ids : id # Request(p).id => processed'[id] = processed[id]
  BY <1>4 DEF Inv, TypeOK
<1>9. ASSUME NEW r, r = Request(p) PROVE TrueReply(r, verdict)'
  BY <1>5, <1>6, <1>7, <1>9 DEF TrueReply, Verdicts
<1>10. ASSUME NEW r \in Requests, NEW reply \in Replies, TrueReply(r, reply)
       PROVE  TrueReply(r, reply)'
  <2>1. r.id \in Ids /\ r.expected \in Nat /\ version \in Nat /\ version' \in Nat
    BY <1>1, <1>3 DEF Requests
  <2>2. CASE r.id # Request(p).id
    BY <1>3, <1>8, <1>10, <2>1, <2>2 DEF TrueReply, Applied
  <2>3. CASE r.id = Request(p).id
    <3>1. reply \notin Verdicts /\ reply # "CONFLICT"
      BY <1>10, <2>3 DEF TrueReply
    <3>2. CASE reply = "EXHAUSTED"
      <4>1. r.expected < version
        BY <1>10, <3>2 DEF TrueReply
      <4>2. ~(row.verdict = "APPLIED" /\ row.request = r)
        BY <1>2, <1>5, <2>1, <4>1
      <4> QED BY <1>3, <1>7, <2>1, <2>3, <3>1, <4>1, <4>2 DEF TrueReply, Applied
    <3>3. CASE reply # "EXHAUSTED"
      BY <3>1, <3>3 DEF TrueReply
    <3> QED BY <3>2, <3>3
  <2> QED BY <2>2, <2>3
<1> QED BY <1>2, <1>3, <1>4, <1>9, <1>10 DEF row

LEMMA RecordKept ==
  ASSUME Inv, NEW p \in Procs, NEW verdict \in Verdicts, call[p].step = "COMMIT",
         call[p].reply = verdict, processed[Request(p).id] = None, VersionCurrent(p),
         Record(p, verdict), UNCHANGED answers
  PROVE  Inv'
<1> DEFINE r == Request(p)
           c == [call[p] EXCEPT !.step = "REPLY", !.reply = verdict]
           row == [request |-> r, verdict |-> verdict, at |-> version]
<1>1. /\ version' \in 1..MaxVersion /\ version <= version' /\ version \in 1..MaxVersion
      /\ r \in Requests /\ r.id \in Ids /\ r.expected \in Nat
      /\ processed' = [processed EXCEPT ![r.id] = row]
      /\ verdict = "APPLIED" => r.expected = version
  BY RecordReplies DEF Inv, TypeOK, Requests
<1>2. row \in Row /\ row.request = r /\ row.verdict = verdict /\ row.at = version
  BY <1>1 DEF Row
<1>3. call[p] \in Call /\ verdict \in Replies
  BY DEF Inv, TypeOK, Replies
<1>4. /\ c \in Call /\ c.step = "REPLY" /\ c.reply = verdict /\ c.request = r
      /\ c.tries = call[p].tries
  BY <1>3 DEF Call, Steps, Request
<1>5. call' = [call EXCEPT ![p] = c]
  BY DEF Record, ReplyWith
<1>6. effects' = [effects EXCEPT ![r.id] = IF verdict = "APPLIED" THEN effects[r.id] + 1
                                                                 ELSE effects[r.id]]
  BY DEF Record
<1>7. verdict = "APPLIED" /\ r.body \notin Appending => version' = version + 1
  BY DEF Record
<1> HIDE DEF r, c, row
<1>8. /\ processed'[r.id] = row /\ row # None
      /\ \A id \in Ids : id # r.id => processed'[id] = processed[id]
  BY <1>1, <1>2 DEF Inv, TypeOK
<1>9. TypeOK'
  <2>1. call' \in [Procs -> Call]
    BY <1>4, <1>5 DEF Inv, TypeOK
  <2>2. processed' \in [Ids -> Row \union {None}]
    BY <1>1, <1>2 DEF Inv, TypeOK
  <2>3. effects' \in [Ids -> Nat]
    BY <1>1, <1>6 DEF Inv, TypeOK
  <2> QED BY <1>1, <2>1, <2>2, <2>3 DEF Inv, TypeOK
<1>10. \A q \in Procs : call'[q] = IF q = p THEN c ELSE call[q]
  BY <1>5 DEF Inv, TypeOK
<1>11. Executions'
  <2>1. ASSUME NEW q \in Procs, Execution(call[q]) PROVE Execution(call[q])'
    <3>1. CASE q = p
      <4>1. r.expected <= version
        BY <2>1, <3>1 DEF Execution, r, Request
      <4>2. call[p].tries = 1 => r.expected < version
        BY <2>1, <3>1 DEF Execution, r, Request
      <4> QED BY <1>1, <1>3, <1>4, <1>10, <3>1, <4>1, <4>2 DEF Execution
    <3>2. CASE q # p
      <4>1. call[q] \in Call
        BY DEF Inv, TypeOK
      <4>2. call[q].step # "IDLE" => call[q].request.expected \in Nat
        BY <2>1 DEF Execution, Requests
      <4>3. call[q].observed \in Nat
        BY <4>1 DEF Call
      <4> QED BY <1>1, <1>10, <2>1, <3>2, <4>2, <4>3 DEF Execution
    <3> QED BY <3>1, <3>2
  <2> QED BY <2>1 DEF Inv, Executions
<1>12. PendingReplies'
  <2>1. ASSUME NEW q \in Procs, call'[q].step = "REPLY"
        PROVE  TrueReply(call[q].request, call[q].reply)'
    <3>1. CASE q = p
      <4>1. call'[q].request = r /\ call'[q].reply = verdict
        BY <1>4, <1>10, <3>1
      <4>2. \A x : x = r => TrueReply(x, verdict)'
        BY RecordReplies DEF r
      <4>3. PICK x : x = r
        OBVIOUS
      <4>4. TrueReply(x, verdict)'
        BY <4>2, <4>3
      <4> QED BY <4>1, <4>3, <4>4 DEF TrueReply, Applied
    <3>2. CASE q # p
      <4>1. call'[q] = call[q] /\ call[q].request \in Requests /\ call[q].reply \in Replies \union {"NONE"}
        BY <1>10, <2>1, <3>2 DEF Inv, TypeOK, Executions, Execution, Call
      <4>2. TrueReply(call[q].request, call[q].reply)
        BY <2>1, <4>1 DEF Inv, PendingReplies
      <4>3. CASE call[q].reply = "NONE"
        BY <4>1, <4>3 DEF TrueReply, Verdicts
      <4>4. CASE call[q].reply # "NONE"
        BY <4>1, <4>2, <4>4, RecordReplies
      <4> QED BY <4>3, <4>4
    <3> QED BY <3>1, <3>2
  <2> QED BY <2>1 DEF PendingReplies
<1>13. GivenReplies'
  BY RecordReplies DEF Inv, TypeOK, GivenReplies, Answer
<1>14. \A id \in Ids : Applied(id)' <=> IF id = r.id THEN verdict = "APPLIED" ELSE Applied(id)
  BY <1>2, <1>8 DEF Applied
<1>15. RowsBind'
  BY <1>2, <1>8 DEF Inv, RowsBind
<1>16. AppliedFresh'
  <2>1. effects[r.id] = 0
    BY <1>1 DEF Inv, AppliedFresh, Applied, r
  <2>2. \A id \in Ids : effects'[id] = IF id = r.id
                          THEN (IF verdict = "APPLIED" THEN 1 ELSE 0) ELSE effects[id]
    BY <1>1, <1>6, <2>1 DEF Inv, TypeOK
  <2> QED BY <1>1, <1>2, <1>8, <1>14, <2>2 DEF Inv, AppliedFresh
<1>17. \A id \in Ids : Applied(id) => processed[id].request.expected \in Nat
  BY DEF Inv, TypeOK, Applied, Row, Requests
<1>18. Advanced'
  BY <1>1, <1>2, <1>7, <1>8, <1>14, <1>17 DEF Inv, Advanced
<1>19. OneWinnerPerVersion'
  BY <1>1, <1>2, <1>8, <1>14, <1>17 DEF Inv, Advanced, OneWinnerPerVersion
<1> QED BY <1>9, <1>11, <1>12, <1>13, <1>15, <1>16, <1>18, <1>19 DEF Inv

-----------------------------------------------------------------------------
(* The invariant *)

LEMMA CommitKept ==
  ASSUME Inv, NEW p \in Procs, Commit(p) PROVE Inv'
<1>1. CASE processed[Request(p).id] # None
  BY <1>1, ReplayKept DEF Commit, Unrecorded
<1>2. CASE processed[Request(p).id] = None /\ ~VersionCurrent(p)
  BY <1>2, StartOverKept DEF Commit, Unrecorded
<1>3. CASE processed[Request(p).id] = None /\ VersionCurrent(p)
  <2>1. call[p].reply \in Verdicts
    BY DEF Commit, Inv, Executions, Execution
  <2> QED BY <1>3, <2>1, RecordKept DEF Commit
<1> QED BY <1>1, <1>2, <1>3

LEMMA FailKept ==
  ASSUME Inv, NEW p \in Procs, Fail(p) PROVE Inv'
<1>1. TrueReply(Request(p), "FAILED")
  BY DEF TrueReply, Verdicts
<1> QED BY <1>1, ReplyKept DEF Fail, Unrecorded, Replies

LEMMA ReturnKept ==
  ASSUME Inv, NEW p \in Procs, Return(p) PROVE Inv'
<1> DEFINE a == [request |-> Request(p), reply |-> call[p].reply]
<1>1. call' = [call EXCEPT ![p] = Quiet] /\ UNCHANGED <<version, processed, effects>>
  BY DEF Return, Unrecorded
<1>2. TrueReply(Request(p), call[p].reply)
  BY DEF Return, Inv, PendingReplies, Request
<1>3. Request(p) \in Requests /\ call[p].step = "REPLY"
  BY DEF Return, Inv, Executions, Execution, Request
<1>4. call[p].reply \in Replies \union {"NONE"}
  BY DEF Inv, TypeOK, Call
<1>5. \A q \in Procs : call'[q] = IF q = p THEN Quiet ELSE call[q]
  BY <1>1 DEF Inv, TypeOK
<1>6. Executions'
  BY <1>1, <1>5, QuietType, StoreKept DEF Inv, Executions, Execution
<1>7. PendingReplies'
  BY <1>1, <1>5, QuietType, StoreKept DEF Inv, PendingReplies
<1>8. answers' \subseteq Answer \/ call[p].reply = "NONE"
  BY <1>3, <1>4 DEF Return, Inv, TypeOK, Answer
<1>9. call[p].reply # "NONE"
  <2>1. call[p].reply \in Replies
    BY <1>3 DEF Inv, Executions, Execution
  <2> QED BY <2>1 DEF Replies, Verdicts
<1>10. TypeOK'
  BY <1>1, <1>8, <1>9, QuietType DEF Inv, TypeOK
<1>11. GivenReplies'
  <2>1. \A b \in answers' : b \in answers \/ b = a
    BY DEF Return
  <2>2. \A b \in answers' : TrueReply(b.request, b.reply)
    BY <1>2, <2>1 DEF Inv, GivenReplies
  <2>3. ASSUME NEW b \in answers' PROVE TrueReply(b.request, b.reply)'
    BY <1>1, <2>2, StoreKept
  <2> QED BY <2>3 DEF GivenReplies
<1> QED BY <1>1, <1>6, <1>7, <1>10, <1>11, StoreKept DEF Inv

LEMMA InitInv == Init => Inv
<1> SUFFICES ASSUME Init PROVE Inv
  OBVIOUS
<1>1. TypeOK
  BY QuietType DEF Init, TypeOK
<1>2. Executions /\ PendingReplies
  BY QuietType DEF Init, Executions, Execution, PendingReplies
<1> QED BY <1>1, <1>2 DEF Init, Inv, GivenReplies, RowsBind, AppliedFresh, Advanced,
                          OneWinnerPerVersion, Applied

LEMMA StepInv == Inv /\ [Next]_vars => Inv'
<1> SUFFICES ASSUME Inv, [Next]_vars PROVE Inv'
  OBVIOUS
<1>1. CASE UNCHANGED vars
  <2>1. /\ UNCHANGED <<version, processed, effects>> /\ call' = call /\ answers' = answers
    BY <1>1 DEF vars
  <2>2. TypeOK' /\ Executions' /\ PendingReplies' /\ GivenReplies'
    BY <2>1, StoreKept DEF Inv, TypeOK, Executions, PendingReplies, GivenReplies
  <2> QED BY <2>1, <2>2, StoreKept DEF Inv
<1>2. ASSUME NEW p \in Procs, NEW r \in Requests, Submit(p, r) PROVE Inv'
  BY <1>2, SubmitKept
<1>3. ASSUME NEW p \in Procs, LookUp(p) PROVE Inv'
  BY <1>3, LookUpKept
<1>4. ASSUME NEW p \in Procs, MakePlan(p) PROVE Inv'
  BY <1>4, PlanKept
<1>5. ASSUME NEW p \in Procs, Commit(p) PROVE Inv'
  BY <1>5, CommitKept
<1>6. ASSUME NEW p \in Procs, Fail(p) PROVE Inv'
  BY <1>6, FailKept
<1>7. ASSUME NEW p \in Procs, Return(p) PROVE Inv'
  BY <1>7, ReturnKept
<1>8. ASSUME NEW p \in Procs, Crash(p) PROVE Inv'
  BY <1>8, QuietKept DEF Crash, Unrecorded
<1> QED BY <1>1, <1>2, <1>3, <1>4, <1>5, <1>6, <1>7, <1>8 DEF Next

LEMMA Invariance == Spec => []Inv
  BY InitInv, StepInv, PTL DEF Spec

(* Every variable keeps its type. *)
THEOREM CommandTypeCorrect == Spec => []TypeOK
<1>1. Inv => TypeOK
  BY DEF Inv
<1> QED BY <1>1, Invariance, PTL

(* An applied command took effect once, at the version its caller expected;   *)
(* any other recorded command changed nothing (executeCommand, checkCommand). *)
THEOREM FreshCorrect == Spec => []AppliedFresh
<1>1. Inv => AppliedFresh
  BY DEF Inv
<1> QED BY <1>1, Invariance, PTL

(* No two commands both consume one version of the Workflow, however many     *)
(* processes race for it (updateWorkflow's compare-and-set).                  *)
THEOREM WinnerCorrect == Spec => []OneWinnerPerVersion
<1>1. Inv => OneWinnerPerVersion
  BY DEF Inv
<1> QED BY <1>1, Invariance, PTL

(* No reply of executeCommand is ever falsified by what happens later.        *)
THEOREM RepliesCorrect == Spec => []RepliesStayTrue
<1>1. Inv => RepliesStayTrue
  BY DEF Inv, GivenReplies, TrueReply, RepliesStayTrue
<1> QED BY <1>1, Invariance, PTL
-----------------------------------------------------------------------------
(* Refinement of CommandOnce *)

Shown == [id \in Ids |->
            IF processed[id] = None THEN None
            ELSE [request |-> processed[id].request, verdict |-> processed[id].verdict]]
Told == {[request |-> a.request, verdict |-> a.reply] :
           a \in {b \in answers : b.reply \in Verdicts}}

(* A step that writes no row tells nothing or tells a recorded verdict.       *)
LEMMA Stutters ==
  ASSUME UNCHANGED <<processed, effects, answers>>
  PROVE  UNCHANGED Once!vars
  BY DEF Once!vars

LEMMA RecordExecutes ==
  ASSUME Inv, NEW p \in Procs, NEW verdict \in Verdicts, call[p].step = "COMMIT",
         call[p].reply = verdict, processed[Request(p).id] = None, VersionCurrent(p),
         Record(p, verdict), UNCHANGED answers
  PROVE  \E r \in Requests : Once!Execute(r, verdict)
<1> DEFINE row == [request |-> Request(p), verdict |-> verdict, at |-> version]
<1>1. PICK r \in Requests : r = Request(p)
  BY RecordReplies
<1>2. r.id \in Ids
  BY DEF Requests
<1>3. processed' = [processed EXCEPT ![r.id] = row]
  BY <1>1 DEF Record
<1>4. row \in Row /\ row.request = r /\ row.verdict = verdict
  BY <1>1 DEF Inv, TypeOK, Row
<1> HIDE DEF row
<1>5. row # None
  BY <1>4
<1>6. /\ processed'[r.id] = row
      /\ \A id \in Ids : id # r.id => processed'[id] = processed[id]
  BY <1>2, <1>3 DEF Inv, TypeOK
<1>7. Shown' = [Shown EXCEPT ![r.id] = [request |-> r, verdict |-> verdict]]
  BY <1>2, <1>4, <1>5, <1>6 DEF Shown
<1>8. Shown[r.id] = None
  BY <1>1, <1>2 DEF Shown
<1>9. effects' = [effects EXCEPT ![r.id] = IF verdict = "APPLIED" THEN effects[r.id] + 1
                                                                  ELSE effects[r.id]]
  BY <1>1 DEF Record
<1>10. Told' = Told
  BY DEF Told
<1>11. Once!Execute(r, verdict)
  BY <1>7, <1>8, <1>9, <1>10 DEF Once!Execute, Shown, Told
<1> QED BY <1>11

LEMMA ReturnTells ==
  ASSUME Inv, NEW p \in Procs, Return(p)
  PROVE  (\E r \in Requests : Once!Tell(r)) \/ UNCHANGED Once!vars
<1>1. UNCHANGED <<processed, effects>>
  BY DEF Return, Unrecorded
<1>2. PICK r \in Requests : r = Request(p)
  BY DEF Return, Inv, Executions, Execution, Request
<1>3. PICK reply : reply = call[p].reply
  OBVIOUS
<1>4. CASE reply \in Verdicts
  <2>1. /\ processed[r.id] # None /\ processed[r.id].request = r
        /\ processed[r.id].verdict = reply /\ r.id \in Ids
    BY <1>2, <1>3, <1>4 DEF Return, Inv, PendingReplies, TrueReply, Request, Requests
  <2>2. answers' = answers \union {[request |-> r, reply |-> reply]}
    BY <1>2, <1>3, <1>4 DEF Return, Verdicts
  <2> DEFINE Kept == {b \in answers : b.reply \in Verdicts}
             a == [request |-> r, reply |-> reply]
  <2>6. {b \in answers' : b.reply \in Verdicts} = Kept \union {a}
    BY <1>4, <2>2
  <2>7. Told' = {[request |-> b.request, verdict |-> b.reply] : b \in Kept \union {a}}
    BY <2>6 DEF Told
  <2>8. Told = {[request |-> b.request, verdict |-> b.reply] : b \in Kept}
    BY DEF Told
  <2>9. a.request = r /\ a.reply = reply
    OBVIOUS
  <2> HIDE DEF Kept, a
  <2>3. Told' = Told \union {[request |-> r, verdict |-> reply]}
    BY <2>7, <2>8, <2>9
  <2>4. /\ Shown[r.id] = [request |-> r, verdict |-> reply] /\ Shown' = Shown
        /\ [request |-> r, verdict |-> reply] # None
    BY <1>1, <1>4, <2>1 DEF Shown
  <2>5. Once!Tell(r)
    BY <1>1, <2>3, <2>4 DEF Once!Tell, Shown, Told
  <2> QED BY <2>5
<1>5. CASE reply \notin Verdicts
  <2>1. Told' = Told
    BY <1>2, <1>3, <1>5 DEF Return, Told
  <2> QED BY <1>1, <2>1 DEF Once!vars, Told
<1> QED BY <1>4, <1>5

LEMMA StepRefines == Inv /\ [Next]_vars => [Once!Next]_Once!vars
<1> SUFFICES ASSUME Inv, [Next]_vars PROVE Once!Next \/ UNCHANGED Once!vars
  OBVIOUS
<1>1. CASE UNCHANGED vars
  BY <1>1, Stutters DEF vars
<1>2. ASSUME NEW p \in Procs, NEW r \in Requests, Submit(p, r) PROVE UNCHANGED Once!vars
  BY <1>2, Stutters DEF Submit, Unrecorded
<1>3. ASSUME NEW p \in Procs, LookUp(p) \/ MakePlan(p) \/ Fail(p) \/ Crash(p)
      PROVE  UNCHANGED Once!vars
  BY <1>3, Stutters DEF LookUp, MakePlan, Fail, Crash, Unrecorded
<1>4. ASSUME NEW p \in Procs, Return(p) PROVE Once!Next \/ UNCHANGED Once!vars
  BY <1>4, ReturnTells DEF Once!Next
<1>5. ASSUME NEW p \in Procs, Commit(p) PROVE Once!Next \/ UNCHANGED Once!vars
  <2>1. CASE Unrecorded
    BY <1>5, <2>1, Stutters DEF Commit, Unrecorded
  <2>2. CASE processed[Request(p).id] = None /\ VersionCurrent(p) /\ Record(p, call[p].reply)
    <3>1. PICK verdict \in Verdicts : verdict = call[p].reply
      BY <1>5 DEF Commit, Inv, Executions, Execution
    <3>2. \E r \in Requests : Once!Execute(r, verdict)
      BY <1>5, <2>2, <3>1, RecordExecutes DEF Commit
    <3> QED BY <3>2 DEF Once!Next, Once!Verdicts, Verdicts
  <2> QED BY <1>5, <2>1, <2>2 DEF Commit
<1> QED BY <1>1, <1>2, <1>3, <1>4, <1>5 DEF Next

(* The kernel keeps CommandOnce's promise: one execution per identity, and    *)
(* every caller is told its recorded verdict.                                 *)
THEOREM OnceCorrect == Spec => ExecutesOnce
<1>1. Init => Once!Init
  BY DEF Init, Once!Init
<1> QED BY <1>1, StepRefines, Invariance, PTL DEF Spec, ExecutesOnce, Once!Spec
=============================================================================
