-------------------------- MODULE CommandExecution --------------------------
(***************************************************************************)
(* executeCommand: how a kernel command becomes durable.  The kernel looks *)
(* the command identity up, reads the authority, plans, and commits in a   *)
(* transaction that looks the identity up again and refuses the plan if the*)
(* Workflow version moved.  A refused commit starts over once.  Several    *)
(* processes do this at the same store; any of them may die at any point,  *)
(* and callers repeat a request they got no answer to, in any process.     *)
(*                                                                         *)
(* What a command does to the rows is not modelled here (WorkflowControl   *)
(* does): a commit has an effect, and it advances the version or not.      *)
(***************************************************************************)
EXTENDS Naturals

CONSTANTS
  Procs,       \* the processes that opened the data home
  Ids,         \* command identities
  Bodies,      \* what a command asks for, its type and its target included
  Appending,   \* the bodies that only add rows: evaluate, configure
  None,
  MaxVersion   \* bound of the Workflow version

ASSUME CommandAssumption ==
  /\ Appending \subseteq Bodies
  /\ MaxVersion \in Nat \ {0}

\* The input digest covers the body and the version the caller expects.
Requests == [id : Ids, body : Bodies, expected : 1..MaxVersion]

\* APPLIED and REJECTED are recorded verdicts, the other replies leave no trace.
Verdicts == {"APPLIED", "REJECTED"}
Replies == Verdicts \union {"CONFLICT", "EXHAUSTED", "FAILED"}
Steps == {"IDLE", "LOOKUP", "PLAN", "COMMIT", "REPLY"}

VARIABLES
  version,    \* Workflow.version
  processed,  \* the processed_commands table: per identity a row or None
  effects,    \* per identity, the number of commits that changed rows
  answers,    \* the replies callers received, the uninformative FAILED apart
  call        \* per process, the execution in progress

vars == <<version, processed, effects, answers, call>>

Row == [request : Requests, verdict : Verdicts, at : 1..MaxVersion]
ASSUME NoneIsNoRow ==
  None \notin Row \union Requests \union [request : Requests, verdict : Verdicts]
Answer == [request : Requests, reply : Replies]
Call == [step : Steps, request : Requests \union {None}, tries : 0..1,
         observed : 0..MaxVersion, reply : Replies \union {"NONE"}]
Quiet == [step |-> "IDLE", request |-> None, tries |-> 0, observed |-> 0, reply |-> "NONE"]

TypeOK ==
  /\ version \in 1..MaxVersion
  /\ processed \in [Ids -> Row \union {None}]
  /\ effects \in [Ids -> Nat]
  /\ answers \subseteq Answer
  /\ call \in [Procs -> Call]
-----------------------------------------------------------------------------
Request(p) == call[p].request

\* Mutant: the replay check compares the identity but not the input digest.
SameIdentity(row, r) == row.request.id = r.id

\* checkCommand and preflightReplay compare identity, digest and target.
SameCommand(row, r) == row.request = r

ReplyWith(p, reply) ==
  call' = [call EXCEPT ![p] = [@ EXCEPT !.step = "REPLY", !.reply = reply]]

\* What an existing row answers.
Replay(p) ==
  LET row == processed[Request(p).id] IN
  ReplyWith(p, IF SameCommand(row, Request(p)) THEN row.verdict ELSE "CONFLICT")

\* Mutant: a command is not compared with the version its caller expects.
AlwaysFresh(p) == TRUE

\* commandFreshnessError.
Fresh(p) == Request(p).expected = version

\* Mutant: the optimistic check is left out.
NeverMoved(p) == TRUE

\* The optimistic check of the transaction.
VersionCurrent(p) == call[p].observed = version

\* The second refusal is answered, not recorded.
StartOver(p) ==
  IF call[p].tries = 0
  THEN call' = [call EXCEPT ![p] = [Quiet EXCEPT !.step = "LOOKUP", !.request = Request(p),
                                                 !.tries = 1]]
  ELSE ReplyWith(p, "EXHAUSTED")

\* One transaction: the row of the command, its effect, the version.
Record(p, verdict) ==
  LET r == Request(p)
      changes == verdict = "APPLIED" IN
  /\ processed' = [processed EXCEPT ![r.id] =
                     [request |-> r, verdict |-> verdict, at |-> version]]
  /\ effects' = [effects EXCEPT ![r.id] = IF changes THEN @ + 1 ELSE @]
  /\ IF changes /\ r.body \notin Appending
     THEN version < MaxVersion /\ version' = version + 1
     ELSE UNCHANGED version
  /\ ReplyWith(p, verdict)

Unrecorded == UNCHANGED <<version, processed, effects>>
-----------------------------------------------------------------------------
\* A caller knows a version from having read it.
Submit(p, r) ==
  /\ call[p].step = "IDLE" /\ r.expected <= version
  /\ call' = [call EXCEPT ![p] = [Quiet EXCEPT !.step = "LOOKUP", !.request = r]]
  /\ Unrecorded /\ UNCHANGED answers

\* preflightReplay, in a read of its own.
LookUp(p) ==
  /\ call[p].step = "LOOKUP"
  /\ IF processed[Request(p).id] # None
     THEN Replay(p)
     ELSE call' = [call EXCEPT ![p].step = "PLAN"]
  /\ Unrecorded /\ UNCHANGED answers

\* resolveAuthority, then plan: whether the domain accepts it is left open.
MakePlan(p) ==
  /\ call[p].step = "PLAN"
  /\ \E verdict \in Verdicts :
       /\ verdict = "APPLIED" => Fresh(p)
       /\ call' = [call EXCEPT ![p] = [@ EXCEPT !.step = "COMMIT", !.observed = version,
                                               !.reply = verdict]]
  /\ Unrecorded /\ UNCHANGED answers

\* Mutant: the row of the command is upserted without looking it up again.
CommitUpserts(p) ==
  /\ call[p].step = "COMMIT"
  /\ \/ ~VersionCurrent(p) /\ StartOver(p) /\ Unrecorded
     \/ VersionCurrent(p) /\ Record(p, call[p].reply)
  /\ UNCHANGED answers

Commit(p) ==
  /\ call[p].step = "COMMIT"
  /\ LET unused == processed[Request(p).id] = None IN
     \/ ~unused /\ Replay(p) /\ Unrecorded
     \/ unused /\ ~VersionCurrent(p) /\ StartOver(p) /\ Unrecorded
     \/ unused /\ VersionCurrent(p) /\ Record(p, call[p].reply)
  /\ UNCHANGED answers

\* A read, the planning or the transaction throws; the transaction rolls back.
Fail(p) ==
  /\ call[p].step \in {"LOOKUP", "PLAN", "COMMIT"}
  /\ ReplyWith(p, "FAILED")
  /\ Unrecorded /\ UNCHANGED answers

Return(p) ==
  /\ call[p].step = "REPLY"
  /\ answers' = IF call[p].reply = "FAILED" THEN answers
                ELSE answers \union {[request |-> Request(p), reply |-> call[p].reply]}
  /\ call' = [call EXCEPT ![p] = Quiet]
  /\ Unrecorded

\* The process dies, before the commit or between the commit and the answer.
Crash(p) ==
  /\ call[p].step # "IDLE"
  /\ call' = [call EXCEPT ![p] = Quiet]
  /\ Unrecorded /\ UNCHANGED answers

Init ==
  /\ version = 1
  /\ processed = [id \in Ids |-> None]
  /\ effects = [id \in Ids |-> 0]
  /\ answers = {}
  /\ call = [p \in Procs |-> Quiet]

Next ==
  \E p \in Procs :
    \/ \E r \in Requests : Submit(p, r)
    \/ LookUp(p) \/ MakePlan(p) \/ Commit(p) \/ Fail(p) \/ Return(p) \/ Crash(p)

Spec == Init /\ [][Next]_vars
-----------------------------------------------------------------------------
(* Properties *)

Applied(id) == processed[id] # None /\ processed[id].verdict = "APPLIED"

(* A command that took effect did so at the very version its caller expected, *)
(* although that version was read twice and the commit may have been a second *)
(* try; a command that was recorded otherwise changed nothing.                *)
AppliedFresh ==
  \A id \in Ids :
    /\ Applied(id) => processed[id].at = processed[id].request.expected
    /\ effects[id] = IF Applied(id) THEN 1 ELSE 0

(* Two commands never both consume one version: of those that were issued for *)
(* the same version and took effect, at most one moved the workflow on.       *)
OneWinnerPerVersion ==
  \A i, j \in {id \in Ids : Applied(id)} :
    i # j /\ processed[i].request.expected = processed[j].request.expected
      => processed[i].request.body \in Appending \/ processed[j].request.body \in Appending

(* Replies stay true.  A verdict told is the recorded one for ever; a         *)
(* conflict is told only when another request owns the identity; and a caller *)
(* told that its retry is exhausted never finds the command applied later.    *)
RepliesStayTrue ==
  \A a \in answers :
    LET row == processed[a.request.id] IN
    /\ a.reply \in Verdicts =>
         row # None /\ row.request = a.request /\ row.verdict = a.reply
    /\ a.reply = "CONFLICT" => row # None /\ row.request # a.request
    /\ a.reply = "EXHAUSTED" => ~(Applied(a.request.id) /\ row.request = a.request)

(* The kernel keeps the promise of CommandOnce.                               *)
Once == INSTANCE CommandOnce WITH
  record <- [id \in Ids |->
               IF processed[id] = None THEN None
               ELSE [request |-> processed[id].request, verdict |-> processed[id].verdict]],
  told <- {[request |-> a.request, verdict |-> a.reply] :
             a \in {b \in answers : b.reply \in Verdicts}}
ExecutesOnce == Once!Spec
=============================================================================
