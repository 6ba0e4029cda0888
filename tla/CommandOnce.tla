---------------------------- MODULE CommandOnce ----------------------------
(***************************************************************************)
(* What the kernel promises the callers of its commands.  A command has an *)
(* identity chosen by its caller.  At most one request is ever executed    *)
(* under an identity; its verdict is recorded with its effect in one step; *)
(* and whoever asks again, from whatever process, is told that verdict.    *)
(***************************************************************************)
EXTENDS Naturals

CONSTANTS Ids, Requests, None

VARIABLES
  record,   \* per identity, the executed request and its verdict, or None
  effects,  \* per identity, how often it changed the control rows
  told      \* what callers were told: requests with a recorded verdict

vars == <<record, effects, told>>

Verdicts == {"APPLIED", "REJECTED"}

Init ==
  /\ record = [id \in Ids |-> None]
  /\ effects = [id \in Ids |-> 0]
  /\ told = {}

Execute(r, verdict) ==
  /\ record[r.id] = None
  /\ record' = [record EXCEPT ![r.id] = [request |-> r, verdict |-> verdict]]
  /\ effects' = [effects EXCEPT ![r.id] = IF verdict = "APPLIED" THEN @ + 1 ELSE @]
  /\ UNCHANGED told

Tell(r) ==
  /\ record[r.id] # None /\ record[r.id].request = r
  /\ told' = told \union {[request |-> r, verdict |-> record[r.id].verdict]}
  /\ UNCHANGED <<record, effects>>

Next == \E r \in Requests : (\E verdict \in Verdicts : Execute(r, verdict)) \/ Tell(r)

Spec == Init /\ [][Next]_vars
=============================================================================
