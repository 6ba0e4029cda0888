------------------------- MODULE CandidateWorkspace -------------------------
(***************************************************************************)
(* The local Candidate workspace under the Workflow Runtime kernel: each   *)
(* generation has a directory and, outside it, an ownership record that    *)
(* says in which phase the directory is and which leases are out.  The     *)
(* record is a file, the generation row is in the store, and no            *)
(* transaction spans them: a command first writes the record and then      *)
(* commits, and a process may die or lose its race in between.             *)
(*                                                                         *)
(* WorkflowControl's `source` is what a directory holds.  Every action     *)
(* here is an action of WorkflowControl together with what the workspace   *)
(* does under it.  A record is read and rewritten without a lock: each     *)
(* operation that is one synchronous call is one step, except the freeze,  *)
(* which scans the tree twice and rewrites the record it read first.       *)
(***************************************************************************)
EXTENDS WorkflowControl

VARIABLE records  \* the ownership record of each generation

\* writers: Attempts with an active MUTABLE lease; readers: READ_ONLY leases.
Record == [phase : {"NONE", "MUTABLE", "FROZEN", "UNSAFE"},
           manifest : Digests \union {None},
           writers : SUBSET Attempts, readers : Nat]
NewRecord == [phase |-> "MUTABLE", manifest |-> None, writers |-> {}, readers |-> 0]
NoRecord == [NewRecord EXCEPT !.phase = "NONE"]

RecordsInit == records = [g \in Generations |-> NoRecord]

-----------------------------------------------------------------------------
(* What the workspace answers, and what it writes *)

\* Mutant: the leases already out are not looked at.
MayWriteBeside(g) == records[g].phase = "MUTABLE"

\* issueLease, MUTABLE: an open tree that no other Attempt is writing.
MayWrite(g) == records[g].phase = "MUTABLE" /\ records[g].writers = {}

IssueWriter(g, a) == records' = [records EXCEPT ![g].writers = @ \union {a}]
ReleaseWriter(g, a) == records' = [records EXCEPT ![g].writers = @ \ {a}]

\* issueLease, READ_ONLY: the tree still holds the frozen identity of the row.
MayRead(g) ==
  /\ records[g].phase = "FROZEN" /\ records[g].manifest = gens[g].frozen
  /\ source[g] = records[g].manifest

IssueReader(g) == records' = [records EXCEPT ![g].readers = @ + 1]

\* assertLeaseCurrent for the READ_ONLY lease of a verification session.
ReaderCurrent(g) ==
  /\ records[g].readers > 0 /\ records[g].phase = "FROZEN"
  /\ source[g] = gens[g].frozen

\* observeFrozen reads the tree only for the row its record is about.
Observable(g) == records[g].phase = "FROZEN" /\ records[g].manifest = gens[g].frozen

\* A tree that changed makes its record UNSAFE, whatever becomes of the command.
MarkObserved(g) ==
  records' = IF source[g] = records[g].manifest THEN records
             ELSE [records EXCEPT ![g].phase = "UNSAFE", ![g].manifest = None]

\* observeFreeze starts by revoking every lease.
Revoke(g) == records' = [records EXCEPT ![g].writers = {}, ![g].readers = 0]

\* Mutant: the manifest is recorded but the tree stays open.
RecordManifestOnly(g, first, second) ==
  records' = [records EXCEPT ![g].manifest = second]

\* Its last write: FROZEN with the manifest if both scans agree, else UNSAFE.
FreezeRecord(g, first, second) ==
  records' = [records EXCEPT ![g] =
    IF first = second THEN [NewRecord EXCEPT !.phase = "FROZEN", !.manifest = second]
                      ELSE [NewRecord EXCEPT !.phase = "UNSAFE"]]

-----------------------------------------------------------------------------
(* The commands of the kernel with the workspace under them *)

\* The directory is copied and recorded before the generation row is committed.
PrepareWorkspace(g, d) ==
  PrepareCandidate(g, d) /\ records' = [records EXCEPT ![g] = NewRecord]

\* The first scan; a record that is no longer MUTABLE refuses the freeze, and
\* the kernel takes that for a source that cannot be observed.
ObserveFreeze(p) ==
  \/ records[wf.gen].phase = "MUTABLE" /\ BeginFreeze(p) /\ Revoke(wf.gen)
  \/ /\ records[wf.gen].phase # "MUTABLE"
     /\ OwnedAttempt("SOURCE_FREEZE") /\ ActiveState("FREEZING")
     /\ Begin(p, [Planned("FREEZE", source[wf.gen]) EXCEPT !.result = "PASS"])
     /\ Observed
     /\ UNCHANGED records

\* The second scan.  The record is rewritten from the copy the call read first.
FreezeVerdict(p) ==
  SecondReading(p) /\ FreezeRecord(plan[p].gen, plan[p].first, plan'[p].second)

ConfigureWorkspace(p) ==
  ConfigureLocalVerification(p) /\ MayRead(wf.gen) /\ IssueReader(wf.gen)

\* assertLeaseCurrent has just read the tree that the first observation reads.
VerifyWorkspace(p, o) ==
  BeginVerification(p, o) /\ ReaderCurrent(wf.gen) /\ UNCHANGED records

\* The observation after the runner.
RecheckWorkspace(p) ==
  LET g == plan[p].gen IN
  /\ RunCheck(p)
  /\ IF Observable(g)
     THEN plan'[p].second = source[g] /\ MarkObserved(g)
     ELSE plan'[p].second = None /\ UNCHANGED records

\* The session gives its lease back when the check failed or nothing is left to
\* check; a lease the record no longer lists cannot be given back.
SessionOver == wf'.status = "FAILED" \/ ObligationsAccounted'

CompleteVerification(p) ==
  /\ CompleteLocalVerification(p)
  /\ IF SessionOver /\ records[wf.gen].readers > 0
     THEN /\ wf.gen \notin session'[p]
          /\ records' = [records EXCEPT ![wf.gen].readers = @ - 1]
     ELSE session'[p] = session[p] /\ UNCHANGED records

\* The four acceptance commands observe the frozen tree first.
ObserveFrozen(p, cmd) ==
  BeginObservation(p, cmd) /\ Observable(wf.gen) /\ MarkObserved(wf.gen)
ObserveConsumed(p, cmd, d) ==
  BeginConsumption(p, cmd, d) /\ Observable(wf.gen) /\ MarkObserved(wf.gen)

\* prepareRepair: an exact, unleased, still frozen parent.
Repairable(g) == MayRead(g) /\ records[g].writers = {} /\ records[g].readers = 0

RepairWorkspace(p, g) ==
  /\ BeginAcceptanceRepair(p, g) /\ Repairable(wf.gen)
  /\ records' = [records EXCEPT ![g] = NewRecord]
=============================================================================
