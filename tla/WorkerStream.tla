----------------------------- MODULE WorkerStream -----------------------------
(***************************************************************************)
(* What the driver may rely on of a worker that is an operating system     *)
(* process: the stream of boundaries it reports and the one result it may  *)
(* bring.  ExternalExecution consumes such a stream; CodexTurn implements  *)
(* one.                                                                    *)
(***************************************************************************)
VARIABLES
  process,  \* the worker's process
  stage,    \* the last boundary the driver accepted, or why there is none
  result,   \* did the stream bring its result?
  aborted   \* has the host asked it to stop?

vars == <<process, stage, result, aborted>>

Open == {"AUTHORIZED", "PROCESS_OBSERVED", "SESSION_OBSERVED", "OPERATION_RUNNING"}
Closed == {"COMPLETED", "FAILED", "INTERRUPTED"}

Init == process = "NONE" /\ stage = "AUTHORIZED" /\ ~result /\ ~aborted

Launch ==
  /\ process = "NONE" /\ stage = "AUTHORIZED"
  /\ process' = "ALIVE"
  /\ UNCHANGED <<stage, result, aborted>>

Exit ==
  /\ process = "ALIVE"
  /\ process' = "GONE"
  /\ UNCHANGED <<stage, result, aborted>>

Abort == aborted' = TRUE /\ UNCHANGED <<process, stage, result>>

\* The boundaries, each once and in this order.
Boundary(from, to) ==
  /\ stage = from /\ process # "NONE"
  /\ stage' = to
  /\ UNCHANGED <<process, result, aborted>>

\* The last report.  A result comes with it, of an operation that was reported
\* running and whose process is gone; a completed operation has one.
Terminal(to, r) ==
  /\ stage \in Open
  /\ r => stage = "OPERATION_RUNNING" /\ process = "GONE" /\ ~aborted
  /\ to = "COMPLETED" => r
  /\ to = "INTERRUPTED" => aborted /\ ~r
  /\ stage' = to /\ result' = r
  /\ UNCHANGED <<process, aborted>>

\* A report the driver does not accept: the stream brings no result.
Refuse ==
  /\ stage \in Open
  /\ stage' = "REFUSED"
  /\ UNCHANGED <<process, result, aborted>>

Next ==
  \/ Launch \/ Exit \/ Abort \/ Refuse
  \/ Boundary("AUTHORIZED", "PROCESS_OBSERVED")
  \/ Boundary("PROCESS_OBSERVED", "SESSION_OBSERVED")
  \/ Boundary("SESSION_OBSERVED", "OPERATION_RUNNING")
  \/ \E to \in Closed, r \in BOOLEAN : Terminal(to, r)

Spec == Init /\ [][Next]_vars
=============================================================================
