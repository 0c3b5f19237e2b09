------------------------- MODULE AgentRunLifecycle -------------------------
(***************************************************************************)
(* What one durable Agent Run promises to its user, with the workers, the  *)
(* steps and the queue left out.  A run is QUEUED, executed under a lease  *)
(* by one attempt at a time, and ends in exactly one of three ways; the    *)
(* ending, the assistant message and the announcement on the event stream  *)
(* change together.  AgentRun implements this specification; AgentQueue    *)
(* takes it as the run its jobs are about.                                 *)
(***************************************************************************)
EXTENDS Integers

CONSTANT MaxAttempts          \* ai_agent_runs.max_attempts

ASSUME MaxAttemptsAssumption == MaxAttempts \in Nat \ {0}

Terminal == {"COMPLETED", "FAILED", "CANCELLED"}
Status   == {"QUEUED", "RUNNING", "CANCEL_REQUESTED"} \cup Terminal

VARIABLES
  status,      \* ai_agent_runs.status
  attempt,     \* ai_agent_runs.attempt: successful claims so far
  lease,       \* "none", "live" (held, not expired) or "lapsed" (held, expired)
  overdue,     \* deadline_at <= clock_timestamp()
  answer,      \* status of the assistant message the run is to fill
  announced    \* the endings published on the event stream

lifecycleVars == <<status, attempt, lease, overdue, answer, announced>>

LifecycleTypeOK ==
  /\ status \in Status
  /\ attempt \in 0 .. MaxAttempts
  /\ lease \in {"none", "live", "lapsed"}
  /\ overdue \in BOOLEAN
  /\ answer \in {"PENDING"} \cup Terminal
  /\ announced \in SUBSET Terminal

LifecycleInit ==
  /\ status = "QUEUED"
  /\ attempt = 0
  /\ lease = "none"
  /\ overdue = FALSE
  /\ answer = "PENDING"
  /\ announced = {}
-----------------------------------------------------------------------------
\* The run, its message and its stream end together, and the lease is given up.
EndAs(end) ==
  /\ status' = end
  /\ answer' = end
  /\ announced' = announced \cup {end}
  /\ lease' = "none"
  /\ UNCHANGED <<attempt, overdue>>

\* A worker takes a run nobody holds, for the first time or after a lapse.
ClaimRun ==
  /\ status \notin Terminal
  /\ lease # "live"
  /\ ~overdue
  /\ attempt < MaxAttempts
  /\ status' = IF status = "QUEUED" THEN "RUNNING" ELSE status
  /\ attempt' = attempt + 1
  /\ lease' = "live"
  /\ UNCHANGED <<overdue, answer, announced>>

LeaseLapses ==
  /\ lease = "live"
  /\ lease' = "lapsed"
  /\ UNCHANGED <<status, attempt, overdue, answer, announced>>

DeadlinePasses ==
  /\ ~overdue
  /\ overdue' = TRUE
  /\ UNCHANGED <<status, attempt, lease, answer, announced>>

CancelQueued    == status = "QUEUED" /\ EndAs("CANCELLED")

RequestCancel ==
  /\ status = "RUNNING"
  /\ status' = "CANCEL_REQUESTED"
  /\ UNCHANGED <<attempt, lease, overdue, answer, announced>>

CompleteRun     == status = "RUNNING" /\ lease = "live" /\ EndAs("COMPLETED")
FailRun         == status = "RUNNING" /\ lease = "live" /\ EndAs("FAILED")
ConfirmCancel   == status = "CANCEL_REQUESTED" /\ lease = "live" /\ EndAs("CANCELLED")

\* The sweep of overdue runs ends what no worker can end any more.
ExpireRun ==
  /\ overdue
  /\ lease # "live"
  /\ status \notin Terminal
  /\ EndAs(IF status = "CANCEL_REQUESTED" THEN "CANCELLED" ELSE "FAILED")

LifecycleNext ==
  \/ ClaimRun \/ LeaseLapses \/ DeadlinePasses \/ CancelQueued \/ RequestCancel
  \/ CompleteRun \/ FailRun \/ ConfirmCancel \/ ExpireRun

LifecycleSpec == LifecycleInit /\ [][LifecycleNext]_lifecycleVars
=============================================================================
