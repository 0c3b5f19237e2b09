----------------------------- MODULE AgentIntake -----------------------------
(***************************************************************************)
(* The transaction that creates an Agent Run for one user: send,           *)
(* sendScheduled and regenerate of AgentInteractionRepository differ in    *)
(* the messages they write and share the rest: the user's advisory lock,   *)
(* the look for a run of the same clientRequestId, the count of active     *)
(* runs against the quota, the insert.  A run is known by its              *)
(* clientRequestId, which is unique for the user.                          *)
(*  Left out: the daily cost, the model and the published versions (each   *)
(* may refuse a request the way the quota does), and a deadline that has   *)
(* passed before the sweep ended its run.                                  *)
(***************************************************************************)
EXTENDS Naturals, FiniteSets

CONSTANTS
  Requester,             \* processes that may have a transaction open
  NoRequester,
  Request,               \* the clientRequestIds of one user
  MaxActiveRunsPerUser

ASSUME AgentIntakeAssumption ==
  /\ NoRequester \notin Requester
  /\ IsFiniteSet(Request)
  /\ MaxActiveRunsPerUser \in Nat

Active  == {"QUEUED", "RUNNING"}             \* RUNNING stands for CANCEL_REQUESTED too
Outcome == {"COMPLETED", "FAILED", "CANCELLED"}
RunState == {"none"} \cup Active \cup Outcome

VARIABLES
  runs,      \* status of the run of each request, "none" before it is created
  userLock   \* pg_advisory_xact_lock(userId): the requester whose transaction holds it

intakeVars == <<runs, userLock>>

IntakeTypeOK ==
  /\ runs \in [Request -> RunState]
  /\ userLock \in Requester \cup {NoRequester}

IntakeInit ==
  /\ runs = [k \in Request |-> "none"]
  /\ userLock = NoRequester

ActiveRuns == {k \in Request : runs[k] \in Active}

\* The first half of the transaction waits for the lock; `found` and `full` are its two
\* early ends, which commit or roll back at once, `free` keeps the lock for the insert.
FoundRun(c, k) == userLock = NoRequester /\ runs[k] # "none" /\ UNCHANGED intakeVars

QuotaFull(c, k) ==
  /\ userLock = NoRequester /\ runs[k] = "none"
  /\ Cardinality(ActiveRuns) >= MaxActiveRunsPerUser
  /\ UNCHANGED intakeVars

\* Mutant: nobody waits for the lock.
QuotaFreeUnlocked(c, k) ==
  /\ runs[k] = "none"
  /\ Cardinality(ActiveRuns) < MaxActiveRunsPerUser
  /\ userLock' = c
  /\ UNCHANGED runs

QuotaFree(c, k) ==
  /\ userLock = NoRequester /\ runs[k] = "none"
  /\ Cardinality(ActiveRuns) < MaxActiveRunsPerUser
  /\ userLock' = c
  /\ UNCHANGED runs

\* The insert of the run with its first event and its outbox row, and the commit, which
\* gives the lock back.
CreateRun(c, k) ==
  /\ runs[k] = "none"
  /\ runs' = [runs EXCEPT ![k] = "QUEUED"]
  /\ userLock' = NoRequester

\* The transaction ends without a run: an error, or its process is gone.
RollBack(c) ==
  /\ userLock' = IF userLock = c THEN NoRequester ELSE userLock
  /\ UNCHANGED runs

\* Workers, the user's cancel and the sweep; AgentRunLifecycle has the detail.
RunMoves(ends) ==
  /\ \E k \in ActiveRuns, s \in {"RUNNING"} \cup ends :
       runs[k] # s /\ runs' = [runs EXCEPT ![k] = s]
  /\ UNCHANGED userLock
-----------------------------------------------------------------------------
\* However many chats, manual runs and scanners ask at once, a user never has more active
\* runs than the quota: what the count saw still holds when the run is inserted.
QuotaHolds == Cardinality(ActiveRuns) <= MaxActiveRunsPerUser
=============================================================================
