----------------------------- MODULE AgentQueue -----------------------------
(***************************************************************************)
(* How an Agent Run reaches a worker: the job outbox row written with the  *)
(* run, the BullMQ job whose id is the run's, the API call and the         *)
(* reconcilers that publish and repair it, and the processor slots that    *)
(* consume it.  The run itself is AgentRunLifecycle, which AgentRun        *)
(* implements.  Every await of enqueueRun is a point where others may run. *)
(***************************************************************************)
EXTENDS AgentRunLifecycle

CONSTANTS
  Reconciler,    \* worker processes, each with one AgentReconcilerService
  Api,           \* the API call that created the run and enqueues it once
  Slot,          \* processor slots (workerConcurrency over all processes)
  NoSlot,
  JobAttempts,   \* defaultJobOptions.attempts
  MaxStalled,    \* maxStalledCount
  FaultBudget    \* bound: crashes, Redis losses and failed calls in one behaviour

Publisher == Reconciler \cup {Api}

ASSUME AgentQueueAssumption ==
  /\ Api \notin Reconciler
  /\ NoSlot \notin Slot
  /\ JobAttempts \in Nat \ {0}
  /\ MaxStalled \in Nat
  /\ FaultBudget \in Nat

OutboxStatus == {"PENDING", "RETRY", "PUBLISHED", "DEAD"}
Pending      == {"waiting", "delayed", "active"}      \* enqueueRun leaves these alone
JobState     == {"none", "completed", "failed"} \cup Pending
PublisherPc  == {"idle", "publish", "scan", "read", "dead", "getJob", "getState",
                 "remove", "add", "retry", "mark", "off"}

VARIABLES
  outbox,      \* ai_job_outbox.status of the run's one row
  job,         \* state of the BullMQ job with jobId = runId
  tries,       \* its attemptsMade
  stalls,      \* its stalled counter
  lock,        \* slot BullMQ believes is processing it
  slot,        \* what each slot is doing: "idle", "claim" or "run"
  holder,      \* slot whose delivery made the latest claim and still runs
  publisher,   \* pc of each publisher, and the part of the pass it is in
  cancel,      \* the API's removeWaitingRun: "off", "getState" or "remove"
  budget       \* faults the environment may still produce

jobVars   == <<job, tries, stalls, lock>>
queueVars == <<outbox, job, tries, stalls, lock, slot, holder, publisher, cancel, budget>>
vars      == <<lifecycleVars, queueVars>>

TypeOK ==
  /\ LifecycleTypeOK
  /\ outbox \in OutboxStatus
  /\ job \in JobState
  /\ tries \in 0 .. JobAttempts
  /\ stalls \in 0 .. MaxStalled
  /\ lock \in Slot \cup {NoSlot}
  /\ slot \in [Slot -> {"idle", "claim", "run"}]
  /\ holder \in Slot \cup {NoSlot}
  /\ publisher \in [Publisher -> [pc : PublisherPc, part : {"publish", "scan"}]]
  /\ cancel \in {"off", "getState", "remove"}
  /\ budget \in 0 .. FaultBudget

\* createRun committed the run and its PENDING outbox row; the API now calls enqueueRun.
Init ==
  /\ LifecycleInit
  /\ outbox = "PENDING"
  /\ job = "none" /\ tries = 0 /\ stalls = 0 /\ lock = NoSlot
  /\ slot = [s \in Slot |-> "idle"]
  /\ holder = NoSlot
  /\ publisher = [p \in Publisher |->
                    [pc |-> IF p = Api THEN "read" ELSE "idle", part |-> "publish"]]
  /\ cancel = "off"
  /\ budget = FaultBudget

SpendFault == budget > 0 /\ budget' = budget - 1
-----------------------------------------------------------------------------
(* AgentQueueService.enqueueRun, step by step, and the reconciler's pass around it *)

PAt(p, pc)   == publisher[p].pc = pc
PGoto(p, pc) == publisher' = [publisher EXCEPT ![p].pc = pc]

\* enqueueRun returned or threw; the callers catch and go on: publishDueOutbox to the
\* scan, the scan to the end of the pass, the API call not at all.
Return(p) ==
  publisher' = [publisher EXCEPT
    ![p].pc = IF p = Api THEN "off" ELSE IF publisher[p].part = "publish" THEN "scan" ELSE "idle"]

Unrecoverable == status \in Terminal \/ overdue \/ attempt >= MaxAttempts

\* Mutant: the last attempt is counted as used before it is claimed.
ReadRunOffByOne(p) ==
  /\ PAt(p, "read")
  /\ PGoto(p, IF status \in Terminal \/ overdue \/ attempt + 1 >= MaxAttempts
              THEN "dead" ELSE "getJob")
  /\ UNCHANGED <<lifecycleVars, outbox, jobVars, slot, holder, cancel, budget>>

\* The run is read once; everything after it acts on this answer.
ReadRun(p) ==
  /\ PAt(p, "read")
  /\ PGoto(p, IF Unrecoverable THEN "dead" ELSE "getJob")
  /\ UNCHANGED <<lifecycleVars, outbox, jobVars, slot, holder, cancel, budget>>

MarkDead(p) ==
  /\ PAt(p, "dead")
  /\ outbox' = "DEAD"
  /\ Return(p)
  /\ UNCHANGED <<lifecycleVars, jobVars, slot, holder, cancel, budget>>

GetJob(p) ==
  /\ PAt(p, "getJob")
  /\ PGoto(p, IF job = "none" THEN "add" ELSE "getState")
  /\ UNCHANGED <<lifecycleVars, outbox, jobVars, slot, holder, cancel, budget>>

\* Mutant: any job that exists counts as pending, a finished one too.
GetStateTrusting(p) ==
  /\ PAt(p, "getState")
  /\ PGoto(p, "mark")
  /\ UNCHANGED <<lifecycleVars, outbox, jobVars, slot, holder, cancel, budget>>

\* Mutant: only a job that runs counts as pending.
GetStateActiveOnly(p) ==
  /\ PAt(p, "getState")
  /\ PGoto(p, IF job = "active" THEN "mark" ELSE "remove")
  /\ UNCHANGED <<lifecycleVars, outbox, jobVars, slot, holder, cancel, budget>>

\* getState is a call of its own: 'unknown' when the job is gone by now.
GetState(p) ==
  /\ PAt(p, "getState")
  /\ PGoto(p, IF job \in Pending THEN "mark" ELSE "remove")
  /\ UNCHANGED <<lifecycleVars, outbox, jobVars, slot, holder, cancel, budget>>

\* The job is taken out, with all that BullMQ knows of it.
Gone == job' = "none" /\ tries' = 0 /\ stalls' = 0 /\ lock' = NoSlot

\* removeFinishedJob: Job.remove takes the job out of whatever state it is in by now, and
\* throws when a worker holds its lock; the lock of a slot that died may be over already.
RemoveFinished(p) ==
  /\ PAt(p, "remove")
  /\ \/ job = "active" /\ Return(p) /\ UNCHANGED jobVars
     \/ (job = "active" => slot[lock] = "idle") /\ Gone /\ PGoto(p, "add")
  /\ UNCHANGED <<lifecycleVars, outbox, slot, holder, cancel, budget>>

\* queue.add with jobId = runId: a job that exists, in any state, makes it a no-op.
Added ==
  IF job = "none" THEN job' = "waiting" /\ tries' = 0 /\ stalls' = 0 /\ lock' = NoSlot
  ELSE UNCHANGED jobVars

\* The call may fail, before or after Redis carried it out.
AddJob(p) ==
  /\ PAt(p, "add")
  /\ \/ PGoto(p, "mark") /\ Added /\ UNCHANGED budget
     \/ PGoto(p, "retry") /\ (Added \/ UNCHANGED jobVars) /\ SpendFault
  /\ UNCHANGED <<lifecycleVars, outbox, slot, holder, cancel>>

MarkRetry(p) ==
  /\ PAt(p, "retry")
  /\ outbox' = "RETRY"
  /\ Return(p)
  /\ UNCHANGED <<lifecycleVars, jobVars, slot, holder, cancel, budget>>

MarkPublished(p) ==
  /\ PAt(p, "mark")
  /\ outbox' = "PUBLISHED"
  /\ Return(p)
  /\ UNCHANGED <<lifecycleVars, jobVars, slot, holder, cancel, budget>>

\* Mutant: the pass does not sweep overdue runs.
StartPassNoSweep(r) ==
  /\ PAt(r, "idle")
  /\ publisher' = [publisher EXCEPT ![r] = [pc |-> "publish", part |-> "publish"]]
  /\ UNCHANGED <<lifecycleVars, outbox, jobVars, slot, holder, cancel, budget>>

\* requeueRecoverableRuns starts a pass with the sweep of overdue runs; `running` keeps
\* a process from starting a second pass inside the first.
StartPass(r) ==
  /\ PAt(r, "idle")
  /\ publisher' = [publisher EXCEPT ![r] = [pc |-> "publish", part |-> "publish"]]
  /\ IF overdue /\ lease # "live" /\ status \notin Terminal THEN ExpireRun
     ELSE UNCHANGED lifecycleVars
  /\ UNCHANGED <<outbox, jobVars, slot, holder, cancel, budget>>

\* publishDueOutbox: a PENDING row is due at once, a RETRY row when its backoff is over.
PublishDue(r) ==
  /\ PAt(r, "publish")
  /\ \/ outbox \in {"PENDING", "RETRY"} /\ PGoto(r, "read")
     \/ outbox # "PENDING" /\ PGoto(r, "scan")
  /\ UNCHANGED <<lifecycleVars, outbox, jobVars, slot, holder, cancel, budget>>

\* Mutant: the scan leaves QUEUED runs to the outbox.
RecoverableLeasedOnly ==
  /\ ~overdue
  /\ attempt < MaxAttempts
  /\ status \in {"RUNNING", "CANCEL_REQUESTED"} /\ lease # "live"

Recoverable ==
  /\ ~overdue
  /\ attempt < MaxAttempts
  /\ \/ status = "QUEUED"
     \/ status \in {"RUNNING", "CANCEL_REQUESTED"} /\ lease # "live"

\* The scan trusts PostgreSQL alone: neither the outbox row nor Redis is consulted.
ScanRuns(r) ==
  /\ PAt(r, "scan")
  /\ publisher' = [publisher EXCEPT ![r] = [pc |-> IF Recoverable THEN "read" ELSE "idle",
                                            part |-> "scan"]]
  /\ UNCHANGED <<lifecycleVars, outbox, jobVars, slot, holder, cancel, budget>>

PublisherStep(p) ==
  \/ ReadRun(p) \/ MarkDead(p) \/ GetJob(p) \/ GetState(p) \/ RemoveFinished(p)
  \/ AddJob(p) \/ MarkRetry(p) \/ MarkPublished(p)

\* A process dies between two awaits; the restarted one begins a pass (onModuleInit).
PublisherCrash(p) ==
  /\ publisher[p].pc \notin {"idle", "off"}
  /\ SpendFault
  /\ PGoto(p, IF p = Api THEN "off" ELSE "idle")
  /\ UNCHANGED <<lifecycleVars, outbox, jobVars, slot, holder, cancel>>
-----------------------------------------------------------------------------
(* BullMQ and AgentProcessor *)

StartJob(s) ==
  /\ slot[s] = "idle"
  /\ job = "waiting"
  /\ job' = "active" /\ lock' = s
  /\ slot' = [slot EXCEPT ![s] = "claim"]
  /\ UNCHANGED <<lifecycleVars, outbox, tries, stalls, holder, publisher, cancel, budget>>

\* process returned (ok) or threw.  BullMQ records it only for the slot that still has
\* the lock; a throw is retried with backoff until the attempts are used up.
Settle(s, ok) ==
  /\ slot' = [slot EXCEPT ![s] = "idle"]
  /\ holder' = IF holder = s THEN NoSlot ELSE holder
  /\ IF job = "active" /\ lock = s
     THEN /\ lock' = NoSlot
          /\ stalls' = stalls
          /\ tries' = tries + 1
          /\ job' = IF ok THEN "completed"
                    ELSE IF tries + 1 < JobAttempts THEN "delayed" ELSE "failed"
     ELSE UNCHANGED jobVars
  /\ UNCHANGED <<outbox, publisher, cancel>>

\* claimRun by a fresh identity.
Claim(s) ==
  /\ slot[s] = "claim"
  /\ \/ /\ ClaimRun
        /\ slot' = [slot EXCEPT ![s] = "run"]
        /\ holder' = s
        /\ UNCHANGED <<outbox, jobVars, publisher, cancel>>
     \/ /\ \/ status \in Terminal \/ overdue
           \/ lease # "live" /\ attempt >= MaxAttempts
        /\ Settle(s, TRUE)                           \* not retryable: IGNORED
        /\ UNCHANGED lifecycleVars
     \/ /\ lease = "live" /\ ~overdue /\ status \notin Terminal
        /\ Settle(s, FALSE)                          \* LEASE_HELD
        /\ UNCHANGED lifecycleVars
  /\ UNCHANGED budget

\* The delivery that still holds the lease ends the run; process returns normally.
EndRun(s) ==
  /\ slot[s] = "run"
  /\ holder = s
  /\ CompleteRun \/ FailRun \/ ConfirmCancel
  /\ Settle(s, TRUE)
  /\ UNCHANGED budget

\* The delivery lost its lease: the conflict it meets leaves process as an error.
LoseRun(s) ==
  /\ slot[s] = "run"
  /\ holder # s \/ lease # "live"
  /\ Settle(s, FALSE)
  /\ UNCHANGED <<lifecycleVars, budget>>

\* A shutdown, a job timeout or a lost connection: process throws, the run stays
\* RUNNING under a lease that is no longer renewed.
ThrowInfrastructure(s) ==
  /\ slot[s] # "idle"
  /\ SpendFault
  /\ Settle(s, FALSE)
  /\ UNCHANGED lifecycleVars

\* The process of a slot dies: nobody reports to BullMQ.
SlotCrash(s) ==
  /\ slot[s] # "idle"
  /\ SpendFault
  /\ slot' = [slot EXCEPT ![s] = "idle"]
  /\ holder' = IF holder = s THEN NoSlot ELSE holder
  /\ UNCHANGED <<lifecycleVars, outbox, jobVars, publisher, cancel>>

\* Mutant: the worker is configured to skip the stalled check.
StalledSkipped == FALSE /\ UNCHANGED vars

\* The stalled check: an active job whose lock nobody renews goes back to waiting, or
\* fails once it stalled more than maxStalledCount times.
Stalled ==
  /\ job = "active"
  /\ slot[lock] = "idle"
  /\ lock' = NoSlot
  /\ IF stalls < MaxStalled THEN job' = "waiting" /\ stalls' = stalls + 1
     ELSE job' = "failed" /\ stalls' = stalls
  /\ UNCHANGED <<lifecycleVars, outbox, tries, slot, holder, publisher, cancel, budget>>

\* The same for a live but blocked process, which goes on as a second delivery.
FalseStall ==
  /\ job = "active"
  /\ slot[lock] # "idle"
  /\ stalls < MaxStalled
  /\ SpendFault
  /\ job' = "waiting" /\ lock' = NoSlot /\ stalls' = stalls + 1
  /\ UNCHANGED <<lifecycleVars, outbox, tries, slot, holder, publisher, cancel>>

Promote ==
  /\ job = "delayed"
  /\ job' = "waiting"
  /\ UNCHANGED <<lifecycleVars, outbox, tries, stalls, lock, slot, holder, publisher, cancel, budget>>

\* Redis loses its data.
RedisLoss ==
  /\ job # "none"
  /\ SpendFault
  /\ Gone
  /\ UNCHANGED <<lifecycleVars, outbox, slot, holder, publisher, cancel>>
-----------------------------------------------------------------------------
(* The user and the clock *)

\* AgentRunService.cancel: the database first, then the waiting job, best effort.
CancelByUser ==
  /\ cancel = "off"
  /\ \/ CancelQueued /\ cancel' = "getState"
     \/ RequestCancel /\ cancel' = cancel
  /\ UNCHANGED <<outbox, jobVars, slot, holder, publisher, budget>>

RemoveWaitingGetState ==
  /\ cancel = "getState"
  /\ cancel' = IF job \in {"waiting", "delayed"} THEN "remove" ELSE "off"
  /\ UNCHANGED <<lifecycleVars, outbox, jobVars, slot, holder, publisher, budget>>

RemoveWaiting ==
  /\ cancel = "remove"
  /\ cancel' = "off"
  /\ \/ job = "active" /\ UNCHANGED jobVars
     \/ (job = "active" => slot[lock] = "idle") /\ Gone
  /\ UNCHANGED <<lifecycleVars, outbox, slot, holder, publisher, budget>>

\* A delivery that runs renews its lease, unless a fault keeps it from doing so.
LeaseRunsOut ==
  /\ LeaseLapses
  /\ IF holder = NoSlot THEN UNCHANGED budget ELSE SpendFault
  /\ UNCHANGED <<outbox, jobVars, slot, holder, publisher, cancel>>

DeadlineComes ==
  /\ DeadlinePasses
  /\ UNCHANGED queueVars

Next ==
  \/ \E p \in Publisher : PublisherStep(p) \/ PublisherCrash(p)
  \/ \E r \in Reconciler : StartPass(r) \/ PublishDue(r) \/ ScanRuns(r)
  \/ \E s \in Slot : \/ StartJob(s) \/ Claim(s) \/ EndRun(s) \/ LoseRun(s)
                     \/ ThrowInfrastructure(s) \/ SlotCrash(s)
  \/ Stalled \/ FalseStall \/ Promote \/ RedisLoss
  \/ CancelByUser \/ RemoveWaitingGetState \/ RemoveWaiting
  \/ LeaseRunsOut \/ DeadlineComes

Spec == Init /\ [][Next]_vars

\* Processes that live keep going, BullMQ promotes a delayed job and detects stalls, the
\* reconciler's interval fires, and a lease nobody renews runs out.  An idle slot blocks
\* on Redis for the next job, so one that is waiting again and again is taken: without
\* this (strong) fairness two reconcilers in lock step could remove and add it for ever.
\* The deadline is left out: what QueuedRunIsServed and AbandonedRunIsTakenOver say
\* must not rest on it.
Fairness ==
  /\ \A p \in Publisher : WF_vars(PublisherStep(p))
  /\ \A r \in Reconciler : WF_vars(StartPass(r) \/ PublishDue(r) \/ ScanRuns(r))
  /\ SF_vars(\E s \in Slot : StartJob(s))
  /\ \A s \in Slot : WF_vars(Claim(s) \/ EndRun(s) \/ LoseRun(s))
  /\ WF_vars(Stalled) /\ WF_vars(Promote)
  /\ WF_vars(holder = NoSlot /\ LeaseRunsOut)

FairSpec == Spec /\ Fairness
-----------------------------------------------------------------------------
(* Properties *)

\* An outbox row is written off only for a run that no delivery can claim any more; a
\* DEAD row never hides a recoverable run, whichever publisher wrote it and however old
\* the read it rests on.
DeadIsFinal == outbox = "DEAD" => Unrecoverable

\* The outbox does not promise a job that is not there: as long as no fault happened, a
\* QUEUED run whose row is PUBLISHED has its job in the queue.  The API call and every
\* reconciler publish the same run again and again, each in three calls to Redis, and none
\* takes away the job another has added.
PublishedIsQueued ==
  outbox = "PUBLISHED" /\ status = "QUEUED" /\ ~overdue /\ budget = FaultBudget => job \in Pending

\* A run, which begins QUEUED and is never QUEUED again, is claimed or cancelled in the end,
\* through any finite number of crashes, lost Redis data, failed publications and lost races
\* between publishers, or it passes its deadline.
QueuedRunIsServed == <>(status # "QUEUED" \/ overdue)

\* A run whose worker is gone does not stay behind: it is taken over, ended, or has used
\* up its attempts or its time.
AbandonedRunIsTakenOver ==
  (lease = "lapsed") ~> (lease # "lapsed" \/ overdue \/ attempt >= MaxAttempts)

\* A run whose deadline has passed ends, also when no delivery is left to end it, none can
\* claim it any more or its last worker died.
OverdueRunEnds == overdue ~> (status \in Terminal)

\* The job of a run that ended leaves the queue for good: a stale publisher may add it
\* again, the claim turns it away.
EndedRunLeavesQueue == (status \in Terminal) ~> [](job \notin Pending)
=============================================================================
