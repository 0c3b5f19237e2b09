------------------------ MODULE NotificationDelivery ------------------------
(***************************************************************************)
(* One notification of a completed run on one channel: its delivery row    *)
(* and attempt rows, the BullMQ job the reconcilers keep publishing for    *)
(* it, the processor slots that claim the row and send, and the user who   *)
(* retries it, edits the channel or deletes the notification.  Every await *)
(* is a point where others may run.                                        *)
(***************************************************************************)
EXTENDS Integers, FiniteSets

CONSTANTS
  Slot,         \* processor slots (workerConcurrency over all processes)
  NoSlot,
  Reconciler,   \* worker processes, each with one AgentNotificationReconcilerService
  Kinds,        \* channel types to consider, of "IN_APP" and "WEBHOOK"
  MaxAttempts,  \* deliveryMaxAttempts
  MaxStalled,   \* maxStalledCount
  UserBudget,   \* bound: retries, deletions and channel edits by the user
  FaultBudget   \* bound: crashes, failed database calls, late sends, lost jobs

ASSUME NotificationAssumption ==
  /\ NoSlot \notin Slot /\ IsFiniteSet(Slot)
  /\ Kinds \subseteq {"IN_APP", "WEBHOOK"}
  /\ MaxAttempts \in Nat \ {0}
  /\ MaxStalled \in Nat /\ UserBudget \in Nat /\ FaultBudget \in Nat

Attempt == 1 .. MaxAttempts * (1 + UserBudget)
Ended   == {"DELIVERED", "FAILED", "SUPPRESSED"}
Status  == {"PENDING", "SENDING", "RETRY"} \cup Ended
Error   == {"TRANSIENT", "PERMANENT"}
SlotPc  == {"idle", "claim", "load", "send", "find", "create", "reread", "record", "suppress", "fail"}

VARIABLES
  kind,        \* type of the channel
  deliverable, \* the channel is active, not deleted and, a webhook, verified
  row,         \* ai_notification_deliveries: status, attempt, max (max_attempts),
               \* due (next_attempt_at has come), lapsed (lease_expires_at has come)
  audit,       \* ai_notification_delivery_attempts: status by attempt number
  shown,       \* rows of notifications with this delivery's id
  deleted,     \* such rows the user has deleted
  sends,       \* calls of the channel adapter
  job, lock, stalls,  \* the BullMQ job of the delivery, who processes it, stalled counter
  slot,        \* what each slot does and has read: pc, attempt, max, ok, error
  reconciler,  \* pc of each reconciler's pass
  user,        \* pc of the user's retry request
  requests, budget

rowVars == <<row, audit>>
noteVars == <<shown, deleted>>
jobVars == <<job, lock, stalls>>
envVars == <<requests, budget>>
vars == <<kind, deliverable, rowVars, noteVars, sends, jobVars, slot, reconciler, user, envVars>>

IdleSlot == [pc |-> "idle", attempt |-> 0, max |-> 0, ok |-> FALSE, error |-> "TRANSIENT"]

TypeOK ==
  /\ kind \in Kinds
  /\ deliverable \in BOOLEAN
  /\ row \in [status : Status, attempt : {0} \cup Attempt, max : Attempt,
              due : BOOLEAN, lapsed : BOOLEAN]
  /\ row.attempt <= row.max
  /\ audit \in [Attempt -> {"none", "RETRY"} \cup Ended]
  /\ shown \in Nat /\ deleted \in Nat /\ sends \in Nat
  /\ job \in {"none", "waiting", "active"}
  /\ lock \in Slot \cup {NoSlot}
  /\ job = "active" <=> lock # NoSlot
  /\ stalls \in 0 .. MaxStalled
  /\ slot \in [Slot -> [pc : SlotPc, attempt : {0} \cup Attempt, max : {0} \cup Attempt,
                        ok : BOOLEAN, error : Error]]
  /\ reconciler \in [Reconciler -> {"idle", "getJob", "getState", "remove", "add"}]
  /\ user \in {"idle", "update"}
  /\ requests \in 0 .. UserBudget
  /\ budget \in 0 .. FaultBudget

\* enqueueForCompletedRun wrote the row with the run's completion.
Init ==
  /\ kind \in Kinds
  /\ deliverable = TRUE
  /\ row = [status |-> "PENDING", attempt |-> 0, max |-> MaxAttempts,
            due |-> TRUE, lapsed |-> FALSE]
  /\ audit = [n \in Attempt |-> "none"]
  /\ shown = 0 /\ deleted = 0 /\ sends = 0
  /\ job = "none" /\ lock = NoSlot /\ stalls = 0
  /\ slot = [s \in Slot |-> IdleSlot]
  /\ reconciler = [r \in Reconciler |-> "idle"]
  /\ user = "idle"
  /\ requests = UserBudget /\ budget = FaultBudget

SpendFault   == budget > 0 /\ budget' = budget - 1 /\ requests' = requests
SpendRequest == requests > 0 /\ requests' = requests - 1 /\ budget' = budget
-----------------------------------------------------------------------------
(* AgentNotificationReconcilerService.publishDueDeliveries and enqueueDelivery *)

Claimable ==
  \/ row.status \in {"PENDING", "RETRY"} /\ row.due
  \/ row.status = "SENDING" /\ row.lapsed

\* Mutant: a delivery whose worker died is not looked for.
PublishableUnclaimedOnly ==
  row.status \in {"PENDING", "RETRY"} /\ row.due

\* publishableDeliveryIds
Publishable == Claimable

RAt(r, pc)   == reconciler[r] = pc
RGoto(r, pc) == reconciler' = [reconciler EXCEPT ![r] = pc]

StartPass(r) ==
  /\ RAt(r, "idle")
  /\ Publishable
  /\ RGoto(r, "getJob")
  /\ UNCHANGED <<kind, deliverable, rowVars, noteVars, sends, jobVars, slot, user, envVars>>

GetJob(r) ==
  /\ RAt(r, "getJob")
  /\ RGoto(r, IF job = "none" THEN "add" ELSE "getState")
  /\ UNCHANGED <<kind, deliverable, rowVars, noteVars, sends, jobVars, slot, user, envVars>>

\* A job that ended since getJob is gone (removeOnComplete, removeOnFail): "unknown".
GetState(r) ==
  /\ RAt(r, "getState")
  /\ RGoto(r, IF job = "none" THEN "remove" ELSE "idle")
  /\ UNCHANGED <<kind, deliverable, rowVars, noteVars, sends, jobVars, slot, user, envVars>>

\* remove() throws for a job a worker has locked meanwhile.
Remove(r) ==
  /\ RAt(r, "remove")
  /\ IF job = "active" THEN RGoto(r, "idle") /\ UNCHANGED job
                       ELSE RGoto(r, "add") /\ job' = "none"
  /\ UNCHANGED <<kind, deliverable, rowVars, noteVars, sends, lock, stalls, slot, user, envVars>>

\* add() with the jobId of a job that exists does nothing.
Add(r) ==
  /\ RAt(r, "add")
  /\ RGoto(r, "idle")
  /\ IF job = "none" THEN job' = "waiting" /\ stalls' = 0 ELSE UNCHANGED <<job, stalls>>
  /\ UNCHANGED <<kind, deliverable, rowVars, noteVars, sends, lock, slot, user, envVars>>

ReconcilerCrash(r) ==
  /\ ~RAt(r, "idle")
  /\ SpendFault
  /\ RGoto(r, "idle")
  /\ UNCHANGED <<kind, deliverable, rowVars, noteVars, sends, jobVars, slot, user>>
-----------------------------------------------------------------------------
(* AgentNotificationProcessor and NotificationDeliveryService.process *)

At(s, pc)   == slot[s].pc = pc
Goto(s, pc) == slot' = [slot EXCEPT ![s].pc = pc]

\* process returned or threw; with one attempt per job both remove it.
EndJob(s) ==
  /\ slot' = [slot EXCEPT ![s] = IdleSlot]
  /\ IF lock = s THEN job' = "none" /\ lock' = NoSlot ELSE UNCHANGED <<job, lock>>
  /\ stalls' = stalls

\* The catch of process: fail() with toDeliveryError(error).
CatchWith(s, error) ==
  slot' = [slot EXCEPT ![s].pc = "fail", ![s].error = error]

StartJob(s) ==
  /\ At(s, "idle") /\ job = "waiting"
  /\ job' = "active" /\ lock' = s
  /\ Goto(s, "claim")
  /\ UNCHANGED <<kind, deliverable, rowVars, noteVars, sends, stalls, reconciler, user, envVars>>

\* Mutant: taking over a lapsed lease is not a new attempt.
ClaimedRowKeeping ==
  [row EXCEPT !.status = "SENDING", !.lapsed = FALSE,
              !.attempt = IF row.status = "SENDING" THEN @ ELSE @ + 1]

ClaimedRow ==
  [row EXCEPT !.status = "SENDING", !.attempt = @ + 1, !.lapsed = FALSE]

\* The updateMany of claim; the row's check refuses an attempt above max_attempts.
Claim(s) ==
  /\ At(s, "claim")
  /\ IF Claimable /\ row.attempt < row.max
     THEN row' = ClaimedRow /\ Goto(s, "load") /\ UNCHANGED jobVars
     ELSE EndJob(s) /\ UNCHANGED row
  /\ UNCHANGED <<kind, deliverable, audit, noteVars, sends, reconciler, user, envVars>>

\* claim reads the row again after its update, with the channel; process looks at it.
Load(s) ==
  /\ At(s, "load")
  /\ slot' = [slot EXCEPT
       ![s].attempt = row.attempt, ![s].max = row.max, ![s].ok = deliverable,
       ![s].pc = IF ~deliverable THEN "suppress"
                 ELSE IF kind = "IN_APP" THEN "find" ELSE "send"]
  /\ UNCHANGED <<kind, deliverable, rowVars, noteVars, sends, jobVars, reconciler, user, envVars>>

\* WebhookNotificationChannel.send; without an answer in time the request counts as failed.
SendWebhook(s) ==
  /\ At(s, "send")
  /\ sends' = sends + 1
  /\ \/ Goto(s, "record")
     \/ \E e \in Error : CatchWith(s, e)
  /\ UNCHANGED <<kind, deliverable, rowVars, noteVars, jobVars, reconciler, user, envVars>>

\* InAppNotificationChannel.send: the user's preference, then the notification that is there.
FindNotification(s) ==
  /\ At(s, "find")
  /\ sends' = sends + 1
  /\ \/ Goto(s, "suppress")
     \/ Goto(s, IF shown > 0 THEN "record" ELSE "create")
  /\ UNCHANGED <<kind, deliverable, rowVars, noteVars, jobVars, reconciler, user, envVars>>

\* Mutant: the unique index on notifications.delivery_id is missing.
CreateNotificationAgain(s) ==
  /\ At(s, "create")
  /\ shown' = shown + 1 /\ deleted' = deleted
  /\ Goto(s, "record")
  /\ UNCHANGED <<kind, deliverable, rowVars, sends, jobVars, reconciler, user, envVars>>

\* The unique index refuses a second row (P2002), and create goes on to read the first one.
CreateNotification(s) ==
  /\ At(s, "create")
  /\ deleted' = deleted
  /\ IF shown = 0 THEN shown' = 1 /\ Goto(s, "record") ELSE shown' = shown /\ Goto(s, "reread")
  /\ UNCHANGED <<kind, deliverable, rowVars, sends, jobVars, reconciler, user, envVars>>

\* findUniqueOrThrow: the user may have deleted that row since.
RereadNotification(s) ==
  /\ At(s, "reread")
  /\ IF shown > 0 THEN Goto(s, "record") ELSE CatchWith(s, "TRANSIENT")
  /\ UNCHANGED <<kind, deliverable, rowVars, noteVars, sends, jobVars, reconciler, user, envVars>>

\* Mutant: the attempt row is written over, not inserted.
NewAttemptRowAny(s) == TRUE

NewAttemptRow(s) == audit[slot[s].attempt] = "none"

\* Mutant: the outcome is written without its attempt row.
WriteOutcomeUnaudited(s, status) ==
  /\ NewAttemptRow(s)
  /\ row' = [row EXCEPT !.status = status, !.lapsed = FALSE,
                        !.due = IF status = "RETRY" THEN FALSE ELSE @]
  /\ audit' = audit

\* Update by id and the new attempt row, in one transaction.
WriteOutcome(s, status) ==
  /\ NewAttemptRow(s)
  /\ row' = [row EXCEPT !.status = status, !.lapsed = FALSE,
                        !.due = IF status = "RETRY" THEN FALSE ELSE @]
  /\ audit' = [audit EXCEPT ![slot[s].attempt] = status]

RecordDelivered(s) ==
  /\ At(s, "record")
  /\ \/ WriteOutcome(s, "DELIVERED") /\ EndJob(s)
     \/ ~NewAttemptRow(s) /\ CatchWith(s, "TRANSIENT") /\ UNCHANGED <<rowVars, jobVars>>
  /\ UNCHANGED <<kind, deliverable, noteVars, sends, reconciler, user, envVars>>

\* suppress is returned, not awaited: what it throws is not caught by process.
Suppress(s) ==
  /\ At(s, "suppress")
  /\ \/ WriteOutcome(s, "SUPPRESSED")
     \/ ~NewAttemptRow(s) /\ UNCHANGED rowVars
  /\ EndJob(s)
  /\ UNCHANGED <<kind, deliverable, noteVars, sends, reconciler, user, envVars>>

\* Decided from the attempt and maximum read at the claim.
FailureStatus(s) ==
  IF slot[s].error = "TRANSIENT" /\ slot[s].attempt < slot[s].max THEN "RETRY" ELSE "FAILED"

Fail(s) ==
  /\ At(s, "fail")
  /\ \/ WriteOutcome(s, FailureStatus(s))
     \/ ~NewAttemptRow(s) /\ UNCHANGED rowVars
  /\ EndJob(s)
  /\ UNCHANGED <<kind, deliverable, noteVars, sends, reconciler, user, envVars>>

\* A database call fails: inside the try it becomes a failed attempt, elsewhere process throws.
Thrown(s) ==
  IF slot[s].pc \in {"find", "create", "reread", "record"}
  THEN CatchWith(s, "TRANSIENT") /\ UNCHANGED jobVars
  ELSE EndJob(s)

DatabaseError(s) ==
  /\ slot[s].pc \notin {"idle", "send"}
  /\ SpendFault
  /\ Thrown(s)
  /\ UNCHANGED <<kind, deliverable, rowVars, noteVars, sends, reconciler, user>>

\* A commit whose answer is lost.
CommitUnheard(s) ==
  /\ SpendFault
  /\ \/ At(s, "claim") /\ Claimable /\ row.attempt < row.max
        /\ row' = ClaimedRow /\ UNCHANGED <<audit, shown>>
     \/ At(s, "create") /\ shown = 0 /\ shown' = 1 /\ UNCHANGED rowVars
     \/ At(s, "record") /\ WriteOutcome(s, "DELIVERED") /\ UNCHANGED shown
     \/ At(s, "suppress") /\ WriteOutcome(s, "SUPPRESSED") /\ UNCHANGED shown
     \/ At(s, "fail") /\ WriteOutcome(s, FailureStatus(s)) /\ UNCHANGED shown
  /\ Thrown(s)
  /\ UNCHANGED <<kind, deliverable, deleted, sends, reconciler, user>>

\* The worker process dies; BullMQ finds the job stalled later.
SlotCrash(s) ==
  /\ ~At(s, "idle")
  /\ SpendFault
  /\ slot' = [slot EXCEPT ![s] = IdleSlot]
  /\ UNCHANGED <<kind, deliverable, rowVars, noteVars, sends, jobVars, reconciler, user>>

\* Above maxStalledCount the job fails and is removed.
JobStalls ==
  /\ lock' = NoSlot
  /\ IF stalls < MaxStalled THEN job' = "waiting" /\ stalls' = stalls + 1
                            ELSE job' = "none" /\ stalls' = stalls

Stalled ==
  /\ job = "active" /\ At(lock, "idle")
  /\ JobStalls
  /\ UNCHANGED <<kind, deliverable, rowVars, noteVars, sends, slot, reconciler, user, envVars>>

\* A worker too busy to renew its lock is taken for dead.
FalseStall ==
  /\ job = "active" /\ ~At(lock, "idle")
  /\ SpendFault
  /\ JobStalls
  /\ UNCHANGED <<kind, deliverable, rowVars, noteVars, sends, slot, reconciler, user>>

RedisLoss ==
  /\ job # "none"
  /\ SpendFault
  /\ job' = "none" /\ lock' = NoSlot /\ stalls' = stalls
  /\ UNCHANGED <<kind, deliverable, rowVars, noteVars, sends, slot, reconciler, user>>
-----------------------------------------------------------------------------
(* The user's retry and channel edits; time *)

\* retry() reads the row and refuses; what it updates later it does not look at again.
RetryRead ==
  /\ user = "idle" /\ SpendRequest
  /\ row.status \notin {"DELIVERED", "SENDING"} /\ deliverable
  /\ user' = "update"
  /\ UNCHANGED <<kind, deliverable, rowVars, noteVars, sends, jobVars, slot, reconciler>>

RetryUpdate ==
  /\ user = "update"
  /\ user' = "idle"
  /\ row' = [row EXCEPT !.status = "PENDING", !.max = @ + MaxAttempts,
                        !.due = TRUE, !.lapsed = FALSE]
  /\ UNCHANGED <<kind, deliverable, audit, noteVars, sends, jobVars, slot, reconciler, envVars>>

\* update and delete of NotificationChannelService, as the delivery sees them.
EditChannel ==
  /\ SpendRequest
  /\ deliverable' = ~deliverable
  /\ UNCHANGED <<kind, rowVars, noteVars, sends, jobVars, slot, reconciler, user>>

\* deleteNotification, at any time: the unique delivery_id is free again.
DeleteNotification ==
  /\ shown > 0 /\ SpendRequest
  /\ shown' = shown - 1 /\ deleted' = deleted + 1
  /\ UNCHANGED <<kind, deliverable, rowVars, sends, jobVars, slot, reconciler, user>>

\* The backoff of a RETRY is over.
BackoffEnds ==
  /\ row.status \in {"PENDING", "RETRY"} /\ ~row.due
  /\ row' = [row EXCEPT !.due = TRUE]
  /\ UNCHANGED <<kind, deliverable, audit, noteVars, sends, jobVars, slot, reconciler, user, envVars>>

InProcess == \E s \in Slot : slot[s].pc \notin {"idle", "claim"}

\* A lease runs out on a worker that still works only when that one is late.
LeaseLapses ==
  /\ row.status = "SENDING" /\ ~row.lapsed
  /\ row' = [row EXCEPT !.lapsed = TRUE]
  /\ IF InProcess THEN SpendFault ELSE UNCHANGED envVars
  /\ UNCHANGED <<kind, deliverable, audit, noteVars, sends, jobVars, slot, reconciler, user>>
-----------------------------------------------------------------------------
Reconcile(r) == StartPass(r) \/ GetJob(r) \/ GetState(r) \/ Remove(r) \/ Add(r)

Process(s) ==
  \/ Claim(s) \/ Load(s) \/ SendWebhook(s) \/ FindNotification(s) \/ CreateNotification(s)
  \/ RereadNotification(s) \/ RecordDelivered(s) \/ Suppress(s) \/ Fail(s)

Next ==
  \/ \E r \in Reconciler : Reconcile(r) \/ ReconcilerCrash(r)
  \/ \E s \in Slot : StartJob(s) \/ Process(s)
  \/ \E s \in Slot : DatabaseError(s) \/ CommitUnheard(s) \/ SlotCrash(s)
  \/ Stalled \/ FalseStall \/ RedisLoss
  \/ RetryRead \/ RetryUpdate \/ EditChannel \/ DeleteNotification
  \/ BackoffEnds \/ LeaseLapses

Spec == Init /\ [][Next]_vars

\* The reconciler's interval fires, processes run, BullMQ checks for stalled jobs, time passes.
Fairness ==
  /\ \A r \in Reconciler : WF_vars(Reconcile(r))
  /\ \A s \in Slot : WF_vars(Process(s))
  /\ WF_vars(\E s \in Slot : StartJob(s))
  /\ WF_vars(Stalled) /\ WF_vars(RetryUpdate)
  /\ WF_vars(BackoffEnds) /\ WF_vars(~InProcess /\ LeaseLapses)

FairSpec == Spec /\ Fairness
-----------------------------------------------------------------------------
\* Bounded retry: the channel is called at most once per attempt counted in the row,
\* whoever dies, takes over or loses an answer on the way.
SendsAreCounted == sends <= row.attempt

\* However many processors, attempts and lost answers, there are never two notifications of one
\* delivery: a second one is made only after the user deleted the first. And an in-app delivery
\* is DELIVERED only with a notification that is there, or that the user deleted.
NotifiedOnce ==
  kind = "IN_APP" => shown <= 1 /\ (row.status = "DELIVERED" => shown + deleted >= 1)

\* What the row says of its last outcome is in the attempt history; RETRY and FAILED
\* are never states nobody can explain.
OutcomeIsAudited ==
  row.status \in Ended \cup {"RETRY"} => \E n \in 1 .. row.attempt : audit[n] = row.status

\* An attempt's record is final: above all, a DELIVERED one whose commit was not heard
\* is not turned into a retry or a failure by the same attempt.
AttemptIsRecordedOnce ==
  [][\A n \in Attempt : audit[n] # "none" => audit'[n] = audit[n]]_vars

\* A delivery that is due, or whose worker died, and has attempts left is attempted
\* again, although jobs, processes and answers get lost.
ClaimableIsClaimed ==
  \A n \in {0} \cup Attempt :
    (Claimable /\ row.attempt = n /\ n < row.max) ~> ~(Claimable /\ row.attempt = n)

\* A delivery comes to an end.
EveryDeliveryEnds == []<>(row.status \in Ended)
=============================================================================
