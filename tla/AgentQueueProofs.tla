-------------------------- MODULE AgentQueueProofs --------------------------
(***************************************************************************)
(* Writing an outbox row off is final, a published run has its job, every  *)
(* variable stays in its range, and the queue runs the lifecycle: for      *)
(* every number of reconcilers, slots, attempts and faults.                *)
(***************************************************************************)
EXTENDS AgentQueue, TLAPS

\* A publisher about to write DEAD has read a run that stays unrecoverable.
DeadReadsHold == \A p \in Publisher : PAt(p, "dead") => Unrecoverable

QInv == attempt \in 0 .. MaxAttempts /\ publisher \in [Publisher -> [pc : PublisherPc, part : {"publish", "scan"}]]
        /\ DeadReadsHold /\ DeadIsFinal

\* No step of the run's lifecycle makes an unrecoverable run recoverable again.
LEMMA UnrecoverableStays ==
  ASSUME attempt \in 0 .. MaxAttempts, [LifecycleNext]_lifecycleVars
  PROVE  /\ attempt' \in 0 .. MaxAttempts
         /\ Unrecoverable => Unrecoverable'
<1> USE MaxAttemptsAssumption
<1>1. ASSUME NEW end \in Terminal, EndAs(end) PROVE Unrecoverable' /\ attempt' = attempt
  BY <1>1 DEF EndAs, Unrecoverable
<1>2. CASE ClaimRun
  BY <1>2 DEF ClaimRun, Unrecoverable
<1>3. CASE LeaseLapses \/ DeadlinePasses \/ RequestCancel \/ UNCHANGED lifecycleVars
  BY <1>3 DEF LeaseLapses, DeadlinePasses, RequestCancel, lifecycleVars, Unrecoverable, Terminal
<1>4. CASE CancelQueued \/ CompleteRun \/ FailRun \/ ConfirmCancel \/ ExpireRun
  BY <1>1, <1>4 DEF CancelQueued, CompleteRun, FailRun, ConfirmCancel, ExpireRun, Terminal
<1> QED BY <1>2, <1>3, <1>4 DEF LifecycleNext

\* The queue drives the run through its lifecycle only.
LEMMA QueueDrivesLifecycle ==
  ASSUME [Next]_vars
  PROVE  [LifecycleNext]_lifecycleVars
BY DEF Next, vars, LifecycleNext, PublisherStep, ReadRun, MarkDead, GetJob, GetState, RemoveFinished, AddJob,
   MarkRetry, MarkPublished, PublisherCrash, StartPass, PublishDue, ScanRuns, StartJob, Claim, EndRun,
   LoseRun, ThrowInfrastructure, SlotCrash, Stalled, FalseStall, Promote, RedisLoss, CancelByUser,
   RemoveWaitingGetState, RemoveWaiting, LeaseRunsOut, DeadlineComes

\* A publisher only gets to "dead" by reading an unrecoverable run; others stay put.
LEMMA PublisherMoves ==
  ASSUME publisher \in [Publisher -> [pc : PublisherPc, part : {"publish", "scan"}]], [Next]_vars
  PROVE  /\ publisher' \in [Publisher -> [pc : PublisherPc, part : {"publish", "scan"}]]
         /\ \A p \in Publisher : PAt(p, "dead")' => PAt(p, "dead") \/ Unrecoverable
<1> DEFINE Goal == /\ publisher' \in [Publisher -> [pc : PublisherPc, part : {"publish", "scan"}]]
                   /\ \A p \in Publisher : PAt(p, "dead")' => PAt(p, "dead") \/ Unrecoverable
<1>1. CASE UNCHANGED publisher
  BY <1>1 DEF PAt
<1>2. ASSUME NEW p \in Publisher, NEW pc \in PublisherPc, pc = "dead" => Unrecoverable, PGoto(p, pc)
      PROVE  Goal
  BY <1>2 DEF PGoto, PAt
<1>3. ASSUME NEW p \in Publisher, Return(p) PROVE Goal
  <2>1. PGoto(p, "off") \/ PGoto(p, "scan") \/ PGoto(p, "idle")
    BY <1>3 DEF Return, PGoto
  <2> QED BY <1>2, <2>1 DEF PublisherPc
<1>4. ASSUME NEW p \in Publisher, PublisherStep(p) PROVE Goal
  BY <1>2, <1>3, <1>4
  DEF PublisherStep, ReadRun, MarkDead, GetJob, GetState, RemoveFinished, AddJob, MarkRetry,
      MarkPublished, PublisherPc
<1>5. ASSUME NEW p \in Publisher, PublisherCrash(p) PROVE Goal
  BY <1>2, <1>5 DEF PublisherCrash, PublisherPc
<1>6. ASSUME NEW r \in Reconciler, StartPass(r) \/ ScanRuns(r) PROVE Goal
  <2>1. ASSUME NEW pc \in {"publish", "read", "idle"}, NEW part \in {"publish", "scan"},
               publisher' = [publisher EXCEPT ![r] = [pc |-> pc, part |-> part]]
        PROVE  Goal
    BY <2>1 DEF PublisherPc, PAt
  <2> QED BY <1>6, <2>1 DEF StartPass, ScanRuns
<1>7. ASSUME NEW r \in Reconciler, PublishDue(r) PROVE Goal
  BY <1>2, <1>7 DEF PublishDue, PublisherPc, Publisher
<1>8. ASSUME NEW s \in Slot,
             StartJob(s) \/ Claim(s) \/ EndRun(s) \/ LoseRun(s) \/ ThrowInfrastructure(s) \/ SlotCrash(s)
      PROVE  UNCHANGED publisher
  BY <1>8 DEF StartJob, Claim, EndRun, LoseRun, ThrowInfrastructure, SlotCrash, Settle
<1>9. CASE \/ Stalled \/ FalseStall \/ Promote \/ RedisLoss \/ CancelByUser \/ RemoveWaitingGetState
           \/ RemoveWaiting \/ LeaseRunsOut \/ DeadlineComes \/ UNCHANGED vars
  BY <1>1, <1>9 DEF Stalled, FalseStall, Promote, RedisLoss, CancelByUser, RemoveWaitingGetState,
     RemoveWaiting, LeaseRunsOut, DeadlineComes, queueVars, vars
<1> QED
  BY <1>1, <1>4, <1>5, <1>6, <1>7, <1>8, <1>9 DEF Next

\* Only a publisher that is at "dead" writes the outbox row off.
LEMMA OnlyMarkDeadWrites ==
  ASSUME [Next]_vars, outbox' = "DEAD", outbox # "DEAD"
  PROVE  \E p \in Publisher : PAt(p, "dead")
BY DEF Next, vars, queueVars, PublisherStep, ReadRun, MarkDead, GetJob, GetState, RemoveFinished, AddJob,
   MarkRetry, MarkPublished, PublisherCrash, StartPass, PublishDue, ScanRuns, StartJob, Claim, EndRun,
   LoseRun, ThrowInfrastructure, SlotCrash, Settle, Stalled, FalseStall, Promote, RedisLoss, CancelByUser,
   RemoveWaitingGetState, RemoveWaiting, LeaseRunsOut, DeadlineComes

LEMMA InitQInv ==
  ASSUME Init
  PROVE  QInv
<1>1. attempt \in 0 .. MaxAttempts BY MaxAttemptsAssumption DEF Init, LifecycleInit
<1>2. \A p \in Publisher : publisher[p].pc # "dead" BY DEF Init
<1>3. publisher \in [Publisher -> [pc : PublisherPc, part : {"publish", "scan"}]]
  BY DEF Init, PublisherPc
<1> QED BY <1>1, <1>2, <1>3 DEF QInv, DeadReadsHold, DeadIsFinal, PAt, Init

LEMMA NextQInv ==
  ASSUME QInv, [Next]_vars
  PROVE  QInv'
<1> USE DEF QInv
<1>1. attempt' \in 0 .. MaxAttempts /\ (Unrecoverable => Unrecoverable')
  BY QueueDrivesLifecycle, UnrecoverableStays
<1>2. publisher' \in [Publisher -> [pc : PublisherPc, part : {"publish", "scan"}]]
  BY PublisherMoves
<1>3. DeadReadsHold'
  BY <1>1, PublisherMoves DEF DeadReadsHold
<1>4. DeadIsFinal'
  BY <1>1, OnlyMarkDeadWrites DEF DeadIsFinal, DeadReadsHold
<1> QED BY <1>1, <1>2, <1>3, <1>4

\* A DEAD outbox row never hides a recoverable run: whatever the publishers read and
\* whenever they write, no delivery could claim the run any more.
THEOREM DeadRowsAreFinal == Spec => []DeadIsFinal
<1>1. QInv => DeadIsFinal BY DEF QInv
<1> QED BY <1>1, InitQInv, NextQInv, PTL DEF Spec
-----------------------------------------------------------------------------
(* The queue's state: a lock goes with an active job, attempts stay within their number *)

\* BullMQ processes a job under the lock of a slot, and one that is to run has an attempt left.
JobHeld ==
  /\ job \in JobState /\ tries \in 0 .. JobAttempts /\ stalls \in 0 .. MaxStalled
  /\ IF job = "active" THEN lock \in Slot ELSE lock = NoSlot
  /\ job \in Pending => tries < JobAttempts

Slots ==
  /\ slot \in [Slot -> {"idle", "claim", "run"}]
  /\ holder \in Slot \cup {NoSlot}

Rows ==
  /\ outbox \in OutboxStatus
  /\ publisher \in [Publisher -> [pc : PublisherPc, part : {"publish", "scan"}]]
  /\ cancel \in {"off", "getState", "remove"}
  /\ budget \in 0 .. FaultBudget

Parts == LifecycleTypeOK /\ JobHeld /\ Slots /\ Rows

LEMMA PartsGiveTypeOK == Parts => TypeOK
BY DEF Parts, JobHeld, Slots, Rows, TypeOK

LEMMA InitParts == Init => Parts
<1> SUFFICES ASSUME Init PROVE Parts
  OBVIOUS
<1> USE AgentQueueAssumption, MaxAttemptsAssumption
<1>1. LifecycleTypeOK
  <2>1. announced = {} /\ attempt = 0 /\ status = "QUEUED" /\ lease = "none" /\ overdue = FALSE
        /\ answer = "PENDING"
    BY DEF Init, LifecycleInit
  <2>2. attempt \in 0 .. MaxAttempts
    BY <2>1
  <2>3. announced \in SUBSET Terminal
    BY <2>1
  <2> QED BY <2>1, <2>2, <2>3 DEF LifecycleTypeOK, Status
<1>2. JobHeld
  BY DEF Init, JobHeld, JobState, Pending
<1>3. Slots
  BY DEF Init, Slots
<1>4. Rows
  <2>1. publisher \in [Publisher -> [pc : PublisherPc, part : {"publish", "scan"}]]
    BY DEF Init, PublisherPc
  <2> QED BY <2>1 DEF Init, Rows, OutboxStatus
<1> QED BY <1>1, <1>2, <1>3, <1>4 DEF Parts

LEMMA LifecycleTyped ==
  ASSUME LifecycleTypeOK, [LifecycleNext]_lifecycleVars
  PROVE  LifecycleTypeOK'
<1> USE MaxAttemptsAssumption DEF LifecycleTypeOK
<1>1. ASSUME NEW end \in Terminal, EndAs(end) PROVE LifecycleTypeOK'
  BY <1>1 DEF EndAs, Status
<1>2. CASE ClaimRun
  BY <1>2 DEF ClaimRun, Status, Terminal
<1>3. CASE LeaseLapses \/ DeadlinePasses \/ RequestCancel \/ UNCHANGED lifecycleVars
  BY <1>3 DEF LeaseLapses, DeadlinePasses, RequestCancel, lifecycleVars, Status
<1>4. CASE CancelQueued \/ CompleteRun \/ FailRun \/ ConfirmCancel \/ ExpireRun
  BY <1>1, <1>4 DEF CancelQueued, CompleteRun, FailRun, ConfirmCancel, ExpireRun, Terminal
<1> QED BY <1>2, <1>3, <1>4 DEF LifecycleNext

\* What a step may do to the job: settle it, take it, add it, take it out, wait again.
LEMMA JobHeldStep ==
  ASSUME JobHeld, Slots, [Next]_vars
  PROVE  JobHeld'
<1> USE AgentQueueAssumption DEF JobHeld, JobState, Pending
<1>1. CASE UNCHANGED jobVars
  BY <1>1 DEF jobVars
<1>2. ASSUME NEW s, NEW ok \in BOOLEAN, Settle(s, ok) PROVE JobHeld'
  BY <1>1, <1>2 DEF Settle
<1>3. CASE Added
  BY <1>1, <1>3 DEF Added
<1>4. CASE Gone
  BY <1>4 DEF Gone
<1>5. ASSUME NEW s \in Slot, StartJob(s) PROVE JobHeld'
  BY <1>5 DEF StartJob
<1>6. CASE Stalled \/ FalseStall
  BY <1>6 DEF Stalled, FalseStall
<1>7. CASE Promote
  BY <1>7 DEF Promote
<1>8. ASSUME NEW p \in Publisher, PublisherStep(p) \/ PublisherCrash(p)
      PROVE  UNCHANGED jobVars \/ Added \/ Gone
  BY <1>8 DEF PublisherStep, ReadRun, MarkDead, GetJob, GetState, RemoveFinished, AddJob, MarkRetry,
     MarkPublished, PublisherCrash
<1>9. ASSUME NEW r \in Reconciler, StartPass(r) \/ PublishDue(r) \/ ScanRuns(r)
      PROVE  UNCHANGED jobVars
  BY <1>9 DEF StartPass, PublishDue, ScanRuns
<1>10. ASSUME NEW s \in Slot, Claim(s) \/ EndRun(s) \/ LoseRun(s) \/ ThrowInfrastructure(s) \/ SlotCrash(s)
       PROVE  UNCHANGED jobVars \/ Settle(s, TRUE) \/ Settle(s, FALSE)
  BY <1>10 DEF Claim, EndRun, LoseRun, ThrowInfrastructure, SlotCrash
<1>11. CASE \/ RedisLoss \/ CancelByUser \/ RemoveWaitingGetState \/ RemoveWaiting
            \/ LeaseRunsOut \/ DeadlineComes \/ UNCHANGED vars
  <2>1. UNCHANGED jobVars \/ Gone
    BY <1>11 DEF RedisLoss, CancelByUser, RemoveWaitingGetState, RemoveWaiting, LeaseRunsOut,
       DeadlineComes, queueVars, jobVars, vars
  <2> QED BY <1>1, <1>4, <2>1
<1> QED BY <1>1, <1>2, <1>3, <1>4, <1>5, <1>6, <1>7, <1>8, <1>9, <1>10, <1>11 DEF Next

LEMMA SlotsStep ==
  ASSUME Slots, [Next]_vars
  PROVE  Slots'
<1> USE DEF Slots
<1>1. CASE UNCHANGED <<slot, holder>>
  BY <1>1
<1>2. ASSUME NEW s \in Slot,
             StartJob(s) \/ Claim(s) \/ EndRun(s) \/ LoseRun(s) \/ ThrowInfrastructure(s) \/ SlotCrash(s)
      PROVE  Slots'
  <2>1. /\ \E what \in {"idle", "claim", "run"} : slot' = [slot EXCEPT ![s] = what]
        /\ holder' \in {holder, NoSlot, s}
    BY <1>2 DEF StartJob, Claim, EndRun, LoseRun, ThrowInfrastructure, SlotCrash, Settle
  <2> QED BY <2>1
<1>3. \/ UNCHANGED <<slot, holder>>
      \/ \E s \in Slot : \/ StartJob(s) \/ Claim(s) \/ EndRun(s) \/ LoseRun(s)
                         \/ ThrowInfrastructure(s) \/ SlotCrash(s)
  BY DEF Next, vars, queueVars, PublisherStep, ReadRun, MarkDead, GetJob, GetState, RemoveFinished,
     AddJob, MarkRetry, MarkPublished, PublisherCrash, StartPass, PublishDue, ScanRuns, Stalled,
     FalseStall, Promote, RedisLoss, CancelByUser, RemoveWaitingGetState, RemoveWaiting,
     LeaseRunsOut, DeadlineComes
<1> QED BY <1>1, <1>2, <1>3

LEMMA RowsStep ==
  ASSUME Rows, [Next]_vars
  PROVE  Rows'
<1> USE AgentQueueAssumption DEF Rows
<1>1. publisher' \in [Publisher -> [pc : PublisherPc, part : {"publish", "scan"}]]
  BY PublisherMoves
<1>2. outbox' \in OutboxStatus
  <2>1. outbox' \in {outbox, "DEAD", "RETRY", "PUBLISHED"}
    BY DEF Next, vars, queueVars, PublisherStep, ReadRun, MarkDead, GetJob, GetState, RemoveFinished,
       AddJob, MarkRetry, MarkPublished, PublisherCrash, StartPass, PublishDue, ScanRuns, StartJob,
       Claim, EndRun, LoseRun, ThrowInfrastructure, SlotCrash, Settle, Stalled, FalseStall, Promote,
       RedisLoss, CancelByUser, RemoveWaitingGetState, RemoveWaiting, LeaseRunsOut, DeadlineComes
  <2> QED BY <2>1 DEF OutboxStatus
<1>3. cancel' \in {"off", "getState", "remove"}
  <2>1. cancel' \in {cancel, "off", "getState", "remove"}
    BY DEF Next, vars, queueVars, PublisherStep, ReadRun, MarkDead, GetJob, GetState, RemoveFinished,
       AddJob, MarkRetry, MarkPublished, PublisherCrash, StartPass, PublishDue, ScanRuns, StartJob,
       Claim, EndRun, LoseRun, ThrowInfrastructure, SlotCrash, Settle, Stalled, FalseStall, Promote,
       RedisLoss, CancelByUser, RemoveWaitingGetState, RemoveWaiting, LeaseRunsOut, DeadlineComes
  <2> QED BY <2>1
<1>4. budget' \in 0 .. FaultBudget
  <2>1. budget' = budget \/ SpendFault
    BY DEF Next, vars, queueVars, PublisherStep, ReadRun, MarkDead, GetJob, GetState, RemoveFinished,
       AddJob, MarkRetry, MarkPublished, PublisherCrash, StartPass, PublishDue, ScanRuns, StartJob,
       Claim, EndRun, LoseRun, ThrowInfrastructure, SlotCrash, Stalled, FalseStall, Promote,
       RedisLoss, CancelByUser, RemoveWaitingGetState, RemoveWaiting, LeaseRunsOut, DeadlineComes
  <2> QED BY <2>1 DEF SpendFault
<1> QED BY <1>1, <1>2, <1>3, <1>4

LEMMA PartsHold == Spec => []Parts
<1>1. Parts /\ [Next]_vars => Parts'
  BY QueueDrivesLifecycle, LifecycleTyped, JobHeldStep, SlotsStep, RowsStep DEF Parts
<1> QED BY <1>1, InitParts, PTL DEF Spec

\* Whatever the publishers, BullMQ and the slots do in whatever order, every variable stays in its
\* range: a job is never started more often than its attempts allow.
THEOREM TypeCorrect == Spec => []TypeOK
BY PartsHold, PartsGiveTypeOK, PTL

\* The queue runs the lifecycle: publishing, retrying and removing jobs never changes a run but
\* in the ways AgentRunLifecycle allows.
THEOREM QueueImplementsLifecycle == Spec => LifecycleSpec
<1>1. Init => LifecycleInit
  BY DEF Init
<1>2. [Next]_vars => [LifecycleNext]_lifecycleVars
  BY QueueDrivesLifecycle
<1> QED BY <1>1, <1>2, PTL DEF Spec, LifecycleSpec
-----------------------------------------------------------------------------
(* A published run has its job *)

\* No fault happened and nobody has claimed, cancelled or outlived the run.
Calm == budget = FaultBudget /\ status = "QUEUED" /\ ~overdue

\* Until then the job is added once and only ever taken: by a slot that is about to claim
\* the run.  A publisher that found it knows it is still there, and none is to remove it.
Promised ==
  /\ attempt = 0 /\ lease = "none" /\ cancel = "off"
  /\ job \in {"none", "waiting", "active"}
  /\ job = "active" => slot[lock] = "claim"
  /\ \A p \in Publisher : ~PAt(p, "remove") /\ (PAt(p, "getState") \/ PAt(p, "mark") => job # "none")
  /\ outbox = "PUBLISHED" => job # "none"

Kept == Calm => Promised

LEMMA InitKept == Init => Kept
BY DEF Init, LifecycleInit, Kept, Promised, PAt

\* A run that was claimed, cancelled or late stays so, and a fault is never taken back.
LEMMA CalmBefore ==
  ASSUME Rows, [Next]_vars, Calm'
  PROVE  Calm /\ UNCHANGED budget
<1>1. status = "QUEUED" /\ ~overdue
  <2>1. [LifecycleNext]_lifecycleVars
    BY QueueDrivesLifecycle
  <2> QED
    BY <2>1 DEF LifecycleNext, lifecycleVars, ClaimRun, LeaseLapses, DeadlinePasses, CancelQueued,
       RequestCancel, CompleteRun, FailRun, ConfirmCancel, ExpireRun, EndAs, Terminal, Calm
<1>2. budget' = budget \/ SpendFault
  BY DEF Next, vars, queueVars, PublisherStep, ReadRun, MarkDead, GetJob, GetState, RemoveFinished,
     AddJob, MarkRetry, MarkPublished, PublisherCrash, StartPass, PublishDue, ScanRuns, StartJob,
     Claim, EndRun, LoseRun, ThrowInfrastructure, SlotCrash, Stalled, FalseStall, Promote,
     RedisLoss, CancelByUser, RemoveWaitingGetState, RemoveWaiting, LeaseRunsOut, DeadlineComes
<1>3. ~SpendFault
  BY AgentQueueAssumption DEF Rows, SpendFault, Calm
<1> QED BY <1>1, <1>2, <1>3 DEF Calm

\* Where a publisher goes in one step, the job and the row apart.
LEMMA KeptByPublisher ==
  ASSUME Parts, Calm, Promised, UNCHANGED budget, NEW p \in Publisher, PublisherStep(p) \/ PublisherCrash(p)
  PROVE  Promised'
<1> USE DEF Promised, PAt, PGoto
<1>0. publisher \in [Publisher -> [pc : PublisherPc, part : {"publish", "scan"}]]
  BY DEF Parts, Rows
<1>1. ~SpendFault
  BY AgentQueueAssumption DEF Parts, Rows, SpendFault, Calm
<1>2. ASSUME Return(p) PROVE \A q \in Publisher : \A pc \in {"remove", "getState", "mark"} :
        PAt(q, pc)' => PAt(q, pc)
  BY <1>0, <1>2 DEF Return
<1>3. CASE ReadRun(p) \/ MarkDead(p) \/ MarkRetry(p)
  BY <1>0, <1>2, <1>3 DEF ReadRun, MarkDead, MarkRetry, jobVars, lifecycleVars
<1>4. CASE GetJob(p)
  BY <1>0, <1>4 DEF GetJob, jobVars, lifecycleVars
<1>5. CASE GetState(p)
  <2>1. job \in Pending
    BY <1>5 DEF GetState, Pending
  <2> QED BY <1>0, <1>5, <2>1 DEF GetState, jobVars, lifecycleVars
<1>6. CASE RemoveFinished(p)
  BY <1>6 DEF RemoveFinished
<1>7. CASE AddJob(p)
  <2>1. Added /\ PGoto(p, "mark") /\ UNCHANGED <<lifecycleVars, outbox, slot, holder, cancel>>
    BY <1>1, <1>7 DEF AddJob
  <2>2. job' \in {"waiting", "active"} /\ (job' = "active" => job = "active" /\ lock' = lock)
    BY <2>1 DEF Added, jobVars
  <2>3. \A q \in Publisher : ~PAt(q, "remove")'
    BY <1>0, <2>1
  <2>4. job' = "active" => slot'[lock'] = "claim"
    BY <2>1, <2>2
  <2>5. attempt' = 0 /\ lease' = "none" /\ cancel' = "off"
    BY <2>1 DEF lifecycleVars
  <2> QED BY <2>2, <2>3, <2>4, <2>5
<1>8. CASE MarkPublished(p)
  BY <1>0, <1>2, <1>8 DEF MarkPublished, jobVars, lifecycleVars
<1>9. ~PublisherCrash(p)
  BY <1>1 DEF PublisherCrash
<1> QED BY <1>3, <1>4, <1>5, <1>6, <1>7, <1>8, <1>9 DEF PublisherStep

LEMMA KeptBySlot ==
  ASSUME Parts, Calm, Calm', Promised, NEW s \in Slot,
         StartJob(s) \/ Claim(s) \/ EndRun(s) \/ LoseRun(s) \/ ThrowInfrastructure(s) \/ SlotCrash(s)
  PROVE  Promised'
<1> USE DEF Promised, PAt
<1>1. ~SpendFault /\ UNCHANGED budget
  BY AgentQueueAssumption DEF Parts, Rows, SpendFault, Calm
<1>2. slot \in [Slot -> {"idle", "claim", "run"}]
  BY DEF Parts, Slots
<1>3. CASE StartJob(s)
  BY <1>2, <1>3 DEF StartJob, lifecycleVars
<1>4. ~Claim(s)
  <2>1. ~ClaimRun
    BY DEF ClaimRun, Calm
  <2>2. status \notin Terminal /\ ~overdue /\ lease # "live" /\ attempt < MaxAttempts
    BY MaxAttemptsAssumption DEF Calm, Terminal
  <2> SUFFICES ASSUME Claim(s) PROVE FALSE
    OBVIOUS
  <2>3. \/ ClaimRun \/ status \in Terminal \/ overdue
        \/ attempt >= MaxAttempts \/ lease = "live"
    BY DEF Claim
  <2> QED BY <2>1, <2>2, <2>3, MaxAttemptsAssumption
<1>5. ~EndRun(s)
  BY DEF EndRun, CompleteRun, FailRun, ConfirmCancel, Calm
<1>6. CASE LoseRun(s)
  <2>1. slot[s] = "run" /\ Settle(s, FALSE) /\ UNCHANGED lifecycleVars
    BY <1>6 DEF LoseRun
  <2>2. ~(job = "active" /\ lock = s)
    BY <2>1
  <2>3. UNCHANGED jobVars /\ slot' = [slot EXCEPT ![s] = "idle"] /\ UNCHANGED <<outbox, publisher, cancel>>
    BY <2>1, <2>2 DEF Settle
  <2>4. job = "active" => lock \in Slot /\ lock # s
    BY <2>2 DEF Parts, JobHeld
  <2> QED BY <1>2, <2>1, <2>3, <2>4 DEF jobVars, lifecycleVars
<1>7. ~ThrowInfrastructure(s) /\ ~SlotCrash(s)
  BY <1>1 DEF ThrowInfrastructure, SlotCrash
<1> QED BY <1>3, <1>4, <1>5, <1>6, <1>7

LEMMA KeptStep ==
  ASSUME Parts, Kept, [Next]_vars
  PROVE  Kept'
<1> SUFFICES ASSUME Calm' PROVE Promised'
  BY DEF Kept
<1>1. Calm /\ Promised /\ UNCHANGED budget /\ ~SpendFault
  <2>1. Calm /\ UNCHANGED budget
    BY CalmBefore DEF Parts
  <2> QED BY <2>1, AgentQueueAssumption DEF Kept, SpendFault, Parts, Rows
<1>2. ASSUME NEW p \in Publisher, PublisherStep(p) \/ PublisherCrash(p) PROVE Promised'
  BY <1>1, <1>2, KeptByPublisher
<1>3. ASSUME NEW s \in Slot,
             StartJob(s) \/ Claim(s) \/ EndRun(s) \/ LoseRun(s) \/ ThrowInfrastructure(s) \/ SlotCrash(s)
      PROVE  Promised'
  BY <1>1, <1>3, KeptBySlot
<1>4. ASSUME NEW r \in Reconciler, StartPass(r) \/ PublishDue(r) \/ ScanRuns(r) PROVE Promised'
  <2>1. UNCHANGED <<outbox, jobVars, slot, cancel, lifecycleVars>>
    BY <1>1, <1>4 DEF StartPass, PublishDue, ScanRuns, Calm
  <2>2. \A p \in Publisher : \A pc \in {"remove", "getState", "mark"} : PAt(p, pc)' => PAt(p, pc)
    <3>1. publisher \in [Publisher -> [pc : PublisherPc, part : {"publish", "scan"}]] /\ r \in Publisher
      BY DEF Parts, Rows, Publisher
    <3> QED BY <1>4, <3>1 DEF StartPass, PublishDue, ScanRuns, PAt, PGoto
  <2> QED BY <1>1, <2>1, <2>2 DEF Promised, jobVars, lifecycleVars
<1>5. CASE Stalled
  BY <1>1, <1>5 DEF Stalled, Promised
<1>6. CASE FalseStall \/ RedisLoss
  BY <1>1, <1>6 DEF FalseStall, RedisLoss
<1>7. CASE Promote \/ RemoveWaitingGetState \/ RemoveWaiting
  BY <1>1, <1>7 DEF Promote, RemoveWaitingGetState, RemoveWaiting, Promised
<1>8. CASE CancelByUser
  BY <1>1, <1>8 DEF CancelByUser, CancelQueued, RequestCancel, EndAs, Calm
<1>9. CASE LeaseRunsOut \/ DeadlineComes
  BY <1>1, <1>9 DEF LeaseRunsOut, LeaseLapses, DeadlineComes, DeadlinePasses, Promised, Calm
<1>10. CASE UNCHANGED vars
  BY <1>1, <1>10 DEF vars, queueVars, jobVars, lifecycleVars, Promised, PAt
<1> QED BY <1>2, <1>3, <1>4, <1>5, <1>6, <1>7, <1>8, <1>9, <1>10 DEF Next

\* Without faults a PUBLISHED row tells the truth about a waiting run, for any number of
\* reconcilers that publish it again and slots that take its job.
THEOREM PublishedRunsAreQueued == Spec => []PublishedIsQueued
<1>1. Kept => PublishedIsQueued
  BY DEF Kept, Calm, Promised, PublishedIsQueued, Pending
<1>2. Spec => []Kept
  BY PartsHold, InitKept, KeptStep, PTL DEF Spec
<1> QED BY <1>1, <1>2, PTL
=============================================================================
