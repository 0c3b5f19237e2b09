------------------------- MODULE NotificationProofs -------------------------
(***************************************************************************)
(* For any number of slots, reconcilers, attempts, retries and faults:     *)
(* types, bounded sends, one notification, a complete and final attempt    *)
(* history.                                                                *)
(***************************************************************************)
EXTENDS NotificationDelivery, FiniteSetTheorems, TLAPS

Bounds ==
  /\ MaxAttempts \in Nat \ {0} /\ MaxStalled \in Nat
  /\ UserBudget \in Nat /\ FaultBudget \in Nat

Limit == MaxAttempts * (1 + UserBudget)

\* Retries the user may still have counted in max_attempts.
Retries == requests + IF user = "update" THEN 1 ELSE 0

LEMMA BoundsHold == Bounds /\ Limit \in Nat /\ MaxAttempts <= Limit /\ Attempt = 1 .. Limit
<1>1. Bounds
  BY NotificationAssumption DEF Bounds
<1>2. MaxAttempts * (1 + UserBudget) = MaxAttempts + MaxAttempts * UserBudget
  BY <1>1 DEF Bounds
<1>3. MaxAttempts * UserBudget \in Nat
  BY <1>1 DEF Bounds
<1> QED BY <1>1, <1>2, <1>3 DEF Bounds, Limit, Attempt
-----------------------------------------------------------------------------
(* Types *)

\* max_attempts grows by MaxAttempts with each retry, and never past what the attempts
\* history can number.
MaxIsEarned == row.max + MaxAttempts * Retries <= Limit

Typed == TypeOK /\ MaxIsEarned

RowSet  == [status : Status, attempt : {0} \cup Attempt, max : Attempt, due : BOOLEAN, lapsed : BOOLEAN]
SlotRow == [pc : SlotPc, attempt : {0} \cup Attempt, max : {0} \cup Attempt, ok : BOOLEAN, error : Error]

LEMMA Parts ==
  ASSUME Typed
  PROVE  /\ row \in RowSet /\ slot \in [Slot -> SlotRow]
         /\ row.attempt \in Nat /\ row.max \in Nat /\ row.attempt <= row.max
         /\ requests \in Nat /\ requests <= UserBudget
BY BoundsHold DEF Bounds, Typed, TypeOK, RowSet, SlotRow

LEMMA TypedInit == Init => Typed
<1> SUFFICES ASSUME Init PROVE Typed
  OBVIOUS
<1> USE BoundsHold DEF Bounds
<1>1. MaxAttempts + MaxAttempts * UserBudget = Limit
  BY DEF Limit
<1>2. TypeOK
  BY NotificationAssumption DEF Init, TypeOK, Status, Ended, SlotPc, Error, IdleSlot
<1>3. MaxIsEarned
  BY <1>1 DEF Init, MaxIsEarned, Retries
<1> QED BY <1>2, <1>3 DEF Typed

\* What a reconciler, BullMQ or the loss of Redis does, it does to the job alone.
LEMMA TypedQueue ==
  ASSUME Typed,
         \/ \E r \in Reconciler : Reconcile(r) \/ ReconcilerCrash(r)
         \/ Stalled \/ FalseStall \/ RedisLoss
  PROVE  Typed'
<1> USE BoundsHold DEF Bounds
<1>1. ASSUME NEW r \in Reconciler, Reconcile(r) \/ ReconcilerCrash(r) PROVE Typed'
  <2>1. UNCHANGED <<kind, deliverable, row, audit, noteVars, sends, slot, user, requests, lock>>
    BY <1>1 DEF Reconcile, StartPass, GetJob, GetState, Remove, Add, ReconcilerCrash, SpendFault,
                rowVars, noteVars, jobVars, envVars
  <2>2. /\ reconciler' \in [Reconciler -> {"idle", "getJob", "getState", "remove", "add"}]
        /\ budget' \in 0 .. FaultBudget
    BY <1>1 DEF Typed, TypeOK, Reconcile, StartPass, GetJob, GetState, Remove, Add, ReconcilerCrash,
                SpendFault, RGoto, envVars
  <2>3. /\ job' \in {"none", "waiting", "active"} /\ (job' = "active" <=> job = "active")
        /\ stalls' \in 0 .. MaxStalled
    BY <1>1 DEF Typed, TypeOK, Reconcile, StartPass, GetJob, GetState, Remove, Add, ReconcilerCrash,
                RGoto, RAt, jobVars
  <2> QED BY <2>1, <2>2, <2>3 DEF Typed, TypeOK, MaxIsEarned, Retries, noteVars
<1>2. CASE Stalled \/ FalseStall \/ RedisLoss
  <2>1. UNCHANGED <<kind, deliverable, row, audit, shown, deleted, sends, slot, reconciler, user, requests>>
    BY <1>2 DEF Stalled, FalseStall, RedisLoss, SpendFault, rowVars, noteVars, envVars
  <2>2. /\ job' \in {"none", "waiting"} /\ lock' = NoSlot
        /\ stalls' \in 0 .. MaxStalled /\ budget' \in 0 .. FaultBudget
    BY <1>2 DEF Typed, TypeOK, Stalled, FalseStall, RedisLoss, JobStalls, SpendFault, envVars
  <2> QED BY <2>1, <2>2 DEF Typed, TypeOK, MaxIsEarned, Retries
<1> QED BY <1>1, <1>2

\* The user and the clock.
LEMMA TypedUser ==
  ASSUME Typed, RetryRead \/ RetryUpdate \/ EditChannel \/ DeleteNotification \/ BackoffEnds \/ LeaseLapses
  PROVE  Typed'
<1> USE BoundsHold DEF Bounds
<1>1. CASE RetryRead
  <2>1. Retries' = Retries
    BY <1>1 DEF RetryRead, Retries, SpendRequest, Typed, TypeOK
  <2> QED BY <1>1, <2>1 DEF RetryRead, SpendRequest, Typed, TypeOK, MaxIsEarned, rowVars, noteVars, jobVars
<1>2. CASE RetryUpdate
  <2>1. requests \in Nat /\ Retries = requests + 1 /\ Retries' = requests
    BY <1>2 DEF RetryUpdate, Retries, envVars, Typed, TypeOK
  <2>2. MaxAttempts * Retries = MaxAttempts * requests + MaxAttempts /\ MaxAttempts * requests \in Nat
    BY <2>1
  <2>3. row.max \in Nat /\ row.attempt \in Nat /\ row.attempt <= row.max
    BY DEF Typed, TypeOK
  <2>4. /\ row' = [row EXCEPT !.status = "PENDING", !.max = row.max + MaxAttempts,
                              !.due = TRUE, !.lapsed = FALSE]
        /\ row'.max = row.max + MaxAttempts /\ row'.attempt = row.attempt
    BY <1>2 DEF RetryUpdate, Typed, TypeOK
  <2>5. MaxIsEarned'
    BY <2>1, <2>2, <2>3, <2>4 DEF MaxIsEarned, Typed
  <2>6. row'.max \in Attempt
    <3>1. row.max + MaxAttempts * Retries <= Limit
      BY DEF MaxIsEarned, Typed
    <3>2. row.max + MaxAttempts <= Limit
      BY <2>1, <2>2, <2>3, <3>1
    <3> QED BY <2>3, <2>4, <3>2
  <2>7. row' \in RowSet /\ row'.attempt <= row'.max
    <3>1. row.attempt \in {0} \cup Attempt
      BY Parts DEF RowSet
    <3>2. row' = [status |-> "PENDING", attempt |-> row.attempt, max |-> row.max + MaxAttempts,
                  due |-> TRUE, lapsed |-> FALSE]
      BY <2>4, Parts DEF RowSet
    <3> DEFINE max == row.max + MaxAttempts
    <3>5. max \in Attempt
      BY <2>4, <2>6
    <3> HIDE DEF max
    <3>6. [status |-> "PENDING", attempt |-> row.attempt, max |-> max,
           due |-> TRUE, lapsed |-> FALSE] \in RowSet
      BY ONLY <3>1, <3>5 DEF RowSet, Status
    <3>3. row' \in RowSet
      BY ONLY <3>2, <3>6 DEF max
    <3>4. row.attempt <= row.max + MaxAttempts
      BY <2>3
    <3> QED BY <2>4, <3>3, <3>4
  <2> QED BY <1>2, <2>5, <2>7 DEF RetryUpdate, Typed, TypeOK, noteVars, jobVars, envVars, RowSet
<1>3. CASE EditChannel \/ DeleteNotification
  <2>1. requests \in Nat /\ requests' \in Nat /\ requests = requests' + 1
    BY <1>3 DEF EditChannel, DeleteNotification, SpendRequest, Typed, TypeOK
  <2>2. user' = user /\ row' = row
    BY <1>3 DEF EditChannel, DeleteNotification, rowVars
  <2>3. Retries' \in Nat /\ Retries = Retries' + 1
    <3> DEFINE k == IF user = "update" THEN 1 ELSE 0
    <3>1. Retries = requests + k /\ Retries' = requests' + k /\ k \in Nat
      BY <2>2 DEF Retries
    <3>2. ASSUME NEW a \in Nat, NEW b \in Nat, NEW i \in Nat, a = b + 1
          PROVE  b + i \in Nat /\ a + i = (b + i) + 1
      BY ONLY <3>2
    <3> HIDE DEF k
    <3>3. requests' + k \in Nat /\ requests + k = (requests' + k) + 1
      BY ONLY <2>1, <3>1, <3>2
    <3> QED BY ONLY <3>1, <3>3
  <2>4. MaxAttempts * Retries = MaxAttempts * Retries' + MaxAttempts /\ MaxAttempts * Retries' \in Nat
    <3>1. ASSUME NEW m \in Nat, NEW n \in Nat
          PROVE  m * (n + 1) = m * n + m /\ m * n \in Nat
      OBVIOUS
    <3>2. MaxAttempts \in Nat
      OBVIOUS
    <3> QED BY ONLY <2>3, <3>1, <3>2
  <2>5. row.max + MaxAttempts * Retries <= Limit
    BY DEF MaxIsEarned, Typed
  <2>6. row.max + MaxAttempts * Retries' <= Limit
    BY <2>4, <2>5, Parts
  <2>7. TypeOK'
    <3>1. UNCHANGED <<kind, row, audit, sends, job, lock, stalls, slot, reconciler, user>>
      BY <1>3 DEF EditChannel, DeleteNotification, rowVars, jobVars
    <3>2. deliverable' \in BOOLEAN /\ shown' \in Nat /\ deleted' \in Nat
      <4>1. shown \in Nat /\ deleted \in Nat /\ deliverable \in BOOLEAN
        BY DEF Typed, TypeOK
      <4>2. CASE EditChannel
        BY ONLY <4>1, <4>2 DEF EditChannel, noteVars
      <4>3. CASE DeleteNotification
        BY ONLY <4>1, <4>3 DEF DeleteNotification
      <4> QED BY <1>3, <4>2, <4>3
    <3>3. requests' \in 0 .. UserBudget /\ budget' = budget
      <4>1. requests \in 0 .. UserBudget
        BY DEF Typed, TypeOK
      <4>2. requests > 0 /\ requests' = requests - 1 /\ budget' = budget
        BY ONLY <1>3 DEF EditChannel, DeleteNotification, SpendRequest
      <4>3. UserBudget \in Nat
        OBVIOUS
      <4> QED BY ONLY <4>1, <4>2, <4>3
    <3> QED BY <3>1, <3>2, <3>3 DEF Typed, TypeOK
  <2> QED BY <2>2, <2>6, <2>7 DEF Typed, MaxIsEarned
<1>4. CASE BackoffEnds \/ LeaseLapses
  <2>1. /\ row' \in RowSet /\ row'.attempt = row.attempt /\ row'.max = row.max
    <3>1. row' = [row EXCEPT !.due = TRUE] \/ row' = [row EXCEPT !.lapsed = TRUE]
      BY <1>4 DEF BackoffEnds, LeaseLapses
    <3> QED BY ONLY <3>1, Parts, Typed DEF RowSet
  <2>3. requests' = requests /\ user' = user /\ budget' \in 0 .. FaultBudget
    BY <1>4 DEF BackoffEnds, LeaseLapses, SpendFault, Typed, TypeOK, envVars
  <2>2. UNCHANGED <<kind, deliverable, audit, noteVars, sends, jobVars, slot, reconciler>>
    BY <1>4 DEF BackoffEnds, LeaseLapses
  <2> QED BY <2>1, <2>2, <2>3 DEF Typed, TypeOK, MaxIsEarned, Retries, noteVars, jobVars, RowSet
<1> QED BY <1>1, <1>2, <1>3, <1>4
-----------------------------------------------------------------------------
(* Steps of the slots *)

\* A slot moves on, or its row is cleared.
LEMMA SlotMoves ==
  ASSUME Typed, NEW s \in Slot
  PROVE  /\ \A pc \in SlotPc : Goto(s, pc) => slot' \in [Slot -> SlotRow]
         /\ \A e \in Error : CatchWith(s, e) => slot' \in [Slot -> SlotRow]
         /\ slot' = [slot EXCEPT ![s] = IdleSlot] => slot' \in [Slot -> SlotRow]
<1>1. slot \in [Slot -> SlotRow]
  BY Parts
<1>2. ASSUME NEW pc \in SlotPc, Goto(s, pc) PROVE slot' \in [Slot -> SlotRow]
  BY <1>1, <1>2 DEF Goto, SlotRow
<1>3. ASSUME NEW e \in Error, CatchWith(s, e) PROVE slot' \in [Slot -> SlotRow]
  <2>1. "fail" \in SlotPc
    BY DEF SlotPc
  <2>2. [slot[s] EXCEPT !.pc = "fail", !.error = e] \in SlotRow
    BY <1>1, <2>1 DEF SlotRow
  <2>3. slot' = [slot EXCEPT ![s] = [slot[s] EXCEPT !.pc = "fail", !.error = e]]
    BY <1>1, <1>3 DEF CatchWith
  <2> QED BY <1>1, <2>2, <2>3
<1>4. IdleSlot \in SlotRow
  BY DEF IdleSlot, SlotRow, SlotPc, Error
<1> QED BY <1>1, <1>2, <1>3, <1>4

\* A slot ends its job: the job goes with its lock.
LEMMA EndJobTypes ==
  ASSUME Typed, NEW s \in Slot, EndJob(s)
  PROVE  /\ job' \in {"none", "waiting", "active"} /\ lock' \in Slot \cup {NoSlot}
         /\ job' = "active" <=> lock' # NoSlot
         /\ stalls' \in 0 .. MaxStalled
         /\ slot' = [slot EXCEPT ![s] = IdleSlot] /\ slot' \in [Slot -> SlotRow]
BY DEF EndJob, Typed, TypeOK, SlotRow, IdleSlot, SlotPc, Error

\* The ways a slot's step leaves the row.
RowStep(s) ==
  \/ UNCHANGED <<row, audit>>
  \/ /\ slot[s].pc = "claim" /\ Claimable /\ row.attempt < row.max
     /\ row' = ClaimedRow /\ audit' = audit
  \/ \E status \in {"DELIVERED", "SUPPRESSED", "RETRY", "FAILED"} :
       /\ slot[s].pc \in {"record", "suppress", "fail"}
       /\ status = "DELIVERED" => slot[s].pc = "record"
       /\ WriteOutcome(s, status)

SlotStep(s) ==
  \/ StartJob(s) \/ Process(s) \/ DatabaseError(s) \/ CommitUnheard(s) \/ SlotCrash(s)

LEMMA EveryRowStep ==
  ASSUME NEW s \in Slot, SlotStep(s)
  PROVE  RowStep(s) /\ UNCHANGED <<kind, deliverable, reconciler, user, requests>>
<1>1. CASE StartJob(s) \/ Claim(s) \/ Load(s) \/ SendWebhook(s) \/ FindNotification(s)
           \/ CreateNotification(s) \/ RereadNotification(s) \/ DatabaseError(s) \/ SlotCrash(s)
  BY <1>1 DEF StartJob, Claim, Load, SendWebhook, FindNotification, CreateNotification,
              RereadNotification, DatabaseError, SlotCrash, SpendFault, rowVars, noteVars, envVars, At, RowStep
<1>2. CASE RecordDelivered(s)
  BY <1>2 DEF RecordDelivered, rowVars, noteVars, envVars, At, RowStep
<1>3. CASE Suppress(s)
  BY <1>3 DEF Suppress, rowVars, noteVars, envVars, At, RowStep
<1>4. FailureStatus(s) \in {"RETRY", "FAILED"}
  BY DEF FailureStatus
<1>5. CASE Fail(s)
  BY <1>4, <1>5 DEF Fail, rowVars, noteVars, envVars, At, RowStep
<1>6. CASE CommitUnheard(s)
  BY <1>4, <1>6 DEF CommitUnheard, SpendFault, rowVars, noteVars, At, RowStep
<1> QED BY <1>1, <1>2, <1>3, <1>5, <1>6 DEF SlotStep, Process

LEMMA TypedRow ==
  ASSUME Typed, NEW s \in Slot, RowStep(s)
  PROVE  /\ row' \in RowSet /\ row'.attempt <= row'.max /\ row'.max = row.max
         /\ row'.attempt \in {row.attempt, row.attempt + 1}
         /\ audit' \in [Attempt -> {"none", "RETRY"} \cup Ended]
<1> USE BoundsHold DEF Bounds
<1>0. audit \in [Attempt -> {"none", "RETRY"} \cup Ended]
  BY DEF Typed, TypeOK
<1>1. CASE UNCHANGED <<row, audit>>
  BY <1>0, <1>1, Parts
<1>2. CASE row.attempt < row.max /\ row' = ClaimedRow /\ audit' = audit
  <2>1. row.attempt + 1 \in Attempt /\ row.attempt + 1 <= row.max
    <3>1. row.max \in 1 .. Limit
      BY Parts DEF RowSet
    <3> QED BY <1>2, <3>1, Parts
  <2>2. row' = [row EXCEPT !.status = "SENDING", !.attempt = row.attempt + 1, !.lapsed = FALSE]
    BY <1>2 DEF ClaimedRow
  <2>3. row' \in RowSet
    BY <2>1, <2>2, Parts DEF RowSet, Status
  <2>4. row'.attempt = row.attempt + 1 /\ row'.max = row.max
    BY <2>2, Parts DEF RowSet
  <2> QED BY <1>0, <1>2, <2>1, <2>3, <2>4
<1>3. ASSUME NEW status \in {"DELIVERED", "SUPPRESSED", "RETRY", "FAILED"}, WriteOutcome(s, status)
      PROVE  /\ row' \in RowSet /\ row'.attempt <= row'.max /\ row'.max = row.max
             /\ row'.attempt \in {row.attempt, row.attempt + 1}
             /\ audit' \in [Attempt -> {"none", "RETRY"} \cup Ended]
  BY <1>0, <1>3, Parts DEF WriteOutcome, RowSet, Status, Ended
<1> QED BY <1>1, <1>2, <1>3 DEF RowStep

LEMMA TypedSlot ==
  ASSUME Typed, NEW s \in Slot, SlotStep(s)
  PROVE  Typed'
<1> USE BoundsHold DEF Bounds
<1>1. RowStep(s) /\ UNCHANGED <<kind, deliverable, reconciler, user, requests>>
  BY EveryRowStep
<1>2. /\ shown' \in Nat /\ deleted' \in Nat /\ sends' \in Nat
      /\ budget' \in 0 .. FaultBudget
  BY DEF Typed, TypeOK, SlotStep, Process, StartJob, Claim, Load, SendWebhook, FindNotification,
         CreateNotification, RereadNotification, RecordDelivered, Suppress, Fail, DatabaseError,
         CommitUnheard, SlotCrash, SpendFault, noteVars, envVars
<1>3. \/ EndJob(s)
      \/ UNCHANGED jobVars /\ slot' \in [Slot -> SlotRow]
      \/ StartJob(s)
  <2> USE SlotMoves DEF SlotPc, Error
  <2>1. CASE Claim(s)
    BY <2>1 DEF Claim
  <2>2. CASE Load(s)
    <3> DEFINE pc == IF ~deliverable THEN "suppress" ELSE IF kind = "IN_APP" THEN "find" ELSE "send"
               new == [slot[s] EXCEPT !.attempt = row.attempt, !.max = row.max,
                                      !.ok = deliverable, !.pc = pc]
    <3>1. slot' = [slot EXCEPT ![s] = new] /\ UNCHANGED jobVars
      BY <2>2, Parts DEF Load
    <3>2. pc \in SlotPc /\ deliverable \in BOOLEAN
      BY DEF Typed, TypeOK
    <3>3. row.attempt \in {0} \cup Attempt /\ row.max \in {0} \cup Attempt
      BY Parts DEF RowSet
    <3>4. new \in SlotRow
      <4>1. ASSUME NEW old \in SlotRow, NEW q \in SlotPc, NEW ok \in BOOLEAN,
                   NEW m \in {0} \cup Attempt, NEW n \in {0} \cup Attempt
            PROVE  [old EXCEPT !.attempt = m, !.max = n, !.ok = ok, !.pc = q] \in SlotRow
        BY ONLY <4>1 DEF SlotRow
      <4>2. slot[s] \in SlotRow
        BY Parts
      <4> HIDE DEF pc
      <4> QED BY ONLY <3>2, <3>3, <4>1, <4>2
    <3> QED BY <3>1, <3>4, Parts
  <2>3. CASE SendWebhook(s)
    BY <2>3 DEF SendWebhook
  <2>4. CASE FindNotification(s) \/ CreateNotification(s) \/ RereadNotification(s)
    BY <2>4 DEF FindNotification, CreateNotification, RereadNotification
  <2>5. CASE RecordDelivered(s)
    BY <2>5 DEF RecordDelivered
  <2>6. CASE Suppress(s) \/ Fail(s)
    BY <2>6 DEF Suppress, Fail
  <2>7. CASE DatabaseError(s) \/ CommitUnheard(s)
    BY <2>7 DEF DatabaseError, CommitUnheard, Thrown
  <2>8. CASE SlotCrash(s)
    BY <2>8 DEF SlotCrash
  <2> QED BY <2>1, <2>2, <2>3, <2>4, <2>5, <2>6, <2>7, <2>8 DEF SlotStep, Process
<1>4. /\ job' \in {"none", "waiting", "active"} /\ lock' \in Slot \cup {NoSlot}
      /\ job' = "active" <=> lock' # NoSlot
      /\ stalls' \in 0 .. MaxStalled
      /\ slot' \in [Slot -> SlotRow]
  <2>1. CASE StartJob(s)
    BY <2>1, SlotMoves, NotificationAssumption DEF StartJob, SlotPc, Typed, TypeOK
  <2>2. CASE UNCHANGED jobVars /\ slot' \in [Slot -> SlotRow]
    BY <2>2 DEF jobVars, Typed, TypeOK
  <2> QED BY <1>3, <2>1, <2>2, EndJobTypes
<1> QED BY <1>1, <1>2, <1>4, TypedRow DEF Typed, TypeOK, MaxIsEarned, Retries, SlotRow, RowSet

LEMMA TypedStep ==
  ASSUME Typed, [Next]_vars
  PROVE  Typed'
<1>1. CASE UNCHANGED vars
  BY <1>1 DEF vars, rowVars, noteVars, jobVars, envVars, Typed, TypeOK, MaxIsEarned, Retries
<1> QED BY <1>1, TypedQueue, TypedUser, TypedSlot DEF Next, SlotStep

\* Types hold for any constants; above all, no claim and no retry lets attempt pass
\* max_attempts, nor max_attempts what the retries asked for.
THEOREM TypeCorrect == Spec => []TypeOK
<1>1. Spec => []Typed
  BY TypedInit, TypedStep, PTL DEF Spec
<1> QED BY <1>1, PTL DEF Typed
-----------------------------------------------------------------------------
(* The ways a step goes, for the invariants below *)

OtherStep ==
  /\ UNCHANGED <<kind, audit, sends, slot>>
  /\ \/ UNCHANGED <<shown, deleted>>
     \/ shown > 0 /\ shown' = shown - 1 /\ deleted' = deleted + 1
  /\ row'.attempt = row.attempt /\ row'.status \in {row.status, "PENDING"}

LEMMA StepIsSlotOrOther ==
  ASSUME Typed, [Next]_vars
  PROVE  OtherStep \/ \E s \in Slot : SlotStep(s)
<1>0. row \in RowSet
  BY Parts
<1>1. ASSUME NEW r \in Reconciler, Reconcile(r) \/ ReconcilerCrash(r) PROVE OtherStep
  BY <1>1 DEF Reconcile, StartPass, GetJob, GetState, Remove, Add, ReconcilerCrash, rowVars, noteVars, OtherStep
<1>2. CASE Stalled \/ FalseStall \/ RedisLoss \/ RetryRead \/ EditChannel \/ DeleteNotification
  BY <1>2 DEF Stalled, FalseStall, RedisLoss, RetryRead, EditChannel, DeleteNotification, rowVars,
              noteVars, OtherStep
<1>3. CASE RetryUpdate
  <2>1. row' = [row EXCEPT !.status = "PENDING", !.max = row.max + MaxAttempts,
                           !.due = TRUE, !.lapsed = FALSE]
    BY <1>3 DEF RetryUpdate
  <2>2. row'.attempt = row.attempt /\ row'.status = "PENDING"
    BY <1>0, <2>1 DEF RowSet
  <2> QED BY <1>3, <2>2 DEF RetryUpdate, noteVars, OtherStep
<1>4. CASE BackoffEnds \/ LeaseLapses
  <2>1. row' = [row EXCEPT !.due = TRUE] \/ row' = [row EXCEPT !.lapsed = TRUE]
    BY <1>4 DEF BackoffEnds, LeaseLapses
  <2>2. row'.attempt = row.attempt /\ row'.status = row.status
    BY ONLY <1>0, <2>1 DEF RowSet
  <2> QED BY <1>4, <2>2 DEF BackoffEnds, LeaseLapses, noteVars, OtherStep
<1>5. CASE UNCHANGED vars
  BY <1>5 DEF vars, rowVars, noteVars, OtherStep
<1> QED BY <1>1, <1>2, <1>3, <1>4, <1>5 DEF Next, SlotStep

\* What a slot's step does to its own place, to sends and to the notifications.
Rests(s) ==
  slot'[s].pc \in {"idle", "claim"} /\ UNCHANGED <<sends, shown, deleted>>

Claims(s) ==
  /\ slot[s].pc = "claim" /\ slot'[s].pc = "load"
  /\ row' = ClaimedRow /\ UNCHANGED <<sends, shown, deleted>>

Loads(s) ==
  /\ slot[s].pc = "load"
  /\ slot'[s].pc \in {"suppress", IF kind = "IN_APP" THEN "find" ELSE "send"}
  /\ slot'[s].attempt = row.attempt
  /\ UNCHANGED <<row, sends, shown, deleted>>

Calls(s) ==
  /\ slot[s].pc \in {"send", "find"}
  /\ slot'[s].pc \in {"record", "suppress", "create", "fail"}
  /\ slot'[s].pc = "record" => slot[s].pc = "send" \/ shown > 0
  /\ slot'[s].attempt = slot[s].attempt
  /\ sends' = sends + 1 /\ UNCHANGED <<row, shown, deleted>>

Shows(s) ==
  /\ slot[s].pc = "create" /\ slot'[s].pc \in {"record", "reread", "fail"}
  /\ slot'[s].attempt = slot[s].attempt
  /\ shown' = (IF shown = 0 THEN 1 ELSE shown) /\ UNCHANGED <<sends, deleted>>

Rereads(s) ==
  /\ slot[s].pc = "reread" /\ slot'[s].pc \in {"record", "fail"}
  /\ slot'[s].pc = "record" => shown > 0
  /\ slot'[s].attempt = slot[s].attempt
  /\ UNCHANGED <<sends, shown, deleted>>

Catches(s) ==
  /\ slot[s].pc \in {"find", "create", "reread", "record"} /\ slot'[s].pc = "fail"
  /\ slot'[s].attempt = slot[s].attempt
  /\ UNCHANGED <<sends, shown, deleted>>

SlotGo(s) ==
  \/ Rests(s) \/ Claims(s) \/ Loads(s) \/ Calls(s) \/ Shows(s) \/ Rereads(s) \/ Catches(s)

LEMMA SlotGoes ==
  ASSUME Typed, NEW s \in Slot, SlotStep(s)
  PROVE  SlotGo(s) /\ \A t \in Slot \ {s} : slot'[t] = slot[t]
<1> USE DEF SlotGo, noteVars
<1>1. slot \in [Slot -> SlotRow] /\ shown \in Nat
  BY Parts DEF Typed, TypeOK
<1>2. ASSUME EndJob(s) PROVE slot'[s].pc = "idle" /\ \A t \in Slot \ {s} : slot'[t] = slot[t]
  BY <1>1, <1>2 DEF EndJob, IdleSlot
<1>3. ASSUME NEW e, CatchWith(s, e)
      PROVE  /\ slot'[s].pc = "fail" /\ slot'[s].attempt = slot[s].attempt
             /\ \A t \in Slot \ {s} : slot'[t] = slot[t]
  BY <1>1, <1>3 DEF CatchWith, SlotRow
<1>4. ASSUME NEW pc, Goto(s, pc)
      PROVE  /\ slot'[s].pc = pc /\ slot'[s].attempt = slot[s].attempt
             /\ \A t \in Slot \ {s} : slot'[t] = slot[t]
  BY <1>1, <1>4 DEF Goto, SlotRow
<1>5. CASE StartJob(s)
  BY <1>4, <1>5 DEF StartJob, Rests
<1>6. CASE Claim(s)
  BY <1>2, <1>4, <1>6 DEF Claim, At, Claims, Rests
<1>7. CASE Load(s)
  <2>1. slot'[s].attempt = row.attempt
        /\ slot'[s].pc = IF ~deliverable THEN "suppress" ELSE IF kind = "IN_APP" THEN "find" ELSE "send"
    BY <1>1, <1>7 DEF Load, SlotRow
  <2>2. \A t \in Slot \ {s} : slot'[t] = slot[t]
    BY <1>1, <1>7 DEF Load
  <2> QED BY <1>7, <2>1, <2>2 DEF Load, At, Loads, rowVars, noteVars
<1>8. CASE SendWebhook(s)
  BY <1>3, <1>4, <1>8 DEF SendWebhook, At, Calls, rowVars, noteVars
<1>9. CASE FindNotification(s)
  <2>1. PICK pc \in {"suppress", "record", "create"} : Goto(s, pc) /\ (pc = "record" => shown > 0)
    BY <1>9 DEF FindNotification
  <2> QED BY <1>4, <1>9, <2>1 DEF FindNotification, At, Calls, rowVars, noteVars
<1>10. CASE CreateNotification(s)
  BY <1>4, <1>10 DEF CreateNotification, At, Shows
<1>11. CASE RecordDelivered(s)
  BY <1>2, <1>3, <1>11 DEF RecordDelivered, At, Rests, Catches
<1>12. CASE Suppress(s) \/ Fail(s)
  BY <1>2, <1>12 DEF Suppress, Fail, Rests
<1>13. CASE DatabaseError(s)
  BY <1>2, <1>3, <1>13 DEF DatabaseError, Thrown, Rests, Catches
<1>14. CASE CommitUnheard(s)
  <2>1. sends' = sends
    BY <1>14 DEF CommitUnheard
  <2>2. CASE slot[s].pc = "create"
    BY <1>3, <1>14, <2>1, <2>2 DEF CommitUnheard, Thrown, Shows, At
  <2>3. CASE slot[s].pc # "create"
    BY <1>2, <1>3, <1>14, <2>1, <2>3 DEF CommitUnheard, Thrown, Rests, Catches, At
  <2> QED BY <2>2, <2>3
<1>15. CASE SlotCrash(s)
  BY <1>1, <1>15 DEF SlotCrash, IdleSlot, Rests
<1>16. CASE RereadNotification(s)
  BY <1>3, <1>4, <1>16 DEF RereadNotification, At, Rereads
<1> QED BY <1>5, <1>6, <1>7, <1>8, <1>9, <1>10, <1>11, <1>12, <1>13, <1>14, <1>15, <1>16
       DEF SlotStep, Process
-----------------------------------------------------------------------------
(* The attempt history *)

\* An attempt's record, once written, is never written again: the unique index makes the
\* second of two writers of one attempt fail.
THEOREM HistoryIsFinal == Spec => AttemptIsRecordedOnce
<1>1. ASSUME Typed, [Next]_vars
      PROVE  [\A n \in Attempt : audit[n] # "none" => audit'[n] = audit[n]]_vars
  <2>0. audit \in [Attempt -> {"none", "RETRY"} \cup Ended]
    BY <1>1 DEF Typed, TypeOK
  <2>1. CASE OtherStep
    BY <2>1 DEF OtherStep
  <2>2. ASSUME NEW s \in Slot, SlotStep(s)
        PROVE  \A n \in Attempt : audit[n] # "none" => audit'[n] = audit[n]
    <3>1. RowStep(s)
      BY <2>2, EveryRowStep
    <3>2. audit' = audit \/ \E status : audit[slot[s].attempt] = "none"
                                        /\ audit' = [audit EXCEPT ![slot[s].attempt] = status]
      BY <3>1 DEF RowStep, WriteOutcome, NewAttemptRow
    <3> QED BY <2>0, <3>2
  <2> QED BY <1>1, <2>1, <2>2, StepIsSlotOrOther
<1>2. Spec => []Typed
  BY TypedInit, TypedStep, PTL DEF Spec
<1> QED BY <1>1, <1>2, PTL DEF Spec, AttemptIsRecordedOnce
-----------------------------------------------------------------------------
(* Every outcome is in the history *)

\* A worker past its claim holds the number of an attempt the row has counted.
AttemptIsCounted ==
  \A s \in Slot :
    /\ slot[s].pc = "load" => row.attempt >= 1
    /\ slot[s].pc \in {"send", "find", "create", "reread", "record", "suppress", "fail"}
         => slot[s].attempt \in 1 .. row.attempt

Audited == Typed /\ AttemptIsCounted /\ OutcomeIsAudited

LEMMA AuditedInit == Init => Audited
BY TypedInit DEF Init, Audited, AttemptIsCounted, OutcomeIsAudited, IdleSlot, Ended

LEMMA AttemptIsCountedStep ==
  ASSUME Audited, NEW s \in Slot, SlotStep(s)
  PROVE  AttemptIsCounted'
<1>1. Typed /\ RowStep(s)
  BY EveryRowStep DEF Audited
<1>2. row.attempt \in Nat /\ row'.attempt \in {row.attempt, row.attempt + 1}
  BY <1>1, TypedRow, Parts
<1>3. ASSUME NEW t \in Slot \ {s}
      PROVE  /\ slot'[t].pc = "load" => row'.attempt >= 1
             /\ slot'[t].pc \in {"send", "find", "create", "reread", "record", "suppress", "fail"}
                  => slot'[t].attempt \in 1 .. row'.attempt
  <2>1. slot'[t] = slot[t]
    BY <1>1, SlotGoes
  <2> QED BY <1>2, <2>1 DEF Audited, AttemptIsCounted
<1>4. /\ slot'[s].pc = "load" => row'.attempt >= 1
      /\ slot'[s].pc \in {"send", "find", "create", "reread", "record", "suppress", "fail"}
           => slot'[s].attempt \in 1 .. row'.attempt
  <2>1. CASE Rests(s)
    BY <2>1 DEF Rests
  <2>2. CASE Claims(s)
    <3>1. row' = [row EXCEPT !.status = "SENDING", !.attempt = row.attempt + 1, !.lapsed = FALSE]
      BY <2>2 DEF Claims, ClaimedRow
    <3>2. row \in RowSet
      BY <1>1, Parts
    <3>3. row'.attempt = row.attempt + 1
      BY ONLY <3>1, <3>2 DEF RowSet
    <3> QED BY <1>2, <2>2, <3>3 DEF Claims
  <2>3. CASE Loads(s)
    <3>1. row.attempt >= 1
      BY <2>3 DEF Loads, Audited, AttemptIsCounted
    <3> QED BY <1>2, <2>3, <3>1 DEF Loads
  <2>4. CASE Calls(s) \/ Shows(s) \/ Rereads(s) \/ Catches(s)
    <3>1. /\ slot[s].attempt \in 1 .. row.attempt /\ slot'[s].attempt = slot[s].attempt
          /\ slot'[s].pc # "load"
      BY <2>4 DEF Calls, Shows, Rereads, Catches, Audited, AttemptIsCounted
    <3> QED BY <1>2, <3>1
  <2> QED BY <1>1, <2>1, <2>2, <2>3, <2>4, SlotGoes DEF SlotGo
<1> QED BY <1>3, <1>4 DEF AttemptIsCounted

LEMMA OutcomeIsAuditedStep ==
  ASSUME Audited, NEW s \in Slot, SlotStep(s)
  PROVE  OutcomeIsAudited'
<1> USE DEF Ended
<1>1. Typed /\ RowStep(s) /\ row \in RowSet
  BY EveryRowStep, Parts DEF Audited
<1>2. CASE UNCHANGED <<row, audit>>
  BY <1>2 DEF Audited, OutcomeIsAudited
<1>3. CASE row' = ClaimedRow /\ audit' = audit
  <2>1. row'.status = "SENDING"
    BY <1>1, <1>3 DEF ClaimedRow, RowSet
  <2> QED BY <2>1 DEF OutcomeIsAudited
<1>4. ASSUME NEW status \in {"DELIVERED", "SUPPRESSED", "RETRY", "FAILED"},
             slot[s].pc \in {"record", "suppress", "fail"}, WriteOutcome(s, status)
      PROVE  OutcomeIsAudited'
  <2>1. slot[s].attempt \in 1 .. row.attempt
    BY <1>4 DEF Audited, AttemptIsCounted
  <2>2. row'.status = status /\ row'.attempt = row.attempt
    BY <1>1, <1>4 DEF WriteOutcome, RowSet
  <2>3. slot[s].attempt \in Attempt
    BY <1>1, <2>1, BoundsHold, Parts DEF RowSet
  <2>4. audit'[slot[s].attempt] = status
    BY <1>1, <1>4, <2>3 DEF WriteOutcome, Typed, TypeOK
  <2> QED BY <2>1, <2>2, <2>4 DEF OutcomeIsAudited
<1> QED BY <1>1, <1>2, <1>3, <1>4 DEF RowStep

\* A delivery that says DELIVERED, SUPPRESSED, FAILED or RETRY has the attempt that made
\* it so in its history, whoever else wrote to the row since.
THEOREM OutcomesAudited == Spec => []OutcomeIsAudited
<1>1. ASSUME Audited, [Next]_vars PROVE Audited'
  <2>1. Typed'
    BY <1>1, TypedStep DEF Audited
  <2>2. CASE OtherStep
    BY <1>1, <2>1, <2>2 DEF Audited, OtherStep, AttemptIsCounted, OutcomeIsAudited, Ended
  <2>3. ASSUME NEW s \in Slot, SlotStep(s) PROVE Audited'
    BY <1>1, <2>1, <2>3, AttemptIsCountedStep, OutcomeIsAuditedStep DEF Audited
  <2> QED BY <1>1, <2>2, <2>3, StepIsSlotOrOther DEF Audited
<1> QED BY <1>1, AuditedInit, PTL DEF Spec, Audited
-----------------------------------------------------------------------------
(* One notification *)

\* The notification is there, or the user has deleted it.
WasShown == shown + deleted >= 1

\* Only a processor that found or made the notification reports an in-app delivery; the user
\* may delete it before the report.
ShownBeforeRecorded ==
  kind = "IN_APP" => /\ shown <= 1
                     /\ row.status = "DELIVERED" => WasShown
                     /\ \A s \in Slot : /\ slot[s].pc # "send"
                                        /\ slot[s].pc = "record" => WasShown

\* However many processors, attempts, lost answers and deletions there are, the unique index
\* leaves at most one notification of a delivery at a time, so that a second one is made only
\* after the user deleted the first; and none is reported delivered that was never there.
THEOREM NotifiedAtMostOnce == Spec => []NotifiedOnce
<1> DEFINE Inv == Typed /\ ShownBeforeRecorded
<1>1. Init => Inv
  BY TypedInit DEF Init, ShownBeforeRecorded, IdleSlot
<1>2. ASSUME Inv, [Next]_vars PROVE Inv'
  <2>0. Typed /\ Typed' /\ shown \in Nat /\ deleted \in Nat
    BY <1>2, TypedStep DEF Typed, TypeOK
  <2>1. CASE OtherStep
    BY <1>2, <2>0, <2>1 DEF OtherStep, ShownBeforeRecorded, WasShown
  <2>2. ASSUME NEW s \in Slot, SlotStep(s), kind' = "IN_APP"
        PROVE  /\ shown' <= 1
               /\ row'.status = "DELIVERED" => WasShown'
               /\ \A t \in Slot : slot'[t].pc # "send" /\ (slot'[t].pc = "record" => WasShown')
    <3>1. kind = "IN_APP" /\ RowStep(s) /\ row \in RowSet
      BY <2>0, <2>2, EveryRowStep, Parts
    <3>2. /\ shown <= 1 /\ (row.status = "DELIVERED" => WasShown)
          /\ \A t \in Slot : slot[t].pc # "send" /\ (slot[t].pc = "record" => WasShown)
      BY <1>2, <3>1 DEF ShownBeforeRecorded
    <3>3. SlotGo(s) /\ \A t \in Slot \ {s} : slot'[t] = slot[t]
      BY <2>0, <2>2, SlotGoes
    <3>4. shown' <= 1 /\ (WasShown => WasShown')
      BY <2>0, <3>2, <3>3 DEF SlotGo, Rests, Claims, Loads, Calls, Shows, Rereads, Catches, WasShown
    <3>5. slot'[s].pc # "send" /\ (slot'[s].pc = "record" => WasShown')
      BY <2>0, <3>1, <3>2, <3>3 DEF SlotGo, Rests, Claims, Loads, Calls, Shows, Rereads, Catches, WasShown
    <3>6. row'.status = "DELIVERED" => row.status = "DELIVERED" \/ slot[s].pc = "record"
      BY <3>1 DEF RowStep, ClaimedRow, WriteOutcome, RowSet
    <3> QED BY <3>2, <3>3, <3>4, <3>5, <3>6
  <2>3. ASSUME NEW s \in Slot, SlotStep(s) PROVE ShownBeforeRecorded'
    BY <2>2, <2>3 DEF ShownBeforeRecorded
  <2> QED BY <1>2, <2>0, <2>1, <2>3, StepIsSlotOrOther
<1>3. Inv => NotifiedOnce
  BY DEF ShownBeforeRecorded, WasShown, NotifiedOnce
<1> QED BY <1>1, <1>2, <1>3, PTL DEF Spec
-----------------------------------------------------------------------------
(* Bounded sends *)

\* Slots that claimed the row and have not yet called the channel.
BeforeCall == {s \in Slot : slot[s].pc \in {"load", "send", "find"}}

CallsReserved == sends + Cardinality(BeforeCall) <= row.attempt

LEMMA BeforeCallIsFinite == IsFiniteSet(BeforeCall) /\ Cardinality(BeforeCall) \in Nat
<1>1. IsFiniteSet(BeforeCall)
  BY NotificationAssumption, FS_Subset DEF BeforeCall
<1> QED BY <1>1, FS_CardinalityType

LEMMA CallsReservedStep ==
  ASSUME Typed, CallsReserved, NEW s \in Slot, SlotStep(s)
  PROVE  CallsReserved'
<1>1. SlotGo(s) /\ \A t \in Slot \ {s} : slot'[t] = slot[t]
  BY SlotGoes
<1>2. sends \in Nat /\ row.attempt \in Nat /\ row'.attempt \in {row.attempt, row.attempt + 1}
  BY EveryRowStep, TypedRow, Parts DEF Typed, TypeOK
<1> DEFINE B == BeforeCall
           C == BeforeCall'
<1>3. IsFiniteSet(B) /\ Cardinality(B) \in Nat /\ sends + Cardinality(B) <= row.attempt
  BY BeforeCallIsFinite DEF CallsReserved
<1>4. C = {t \in Slot : slot'[t].pc \in {"load", "send", "find"}}
  BY DEF BeforeCall
<1>5. \A t \in Slot \ {s} : t \in C <=> t \in B
  BY <1>1, <1>4 DEF BeforeCall
<1>6. CASE Claims(s)
  <2>1. row'.attempt = row.attempt + 1
    <3>1. row' = [row EXCEPT !.status = "SENDING", !.attempt = row.attempt + 1, !.lapsed = FALSE]
      BY <1>6 DEF Claims, ClaimedRow
    <3>2. row \in RowSet
      BY Parts
    <3> QED BY ONLY <3>1, <3>2 DEF RowSet
  <2>2. C = B \cup {s} /\ s \notin B
    BY <1>4, <1>5, <1>6 DEF Claims, BeforeCall
  <2>3. Cardinality(C) = Cardinality(B) + 1
    BY <1>3, <2>2, FS_AddElement
  <2> QED BY <1>2, <1>3, <1>6, <2>1, <2>3 DEF Claims, CallsReserved
<1>7. CASE Calls(s)
  <2>1. C = B \ {s} /\ s \in B
    BY <1>4, <1>5, <1>7 DEF Calls, BeforeCall
  <2>2. Cardinality(C) = Cardinality(B) - 1
    BY <1>3, <2>1, FS_RemoveElement
  <2>3. row' = row /\ sends' = sends + 1
    BY <1>7 DEF Calls
  <2> QED BY <1>2, <1>3, <2>2, <2>3 DEF CallsReserved
<1>8. CASE Rests(s) \/ Loads(s) \/ Shows(s) \/ Rereads(s) \/ Catches(s)
  <2>1. s \in C => s \in B
    BY <1>4, <1>8 DEF Rests, Loads, Shows, Rereads, Catches, BeforeCall
  <2>2. C \subseteq B
    BY <1>4, <1>5, <2>1
  <2>3. Cardinality(C) <= Cardinality(B) /\ Cardinality(C) \in Nat
    BY <1>3, <2>2, FS_Subset, FS_CardinalityType
  <2>4. sends' = sends
    BY <1>8 DEF Rests, Loads, Shows, Rereads, Catches
  <2> QED BY <1>2, <1>3, <2>3, <2>4 DEF CallsReserved
<1> QED BY <1>1, <1>6, <1>7, <1>8 DEF SlotGo

\* A claim pays for one call of the channel: there are never more calls than attempts
\* counted, whoever dies, takes over or loses an answer on the way.
THEOREM SendsCounted == Spec => []SendsAreCounted
<1> DEFINE Inv == Typed /\ CallsReserved
<1>1. Init => Inv
  <2> SUFFICES ASSUME Init PROVE Inv
    OBVIOUS
  <2>1. BeforeCall = {}
    BY DEF Init, BeforeCall, IdleSlot
  <2> QED BY <2>1, TypedInit, FS_EmptySet DEF Init, CallsReserved
<1>2. ASSUME Inv, [Next]_vars PROVE Inv'
  <2>1. CASE OtherStep
    <3>1. BeforeCall' = BeforeCall
      BY <2>1 DEF OtherStep, BeforeCall
    <3> QED BY <1>2, <2>1, <3>1, TypedStep DEF OtherStep, CallsReserved
  <2> QED BY <1>2, <2>1, TypedStep, StepIsSlotOrOther, CallsReservedStep
<1>3. Inv => SendsAreCounted
  BY BeforeCallIsFinite, Parts DEF CallsReserved, SendsAreCounted, Typed, TypeOK
<1> QED BY <1>1, <1>2, <1>3, PTL DEF Spec
=============================================================================
