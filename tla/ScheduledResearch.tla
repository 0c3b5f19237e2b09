-------------------------- MODULE ScheduledResearch --------------------------
(***************************************************************************)
(* One scheduled research task (CRON or condition, due again and again):   *)
(* its due times, the executions they leave and the Agent Runs they ask    *)
(* for.  Scanners (scheduler processes) share it through a lease; Api is   *)
(* the user's manual run.  Every await between two statements is a point   *)
(* where others may run.                                                   *)
(***************************************************************************)
EXTENDS AgentIntake

CONSTANTS
  Scanner,      \* scheduler processes; `ticking` keeps each to one tick at a time
  Api,          \* API requests of the task's user, one after the other
  Deployment,   \* bound: the sets of these that run together
  Horizon,      \* bound: the last due time the clock reaches
  MaxVersion,   \* bound: edits of the task
  RunEnds,      \* bound: the outcomes runs come to
  FaultBudget   \* bound: crashes, failed database calls and ticks longer than the lease

ASSUME ScheduledResearchAssumption ==
  /\ Api \notin Scanner
  /\ Requester = Scanner \cup {Api} /\ Deployment \subseteq SUBSET Requester
  /\ Horizon \in Nat \ {0} /\ MaxVersion \in Nat \ {0} /\ FaultBudget \in Nat
  /\ RunEnds \subseteq Outcome
  /\ Request = 1 .. Horizon + 1

Manual    == Horizon + 1    \* the execution with requestKey manual:<clientRequestId>
Execution == Request        \* the others by scheduledFor; each asks for one run at most
NoTime    == 0
DueTime   == 1 .. Horizon + 2             \* a resume may pass over one

Undecided == {"PENDING", "DEFERRED"}
Linked    == {"QUEUED", "RUNNING", "SUCCEEDED", "CANCELLED"}
ExecutionStatus == {"none", "FAILED", "SKIPPED"} \cup Undecided \cup Linked
Gate      == {"READY", "DEFERRED", "SKIPPED", "CONDITION_NOT_MET"}

VARIABLES
  clock,      \* due times that have come
  task,       \* row of ai_scheduled_tasks: status, version, nextRunAt, owner, lapsed
  execution,  \* rows of ai_task_executions: status, linked (run_id is not null)
  at,         \* what each requester does and has read
  budget

vars == <<intakeVars, clock, task, execution, at, budget>>

Idle == [pc |-> "idle", now |-> 0, version |-> 0, exec |-> 1,
         todo |-> {}, gone |-> FALSE, seen |-> {}]
Pc == {"off", "idle", "load", "gate", "defer", "skip", "send", "commit", "queue", "fail",
       "finish", "deferred", "next", "refresh", "write"}

TypeOK ==
  /\ IntakeTypeOK
  /\ clock \in 0 .. Horizon
  /\ task \in [status : {"ACTIVE", "PAUSED", "DELETED"}, version : 1 .. MaxVersion,
               nextRunAt : {NoTime} \cup DueTime, owner : Scanner \cup {NoRequester},
               lapsed : BOOLEAN]
  /\ execution \in [Execution -> [status : ExecutionStatus, linked : BOOLEAN]]
  /\ at \in [Requester ->
       [pc : Pc, now : 0 .. Horizon, version : 0 .. MaxVersion, exec : Execution,
        todo : SUBSET Execution, gone : BOOLEAN, seen : SUBSET (Execution \X ExecutionStatus)]]
  /\ budget \in 0 .. FaultBudget

\* A task before its first due time.
Init ==
  /\ IntakeInit
  /\ clock = 0
  /\ task = [status |-> "ACTIVE", version |-> 1, nextRunAt |-> 1, owner |-> NoRequester,
             lapsed |-> FALSE]
  /\ execution = [e \in Execution |-> [status |-> "none", linked |-> FALSE]]
  /\ \E on \in Deployment :
       at = [p \in Requester |-> IF p \in on THEN Idle ELSE [Idle EXCEPT !.pc = "off"]]
  /\ budget = FaultBudget

SpendFault == budget > 0 /\ budget' = budget - 1

At(p, pc)       == at[p].pc = pc
Goto(p, pc)     == at' = [at EXCEPT ![p].pc = pc]
Reconciling(p)  == at[p].version = 0       \* past scanDue's loop over the due tasks

\* Where a requester goes when it is done with an execution, and where an error it does
\* not catch on the way takes it.
AfterExecution(p) ==
  IF p = Api THEN "idle" ELSE IF Reconciling(p) THEN "next" ELSE "finish"
Done(p) == at' = [at EXCEPT ![p].pc = AfterExecution(p), ![p].exec = 1]
Abort(p) == at' = [at EXCEPT ![p] = Idle]
-----------------------------------------------------------------------------
(* scanDue: claim, process, give back *)

Free == task.owner = NoRequester \/ task.lapsed
Due(now) == task.status = "ACTIVE" /\ task.nextRunAt # NoTime /\ task.nextRunAt <= now

\* Mutant: a lease that ran out is never taken over.
ClaimDueUnowned(p) ==
  /\ At(p, "idle")
  /\ IF Due(clock) /\ task.owner = NoRequester
     THEN /\ task' = [task EXCEPT !.owner = p, !.lapsed = FALSE]
          /\ at' = [at EXCEPT ![p].pc = "load", ![p].now = clock]
     ELSE Goto(p, "deferred") /\ UNCHANGED task
  /\ UNCHANGED <<intakeVars, clock, execution, budget>>

\* findDue and claimDue: the first only picks candidates, the second asks everything again.
ClaimDue(p) ==
  /\ At(p, "idle")
  /\ IF Due(clock) /\ Free
     THEN /\ task' = [task EXCEPT !.owner = p, !.lapsed = FALSE]
          /\ at' = [at EXCEPT ![p].pc = "load", ![p].now = clock]
     ELSE Goto(p, "deferred") /\ UNCHANGED task
  /\ UNCHANGED <<intakeVars, clock, execution, budget>>

\* The task is read again; what follows works on this copy.
LoadTask(p) ==
  /\ At(p, "load")
  /\ IF task.owner = p /\ task.status = "ACTIVE" /\ task.nextRunAt # NoTime
     THEN at' = [at EXCEPT ![p].pc = "gate", ![p].version = task.version,
                           ![p].exec = task.nextRunAt]
     ELSE Goto(p, "deferred")
  /\ UNCHANGED <<intakeVars, clock, task, execution, budget>>

\* evaluateGate looks at the trade calendar, the data and the last execution: any answer.
\* A condition counts for neither a manual run nor a deferred one, unless its data missed.
GateAnswers(p) == IF p = Api THEN Gate \ {"CONDITION_NOT_MET"} ELSE Gate

AfterGate(p, gate, linked) ==
  CASE gate = "DEFERRED" -> "defer"
    [] gate = "SKIPPED"  -> "skip"
    [] gate = "READY"    -> IF linked THEN AfterExecution(p) ELSE "send"
    [] OTHER             -> IF Reconciling(p) THEN "skip" ELSE "finish"

\* evaluateGate and createExecutionOnce: a unique key makes it find what is there already.
GateAndCreate(p) ==
  /\ At(p, "gate")
  /\ LET e == at[p].exec IN
     \E gate \in GateAnswers(p) :
       /\ Goto(p, AfterGate(p, gate, execution[e].linked))
       /\ execution' = IF gate = "CONDITION_NOT_MET" \/ execution[e].status # "none"
                       THEN execution
                       ELSE [execution EXCEPT ![e].status = "PENDING"]
  /\ UNCHANGED <<intakeVars, clock, task, budget>>

\* Mutant: the decision is written by id alone.
DecideUnchecked(e, status, linked) ==
  execution' = [execution EXCEPT ![e] = [status |-> status, linked |-> linked]]

\* deferExecution, skipExecution, queueExecution and failExecution all ask for an
\* execution that is PENDING or DEFERRED, and do nothing otherwise.
Decide(e, status, linked) ==
  execution' = IF execution[e].status \in Undecided
               THEN [execution EXCEPT ![e] = [status |-> status, linked |-> linked]]
               ELSE execution

DecideAndGoOn(p, status, linked) ==
  /\ Decide(at[p].exec, status, linked)
  /\ Done(p)
  /\ UNCHANGED <<intakeVars, clock, task, budget>>

DeferExecution(p) == At(p, "defer") /\ DecideAndGoOn(p, "DEFERRED", FALSE)
SkipExecution(p)  == At(p, "skip")  /\ DecideAndGoOn(p, "SKIPPED", FALSE)
QueueExecution(p) == At(p, "queue") /\ DecideAndGoOn(p, "QUEUED", TRUE)
FailExecution(p)  == At(p, "fail")  /\ DecideAndGoOn(p, "FAILED", FALSE)

\* sendScheduled.  The request hash covers the gate evidence with its evaluatedAt, so a
\* run created on another evaluation is a conflict; only one of the same millisecond with
\* the same answers is taken for the same request.
Send(p) ==
  /\ At(p, "send")
  /\ LET e == at[p].exec IN
     \/ FoundRun(p, e) /\ Goto(p, "queue")
     \/ FoundRun(p, e) /\ Goto(p, "fail")
     \/ QuotaFull(p, e) /\ Goto(p, "fail")
     \/ QuotaFree(p, e) /\ Goto(p, "commit")
  /\ UNCHANGED <<clock, task, execution, budget>>

SendCommit(p) ==
  /\ At(p, "commit")
  /\ CreateRun(p, at[p].exec)
  /\ Goto(p, "queue")
  /\ UNCHANGED <<clock, task, execution, budget>>

\* Strictly after the scan's own `now`; a time already ahead of it is the base.
NextRun(from, now) == (IF from > now THEN from ELSE now) + 1

\* Mutant: the claim is given back by task id alone.
FinishClaimUnfenced(p) ==
  /\ At(p, "finish")
  /\ task' = [task EXCEPT !.nextRunAt = NextRun(@, at[p].now),
                          !.owner = NoRequester, !.lapsed = FALSE]
  /\ at' = [at EXCEPT ![p].pc = "deferred", ![p].version = 0, ![p].now = 0]
  /\ UNCHANGED <<intakeVars, clock, execution, budget>>

FinishClaim(p) ==
  /\ At(p, "finish")
  /\ task' = IF task.status = "ACTIVE" /\ task.version = at[p].version /\ task.owner = p
             THEN [task EXCEPT !.nextRunAt = NextRun(@, at[p].now),
                               !.owner = NoRequester, !.lapsed = FALSE]
             ELSE task
  /\ at' = [at EXCEPT ![p].pc = "deferred", ![p].version = 0, ![p].now = 0]
  /\ UNCHANGED <<intakeVars, clock, execution, budget>>
-----------------------------------------------------------------------------
(* reconcileDeferred and refreshExecutionStatuses: no claim, every scanner does both *)

FindDeferred(p) ==
  /\ At(p, "deferred")
  /\ at' = [at EXCEPT ![p].pc = "next",
                      ![p].todo = {e \in Execution : execution[e].status = "DEFERRED"},
                      ![p].gone = task.status = "DELETED"]
  /\ UNCHANGED <<intakeVars, clock, task, execution, budget>>

\* The next of the deferred executions read, by its frozen snapshot.
NextDeferred(p) ==
  /\ At(p, "next")
  /\ \/ /\ at[p].todo = {}
        /\ at' = [at EXCEPT ![p] = [Idle EXCEPT !.pc = "refresh"]]
     \/ \E e \in at[p].todo, gate \in Gate :
          at' = [at EXCEPT ![p].todo = @ \ {e}, ![p].exec = e,
                           ![p].pc = IF at[p].gone THEN "skip" ELSE AfterGate(p, gate, FALSE)]
  /\ UNCHANGED <<intakeVars, clock, task, execution, budget>>

StatusFromRun(s) ==
  CASE s = "QUEUED"    -> "QUEUED"
    [] s = "RUNNING"   -> "RUNNING"
    [] s = "COMPLETED" -> "SUCCEEDED"
    [] s = "CANCELLED" -> "CANCELLED"
    [] OTHER           -> "FAILED"

\* Mutant: a run that ended is not looked at any more.
FindUnfinishedActive(p) ==
  /\ At(p, "refresh")
  /\ at' = [at EXCEPT
       ![p].pc = "write",
       ![p].seen = {<<e, StatusFromRun(runs[e])>> : e \in
         {f \in Execution : /\ execution[f].linked
                            /\ execution[f].status = "QUEUED"
                            /\ execution[f].status # StatusFromRun(runs[f])}}]
  /\ UNCHANGED <<intakeVars, clock, task, execution, budget>>

FindUnfinished(p) ==
  /\ At(p, "refresh")
  /\ at' = [at EXCEPT
       ![p].pc = "write",
       ![p].seen = {<<e, StatusFromRun(runs[e])>> : e \in
         {f \in Execution : /\ execution[f].linked
                            /\ execution[f].status \in {"QUEUED", "RUNNING"}
                            /\ execution[f].status # StatusFromRun(runs[f])}}]
  /\ UNCHANGED <<intakeVars, clock, task, execution, budget>>

\* The status read is written by execution id, after the cost was added up: it may be old.
WriteStatus(p) ==
  /\ At(p, "write")
  /\ \/ /\ at[p].seen = {}
        /\ Abort(p)
        /\ UNCHANGED execution
     \/ \E x \in at[p].seen :
          /\ execution' = [execution EXCEPT ![x[1]].status = x[2]]
          /\ at' = [at EXCEPT ![p].seen = @ \ {x}]
  /\ UNCHANGED <<intakeVars, clock, task, budget>>
-----------------------------------------------------------------------------
(* Faults *)

\* A database call fails.  While an execution is worked on, dispatchExecution and
\* reconcileDeferred turn it into failExecution, processClaimedTask leaves it to scanDue,
\* which gives the claim back all the same; elsewhere the tick or the request ends.
DatabaseError(p) ==
  /\ SpendFault
  /\ RollBack(p)
  /\ \/ at[p].pc \in {"send", "commit", "queue"} /\ Goto(p, "fail")
     \/ /\ p \in Scanner /\ ~Reconciling(p)
        /\ at[p].pc \in {"gate", "defer", "skip", "fail"} /\ Goto(p, "finish")
     \/ /\ p \in Scanner /\ Reconciling(p) /\ ~at[p].gone
        /\ at[p].pc \in {"defer", "skip"} /\ Goto(p, "fail")
     \/ /\ At(p, "next") /\ ~at[p].gone
        /\ \E e \in at[p].todo :
             at' = [at EXCEPT ![p].pc = "fail", ![p].todo = @ \ {e}, ![p].exec = e]
  /\ UNCHANGED <<clock, task, execution>>

\* The commit went through and its answer was lost.
CommitUnheard(p) ==
  /\ At(p, "commit")
  /\ SpendFault
  /\ CreateRun(p, at[p].exec)
  /\ Goto(p, "fail")
  /\ UNCHANGED <<clock, task, execution>>

\* The process dies, or an error ends the tick or the request where it stands.
Crash(p) ==
  /\ at[p].pc \notin {"off", "idle"}
  /\ SpendFault
  /\ RollBack(p)
  /\ Abort(p)
  /\ UNCHANGED <<clock, task, execution>>
-----------------------------------------------------------------------------
(* The user, the lease and the clock *)

\* runNow: a retry comes with the same clientRequestId.
RunNow ==
  /\ At(Api, "idle")
  /\ task.status = "ACTIVE"
  /\ at' = [at EXCEPT ![Api].pc = "gate", ![Api].exec = Manual]
  /\ UNCHANGED <<intakeVars, clock, task, execution, budget>>

\* update, pause, resume and delete: a compare-and-set on the version, which takes the
\* lease from whoever scans.  Update leaves the status alone, also of a paused task.
EditTask ==
  /\ task.version < MaxVersion
  /\ task.status # "DELETED"
  /\ \E status \in {"ACTIVE", "PAUSED", "DELETED"}, next \in {NoTime} \cup DueTime :
       /\ \/ status = task.status /\ next = clock + 1               \* update
          \/ status = "PAUSED" /\ task.status = "ACTIVE" /\ next = NoTime
          \/ /\ status = "ACTIVE" /\ task.status = "PAUSED"          \* resume
             /\ next = NextRun(task.nextRunAt, clock)
          \/ status = "DELETED" /\ next = NoTime
       /\ task' = [status |-> status, version |-> task.version + 1, nextRunAt |-> next,
                   owner |-> NoRequester, lapsed |-> FALSE]
  /\ UNCHANGED <<intakeVars, clock, execution, at, budget>>

\* The lease is not renewed.  That a scanner is still at work under it when it runs out is
\* a fault of its own: a tick takes less than leaseMs but for a few.
AtWork(p) == At(p, "load") \/ ~Reconciling(p)

LeaseLapses ==
  /\ task.owner # NoRequester /\ ~task.lapsed
  /\ task' = [task EXCEPT !.lapsed = TRUE]
  /\ IF AtWork(task.owner) THEN SpendFault ELSE UNCHANGED budget
  /\ UNCHANGED <<intakeVars, clock, execution, at>>

ClockTicks ==
  /\ clock < Horizon
  /\ clock' = clock + 1
  /\ UNCHANGED <<intakeVars, task, execution, at, budget>>

RunStep == RunMoves(RunEnds) /\ UNCHANGED <<clock, task, execution, at, budget>>

Dispatch(p) ==
  \/ GateAndCreate(p) \/ DeferExecution(p) \/ SkipExecution(p) \/ Send(p) \/ SendCommit(p)
  \/ QueueExecution(p) \/ FailExecution(p)

Tick(p) ==
  \/ ClaimDue(p) \/ LoadTask(p) \/ FinishClaim(p)
  \/ FindDeferred(p) \/ NextDeferred(p) \/ FindUnfinished(p) \/ WriteStatus(p)

Next ==
  \/ \E p \in Scanner : Tick(p)
  \/ \E p \in Requester : Dispatch(p) \/ DatabaseError(p) \/ CommitUnheard(p) \/ Crash(p)
  \/ RunNow \/ EditTask \/ LeaseLapses \/ ClockTicks \/ RunStep

Spec == Init /\ [][Next]_vars

\* A scheduler's interval fires again and again and what it started goes on; an API
\* request runs to its end; a lease, which nobody renews, runs out.
Fairness ==
  /\ \A p \in Scanner : WF_vars(Tick(p) \/ Dispatch(p))
  /\ WF_vars(Dispatch(Api))
  /\ WF_vars(task.owner # NoRequester /\ ~AtWork(task.owner) /\ LeaseLapses)

FairSpec == Spec /\ Fairness
-----------------------------------------------------------------------------
(* Properties *)

\* An execution that was skipped or failed without a run keeps that decision, however many
\* scanners and manual runs still work on it with what they read before.
DecisionIsFinal ==
  [][\A e \in Execution :
       execution[e].status \in {"SKIPPED", "FAILED"} /\ ~execution[e].linked
         => execution'[e] = execution[e]]_execution

\* A scanner moves a due time that has come, never the one an edit set meanwhile.
OnlyDueTimesMove ==
  [][task'.version = task.version /\ task'.nextRunAt # task.nextRunAt
       => task.nextRunAt <= clock]_<<task, clock>>

\* A due time does not stay behind when its scanner dies: the lease runs out and another
\* tick moves on.
DueTimePasses ==
  \A t \in 1 .. Horizon : (task.nextRunAt = t /\ Due(clock)) ~> ~(task.nextRunAt = t /\ Due(clock))

\* An execution that knows its run shows the run's outcome in the end and keeps it, also
\* when an old status was written over it in between.
LinkedExecutionSettles ==
  \A e \in Execution :
    (execution[e].linked /\ runs[e] \in Outcome) ~> [](execution[e].status = StatusFromRun(runs[e]))

\* "所有 execution 可关联固定版本、Run、成本和 gate evidence" (batch-020:138): an execution
\* whose run exists is not given up without the run's id.
RunOfExecutionIsKnown ==
  \A e \in Execution :
    execution[e].status \in {"SKIPPED", "FAILED"} /\ runs[e] # "none" => execution[e].linked
=============================================================================
