------------------------------ MODULE AgentRun ------------------------------
(***************************************************************************)
(* Durable execution of one Agent Run: its row in PostgreSQL, its steps,   *)
(* checkpoint, event log and assistant message, and the workers that       *)
(* execute it.  Every action on the row is one database transaction under  *)
(* lockRun's SELECT ... FOR UPDATE; a worker is one delivery of the run's  *)
(* BullMQ job, with an identity of its own, walking through                *)
(* AgentOrchestratorService.resume and WorkflowEngineService.execute.      *)
(* The queue is left out: a delivery may happen at any time, duplicated or *)
(* late, which covers whatever AgentQueue and BullMQ do.                   *)
(***************************************************************************)
EXTENDS Integers

CONSTANTS
  Worker,        \* worker identities, one per delivery (createWorkerIdentity)
  NoWorker,      \* lease_owner IS NULL
  MaxAttempts,   \* ai_agent_runs.max_attempts
  NodeCount,     \* nodes of the frozen workflow; the last one is 'complete'
  EventLimit,    \* bound on event sequence numbers handlers may still use
  Faults         \* which failures the environment may produce

FaultKind == {"crash", "abort", "dbError", "lostAck", "clockSkew"}

ASSUME AgentRunAssumption ==
  /\ NoWorker \notin Worker
  /\ MaxAttempts \in Nat \ {0}
  /\ NodeCount \in Nat \ {0}
  /\ EventLimit \in Nat
  /\ Faults \subseteq FaultKind

Node     == 0 .. NodeCount - 1
LastNode == NodeCount - 1

Terminal   == {"COMPLETED", "FAILED", "CANCELLED"}
Leased     == {"RUNNING", "CANCEL_REQUESTED"}
RunStatus  == {"QUEUED"} \cup Leased \cup Terminal
StepStatus == {"NONE", "PENDING", "RUNNING", "COMPLETED", "FAILED", "CANCELLED"}
TerminalStep == {"COMPLETED", "FAILED", "CANCELLED"}

\* TERMINAL_EVENT_BY_STATUS
TerminalEvent == [COMPLETED |-> "agent.completed",
                  FAILED    |-> "agent.failed",
                  CANCELLED |-> "agent.cancelled"]
EventType == {"message.created", "agent.started", "agent.progress", "tool",
              "model.delta", "agent.completed", "agent.failed", "agent.cancelled"}

Pc == {"idle", "claim", "find", "guard", "create", "existing", "start",
       "restore", "beat", "handler", "guard2", "finish", "complete", "save",
       "err", "failStep", "cancelStep", "catch", "failRun", "cancelRun",
       "done", "ignored", "thrown", "dead"}
InExecute == {"guard", "create", "existing", "start", "beat", "handler", "guard2",
              "finish", "complete", "save", "err", "failStep", "cancelStep"}
Stopped == {"done", "ignored", "thrown", "dead"}
ErrorKind == {"none", "lease", "cancelled", "other"}

VARIABLES
  run,        \* the ai_agent_runs row
  leaseLive,  \* lease_expires_at > clock_timestamp()
  overdue,    \* deadline_at <= clock_timestamp()
  step,       \* ai_agent_steps.status of each node's one attempt, or "NONE"
  events,     \* ai_run_events of the run: sequence numbers and types
  message,    \* status of the assistant message (response_message_id)
  deliveries, \* calls of enqueueForCompletedRun that committed
  worker      \* local state of each delivery

vars == <<run, leaseLive, overdue, step, events, message, deliveries, worker>>
row  == <<run, leaseLive, events, message>>

RunRow == [status     : RunStatus,
           version    : Nat,              \* status_version
           attempt    : 0 .. MaxAttempts,
           owner      : Worker \cup {NoWorker},
           started    : BOOLEAN,          \* started_at IS NOT NULL
           cancelled  : BOOLEAN,          \* cancel_requested_at IS NOT NULL
           nextSeq    : Nat \ {0},        \* next_event_sequence
           checkpoint : 0 .. NodeCount,   \* checkpoint.nextNodeIndex
           cpVersion  : Nat]              \* checkpoint_version

Local == [pc        : Pc,
          node      : 0 .. NodeCount,     \* index of the node at hand
          cpVersion : Nat,                \* checkpointVersion last read
          seen      : Nat,                \* statusVersion last read
          err       : ErrorKind,          \* class of the exception in flight
          beat      : ErrorKind,          \* heartbeatError of withLeaseHeartbeat
          aborted   : BOOLEAN]            \* worker.signal.aborted

TypeOK ==
  /\ run \in RunRow
  /\ leaseLive \in BOOLEAN
  /\ overdue \in BOOLEAN
  /\ step \in [Node -> StepStatus]
  /\ events \subseteq [seq : Nat, type : EventType]
  /\ message \in {"PENDING"} \cup Terminal
  /\ deliveries \in Nat
  /\ worker \in [Worker -> Local]

\* createRun: the row, the PENDING assistant message and message.created commit together.
Init ==
  /\ run = [status |-> "QUEUED", version |-> 1, attempt |-> 0, owner |-> NoWorker,
            started |-> FALSE, cancelled |-> FALSE, nextSeq |-> 2,
            checkpoint |-> 0, cpVersion |-> 0]
  /\ leaseLive = FALSE
  /\ overdue = FALSE
  /\ step = [n \in Node |-> "NONE"]
  /\ events = {[seq |-> 1, type |-> "message.created"]}
  /\ message = "PENDING"
  /\ deliveries = 0
  /\ worker = [w \in Worker |-> [pc |-> "idle", node |-> 0, cpVersion |-> 0, seen |-> 0,
                                 err |-> "none", beat |-> "none", aborted |-> FALSE]]
-----------------------------------------------------------------------------
(* AgentStateMachineService and the transactions every repository call uses *)

RunTargets == [QUEUED           |-> {"RUNNING", "FAILED", "CANCELLED"},
               RUNNING          |-> {"CANCEL_REQUESTED", "COMPLETED", "FAILED"},
               CANCEL_REQUESTED |-> {"CANCELLED"},
               COMPLETED |-> {}, FAILED |-> {}, CANCELLED |-> {}]

\* No row ("NONE") has no legal transition: transitionStep throws when the step is missing.
StepTargets == [NONE |-> {}, PENDING |-> {"RUNNING", "CANCELLED", "SKIPPED"},
                RUNNING |-> {"COMPLETED", "FAILED", "CANCELLED"},
                COMPLETED |-> {}, FAILED |-> {}, CANCELLED |-> {}]

\* assertActiveWorkerLease, by the database clock inside the transaction.
HoldsLease(w) == run.owner = w /\ leaseLive /\ run.status \in Leased

\* appendInTransaction: the k-th event the transaction adds after the ones before it.
Logged(k, type) == [seq |-> run.nextSeq + k, type |-> type]

\* Mutant: the terminal event does not advance next_event_sequence.
EndRunNoBump(base, log, end) ==
  /\ end \in RunTargets[run.status]
  /\ message = "PENDING"
  /\ run' = [base EXCEPT !.status = end, !.version = @ + 1, !.owner = NoWorker]
  /\ events' = log \cup {[seq |-> base.nextSeq, type |-> TerminalEvent[end]]}
  /\ message' = end
  /\ leaseLive' = FALSE

\* Mutant: cancelling leaves the assistant message pending.
EndRunForgetsMessage(base, log, end) ==
  /\ end \in RunTargets[run.status]
  /\ run' = [base EXCEPT !.status = end, !.version = @ + 1,
                         !.owner = NoWorker, !.nextSeq = @ + 1]
  /\ events' = log \cup {[seq |-> base.nextSeq, type |-> TerminalEvent[end]]}
  /\ message' = IF end = "CANCELLED" THEN message ELSE end
  /\ leaseLive' = FALSE

\* The part every ending shares.  base is the row with the columns only this
\* ending sets, log the events the transaction has appended before the last one.
EndRun(base, log, end) ==
  /\ end \in RunTargets[run.status]
  /\ message = "PENDING"
  /\ run' = [base EXCEPT !.status = end, !.version = @ + 1,
                         !.owner = NoWorker, !.nextSeq = @ + 1]
  /\ events' = log \cup {[seq |-> base.nextSeq, type |-> TerminalEvent[end]]}
  /\ message' = end
  /\ leaseLive' = FALSE

At(w, pc) == worker[w].pc = pc
Goto(w, pc) == [worker EXCEPT ![w].pc = pc]

\* Where an exception thrown at each point of resume/execute is caught: the node's
\* try block calls finishErroredStep ("err"), the rest of execute goes straight to
\* resume's catch, claimRun and findForExecution leave process.
Catcher(pc) ==
  IF pc \in {"beat", "handler", "guard2", "finish", "complete"} THEN "err"
  ELSE IF pc \in {"guard", "create", "existing", "start", "save", "failStep", "cancelStep"}
       THEN "catch"
  ELSE "thrown"

Raise(w, e) == [worker EXCEPT ![w].pc = Catcher(@), ![w].err = e]

\* A transaction that its guard rejects, or that the database fails, changes nothing.
Fails(w, ok) ==
  /\ ~ok \/ "dbError" \in Faults
  /\ worker' = Raise(w, "other")
  /\ UNCHANGED <<run, leaseLive, overdue, step, events, message, deliveries>>

\* A transaction that committed, whose answer may yet be lost.
Acked(w, next) ==
  \/ worker' = next
  \/ "lostAck" \in Faults /\ worker' = Raise(w, "other")

\* What JavaScript's clock may say where the database's clock says b.
JsClock(b) == IF "clockSkew" \in Faults THEN BOOLEAN ELSE {b}
-----------------------------------------------------------------------------
(* One delivery of the job: AgentProcessor.process and AgentOrchestratorService.resume *)

Deliver(w) ==
  /\ At(w, "idle")
  /\ worker' = Goto(w, "claim")
  /\ UNCHANGED <<run, leaseLive, overdue, step, events, message, deliveries>>

\* Mutant: a lease that is still live can be taken.
CanClaimStealing(w) ==
  /\ run.status \notin Terminal
  /\ ~overdue
  /\ run.owner # w
  /\ run.attempt < MaxAttempts

\* claimRun.  Identities are never reused, so its two branches for a worker that
\* already owns the lease do not arise.
CanClaim(w) ==
  /\ run.status \notin Terminal
  /\ ~overdue
  /\ ~leaseLive
  /\ run.owner # w
  /\ run.attempt < MaxAttempts

ClaimRun(w) ==
  /\ At(w, "claim")
  /\ UNCHANGED <<overdue, step, message, deliveries>>
  /\ \/ /\ CanClaim(w)
        /\ run.status = "QUEUED"
        /\ run' = [run EXCEPT !.status = "RUNNING", !.version = @ + 1, !.attempt = @ + 1,
                              !.owner = w, !.started = TRUE, !.nextSeq = @ + 1]
        /\ events' = events \cup {Logged(0, "agent.started")}
        /\ leaseLive' = TRUE
        /\ Acked(w, Goto(w, "find"))
     \/ /\ CanClaim(w)
        /\ run.status \in Leased
        /\ run' = [run EXCEPT !.version = @ + 1, !.attempt = @ + 1, !.owner = w]
        /\ leaseLive' = TRUE
        /\ UNCHANGED events
        /\ Acked(w, Goto(w, "find"))
     \/ \* TERMINAL, DEADLINE_EXPIRED, ATTEMPTS_EXHAUSTED: not retryable, job ignored
        /\ \/ run.status \in Terminal
           \/ overdue
           \/ ~leaseLive /\ run.attempt >= MaxAttempts
        /\ worker' = Goto(w, "ignored")
        /\ UNCHANGED <<run, leaseLive, events>>

\* LEASE_HELD: retryable, so process rethrows and BullMQ retries.
ClaimRefused(w) ==
  /\ At(w, "claim")
  /\ Fails(w, ~(leaseLive /\ ~overdue /\ run.status \notin Terminal))

\* findForExecution: the snapshot restoreCheckpoint starts from.
FindForExecution(w) ==
  /\ At(w, "find")
  /\ \/ /\ HoldsLease(w)
        /\ worker' = [worker EXCEPT ![w].pc = "guard", ![w].node = run.checkpoint,
                                    ![w].cpVersion = run.cpVersion]
        /\ UNCHANGED <<run, leaseLive, overdue, step, events, message, deliveries>>
     \/ Fails(w, HoldsLease(w))

\* The catch of resume: a fresh read decides how the run ends.
CatchInResume(w) ==
  /\ At(w, "catch")
  /\ \/ /\ LET resumable == \/ run.status # "RUNNING"
                            \/ worker[w].err = "lease"
                            \/ worker[w].err = "cancelled" /\ worker[w].aborted
               next == IF run.status = "CANCEL_REQUESTED" THEN "cancelRun"
                       ELSE IF resumable THEN "thrown" ELSE "failRun"
           IN  worker' = [worker EXCEPT ![w].pc = next, ![w].seen = run.version]
        /\ UNCHANGED <<run, leaseLive, overdue, step, events, message, deliveries>>
     \/ Fails(w, TRUE)

\* transition: the lease holder ends the run it read at version seen.
TransitionRun(w, end) ==
  LET ok == /\ HoldsLease(w)
            /\ run.version = worker[w].seen
            /\ end \in RunTargets[run.status]
  IN  \/ /\ ok
         /\ EndRun(run, events, end)
         /\ Acked(w, Goto(w, "done"))
         /\ UNCHANGED <<overdue, step, deliveries>>
      \/ Fails(w, ok)

FailRun(w)   == At(w, "failRun") /\ TransitionRun(w, "FAILED")
CancelRun(w) == At(w, "cancelRun") /\ TransitionRun(w, "CANCELLED")
-----------------------------------------------------------------------------
(* WorkflowEngineService.execute, one node at a time *)

\* guard: an unlocked read of the run, judged by JavaScript's clock.
GuardError(w, late, live) ==
  IF run.status = "CANCEL_REQUESTED" THEN "cancelled"
  ELSE IF run.status # "RUNNING" THEN "lease"
  ELSE IF late THEN "other"
  ELSE IF run.owner # w \/ ~live THEN "lease"
  ELSE IF worker[w].aborted THEN "cancelled"
  ELSE "none"

Guard(w) ==
  /\ \/ At(w, "guard") \/ At(w, "guard2")
  /\ \/ /\ \E late \in JsClock(overdue), live \in JsClock(leaseLive) :
             LET e == GuardError(w, late, live)
                 next == IF At(w, "guard") THEN "create"
                         ELSE IF worker[w].node = LastNode THEN "complete" ELSE "finish"
             IN  worker' = IF e # "none" THEN Raise(w, e)
                           ELSE [worker EXCEPT ![w].pc = next, ![w].seen = run.version]
        /\ UNCHANGED <<run, leaseLive, overdue, step, events, message, deliveries>>
     \/ Fails(w, TRUE)

\* createStep: the unique (run, stepKey, attempt) index turns a second creation into
\* a read of the first one, outside the transaction it aborted.
CreateStep(w) ==
  LET n  == worker[w].node
      ok == HoldsLease(w) /\ run.status = "RUNNING"
  IN  /\ At(w, "create")
      /\ \/ /\ ok
            /\ step[n] = "NONE"
            /\ step' = [step EXCEPT ![n] = "PENDING"]
            /\ Acked(w, Goto(w, "start"))
            /\ UNCHANGED <<run, leaseLive, overdue, events, message, deliveries>>
         \/ /\ ok
            /\ step[n] # "NONE"
            /\ worker' = Goto(w, "existing")
            /\ UNCHANGED <<run, leaseLive, overdue, step, events, message, deliveries>>
         \/ Fails(w, ok)

\* Mutant: a step found RUNNING is taken for done.
ReadExistingStepEager(w) ==
  LET status == step[worker[w].node]
      next   == [COMPLETED |-> "save", PENDING |-> "start", RUNNING |-> "save"]
  IN  /\ At(w, "existing")
      /\ \/ /\ status \in DOMAIN next
            /\ worker' = Goto(w, next[status])
            /\ UNCHANGED <<run, leaseLive, overdue, step, events, message, deliveries>>
         \/ Fails(w, status \in DOMAIN next)

\* Mutant: a FAILED step is skipped on resume.
ReadExistingStepSkips(w) ==
  LET status == step[worker[w].node]
      next   == [COMPLETED |-> "save", PENDING |-> "start", RUNNING |-> "beat", FAILED |-> "save"]
  IN  /\ At(w, "existing")
      /\ \/ /\ status \in DOMAIN next
            /\ worker' = Goto(w, next[status])
            /\ UNCHANGED <<run, leaseLive, overdue, step, events, message, deliveries>>
         \/ Fails(w, status \in DOMAIN next)

\* A COMPLETED step is restored, a PENDING or RUNNING one executed (again), any
\* other is a WorkflowValidationError.
ReadExistingStep(w) ==
  LET status == step[worker[w].node]
      next   == [COMPLETED |-> "save", PENDING |-> "start", RUNNING |-> "beat"]
  IN  /\ At(w, "existing")
      /\ \/ /\ status \in DOMAIN next
            /\ worker' = Goto(w, next[status])
            /\ UNCHANGED <<run, leaseLive, overdue, step, events, message, deliveries>>
         \/ Fails(w, status \in DOMAIN next)

\* Mutant: a cancel request does not stop a step from completing.
TransitionStepAfterCancel(w, target, next) ==
  LET n  == worker[w].node
      ok == HoldsLease(w) /\ target \in StepTargets[step[n]]
  IN  \/ /\ ok
         /\ step' = [step EXCEPT ![n] = target]
         /\ run' = [run EXCEPT !.nextSeq = @ + 1]
         /\ events' = events \cup {Logged(0, "agent.progress")}
         /\ Acked(w, Goto(w, next))
         /\ UNCHANGED <<leaseLive, overdue, message, deliveries>>
      \/ Fails(w, ok)

\* Mutant: assertStepTransition is not called.
TransitionStepUnchecked(w, target, next) ==
  LET n  == worker[w].node
      ok == HoldsLease(w) /\ (run.status = "CANCEL_REQUESTED" => target = "CANCELLED")
  IN  \/ /\ ok
         /\ step' = [step EXCEPT ![n] = target]
         /\ run' = [run EXCEPT !.nextSeq = @ + 1]
         /\ events' = events \cup {Logged(0, "agent.progress")}
         /\ Acked(w, Goto(w, next))
         /\ UNCHANGED <<leaseLive, overdue, message, deliveries>>
      \/ Fails(w, ok)

\* transitionStep: legal only for the lease holder; once a cancel is requested a
\* step can only be CANCELLED.
TransitionStep(w, target, next) ==
  LET n  == worker[w].node
      ok == /\ HoldsLease(w)
            /\ run.status = "CANCEL_REQUESTED" => target = "CANCELLED"
            /\ target \in StepTargets[step[n]]
  IN  \/ /\ ok
         /\ step' = [step EXCEPT ![n] = target]
         /\ run' = [run EXCEPT !.nextSeq = @ + 1]
         /\ events' = events \cup {Logged(0, "agent.progress")}
         /\ Acked(w, Goto(w, next))
         /\ UNCHANGED <<leaseLive, overdue, message, deliveries>>
      \/ Fails(w, ok)

StartStep(w)  == At(w, "start") /\ TransitionStep(w, "RUNNING", "beat")
FinishStep(w) == At(w, "finish") /\ TransitionStep(w, "COMPLETED", "save")
FailStep(w)   == At(w, "failStep") /\ TransitionStep(w, "FAILED", "catch")
CancelStep(w) == At(w, "cancelStep") /\ TransitionStep(w, "CANCELLED", "catch")

\* Mutant: the lease is not tested, only the checkpoint version.
SaveCheckpointUnfenced(w) ==
  LET ok == run.status = "RUNNING" /\ run.cpVersion = worker[w].cpVersion
  IN  /\ At(w, "save")
      /\ \/ /\ ok
            /\ run' = [run EXCEPT !.checkpoint = worker[w].node + 1, !.cpVersion = @ + 1]
            /\ Acked(w, [worker EXCEPT ![w].pc = "guard", ![w].node = @ + 1,
                                       ![w].cpVersion = @ + 1])
            /\ UNCHANGED <<leaseLive, overdue, step, events, message, deliveries>>
         \/ Fails(w, ok)

\* saveCheckpoint, in a transaction of its own after the step's, then the next node.
SaveCheckpoint(w) ==
  LET ok == /\ HoldsLease(w)
            /\ run.status = "RUNNING"
            /\ run.cpVersion = worker[w].cpVersion
  IN  /\ At(w, "save")
      /\ \/ /\ ok
            /\ run' = [run EXCEPT !.checkpoint = worker[w].node + 1, !.cpVersion = @ + 1]
            /\ Acked(w, [worker EXCEPT ![w].pc = "guard", ![w].node = @ + 1,
                                       ![w].cpVersion = @ + 1])
            /\ UNCHANGED <<leaseLive, overdue, step, events, message, deliveries>>
         \/ Fails(w, ok)

\* complete: step, message, events, run and delivery intents in one transaction.
\* Its guards are the lease, RUNNING and the version guard() read; not the deadline.
CompleteRun(w) ==
  LET n  == worker[w].node
      ok == /\ HoldsLease(w)
            /\ run.status = "RUNNING"
            /\ run.version = worker[w].seen
            /\ "COMPLETED" \in StepTargets[step[n]]
  IN  /\ At(w, "complete")
      /\ \/ /\ ok
            /\ step' = [step EXCEPT ![n] = "COMPLETED"]
            /\ EndRun([run EXCEPT !.nextSeq = @ + 1],
                      events \cup {Logged(0, "model.delta")}, "COMPLETED")
            /\ deliveries' = deliveries + 1
            /\ Acked(w, Goto(w, "done"))
            /\ UNCHANGED overdue
         \/ Fails(w, ok)
-----------------------------------------------------------------------------
(* withLeaseHeartbeat around the node handler, and finishErroredStep *)

\* One lease renewal: a single UPDATE that needs an unexpired lease of this worker.
\* A renewal keeps leaseLive TRUE; what it reports is the read that follows it.
FirstBeat(w) ==
  /\ At(w, "beat")
  /\ \/ /\ HoldsLease(w)
        /\ worker' = IF run.status = "CANCEL_REQUESTED" THEN Raise(w, "cancelled")
                     ELSE [worker EXCEPT ![w].pc = "handler", ![w].beat = "none"]
        /\ UNCHANGED <<run, leaseLive, overdue, step, events, message, deliveries>>
     \/ Fails(w, HoldsLease(w))

\* The interval timer: the first bad renewal sets heartbeatError and aborts the handler.
TimedBeat(w) ==
  /\ At(w, "handler")
  /\ worker[w].beat = "none"
  /\ \/ /\ HoldsLease(w)
        /\ run.status = "CANCEL_REQUESTED"
        /\ worker' = [worker EXCEPT ![w].beat = "cancelled"]
     \/ /\ ~HoldsLease(w) \/ "dbError" \in Faults
        /\ worker' = [worker EXCEPT ![w].beat = "lease"]
  /\ UNCHANGED <<run, leaseLive, overdue, step, events, message, deliveries>>

\* Mutant: appendEvent does not assert the lease.
HandlerEventUnfenced(w) ==
  /\ At(w, "handler")
  /\ run.nextSeq < EventLimit
  /\ run' = [run EXCEPT !.nextSeq = @ + 1]
  /\ events' = events \cup {Logged(0, "tool")}
  /\ UNCHANGED <<leaseLive, overdue, step, message, deliveries, worker>>

\* appendEvent by a tool or model call of the handler.
HandlerEvent(w) ==
  /\ At(w, "handler")
  /\ HoldsLease(w)
  /\ run.nextSeq < EventLimit
  /\ run' = [run EXCEPT !.nextSeq = @ + 1]
  /\ events' = events \cup {Logged(0, "tool")}
  /\ UNCHANGED <<leaseLive, overdue, step, message, deliveries, worker>>

\* Mutant: the checkpoint is saved before the step is completed.
HandlerReturnsToSave(w) ==
  /\ At(w, "handler")
  /\ worker' = IF worker[w].beat # "none" THEN Raise(w, worker[w].beat)
               ELSE Goto(w, IF worker[w].node = LastNode THEN "guard2" ELSE "save")
  /\ UNCHANGED <<run, leaseLive, overdue, step, events, message, deliveries>>

\* The handler resolves; a heartbeat error or an aborted signal still wins.
HandlerReturns(w) ==
  /\ At(w, "handler")
  /\ worker' = IF worker[w].beat # "none" THEN Raise(w, worker[w].beat)
               ELSE IF worker[w].aborted THEN Raise(w, "cancelled")
               ELSE Goto(w, "guard2")
  /\ UNCHANGED <<run, leaseLive, overdue, step, events, message, deliveries>>

HandlerThrows(w) ==
  /\ At(w, "handler")
  /\ \E e \in {"other", "cancelled"} :
       worker' = Raise(w, IF worker[w].beat # "none" THEN worker[w].beat ELSE e)
  /\ UNCHANGED <<run, leaseLive, overdue, step, events, message, deliveries>>

\* finishErroredStep reads the run again and decides what becomes of the step.
FinishErroredStep(w) ==
  /\ At(w, "err")
  /\ \E live \in JsClock(leaseLive) :
       LET next == IF run.owner # w \/ ~live THEN "catch"
                   ELSE IF run.status = "CANCEL_REQUESTED" THEN "cancelStep"
                   ELSE IF \/ run.status # "RUNNING"
                           \/ worker[w].aborted
                           \/ worker[w].err = "lease" THEN "catch"
                   ELSE "failStep"
       IN  \/ worker' = Goto(w, next)
           \/ "dbError" \in Faults /\ worker' = Goto(w, "catch")
  /\ UNCHANGED <<run, leaseLive, overdue, step, events, message, deliveries>>
-----------------------------------------------------------------------------
(* The user, the sweep of overdue runs, the clock and the failures *)

\* Mutant: a second cancel is accepted like the first.
RequestCancelAgain ==
  \/ /\ run.status = "QUEUED"
     /\ EndRun([run EXCEPT !.cancelled = TRUE], events, "CANCELLED")
     /\ UNCHANGED <<overdue, step, deliveries, worker>>
  \/ /\ run.status \in Leased
     /\ run.version < 4
     /\ run' = [run EXCEPT !.status = "CANCEL_REQUESTED", !.version = @ + 1,
                           !.cancelled = TRUE]
     /\ UNCHANGED <<leaseLive, overdue, step, events, message, deliveries, worker>>

\* requestCancel with the current version; a stale version or a run already ending
\* changes nothing.
RequestCancel ==
  \/ /\ run.status = "QUEUED"
     /\ EndRun([run EXCEPT !.cancelled = TRUE], events, "CANCELLED")
     /\ UNCHANGED <<overdue, step, deliveries, worker>>
  \/ /\ run.status = "RUNNING"
     /\ run' = [run EXCEPT !.status = "CANCEL_REQUESTED", !.version = @ + 1,
                           !.cancelled = TRUE]
     /\ UNCHANGED <<leaseLive, overdue, step, events, message, deliveries, worker>>

\* Mutant: started_at stays NULL when a run that never started fails.
ExpireOverdueRunUnstarted ==
  /\ overdue
  /\ ~leaseLive
  /\ \/ run.status = "CANCEL_REQUESTED" /\ EndRun(run, events, "CANCELLED")
     \/ run.status \in {"QUEUED", "RUNNING"} /\ EndRun(run, events, "FAILED")
  /\ UNCHANGED <<overdue, step, deliveries, worker>>

\* Mutant: only runs that never started are swept.
ExpireOverdueRunQueuedOnly ==
  /\ overdue
  /\ ~leaseLive
  /\ run.status = "QUEUED"
  /\ EndRun([run EXCEPT !.started = TRUE], events, "FAILED")
  /\ UNCHANGED <<overdue, step, deliveries, worker>>

\* expireOverdueRuns, for this run: its transaction tests everything again.
ExpireOverdueRun ==
  /\ overdue
  /\ ~leaseLive
  /\ \/ run.status = "CANCEL_REQUESTED" /\ EndRun(run, events, "CANCELLED")
     \/ run.status \in {"QUEUED", "RUNNING"}
          /\ EndRun([run EXCEPT !.started = TRUE], events, "FAILED")
  /\ UNCHANGED <<overdue, step, deliveries, worker>>

DeadlinePasses ==
  /\ ~overdue
  /\ overdue' = TRUE
  /\ UNCHANGED <<run, leaseLive, step, events, message, deliveries, worker>>

\* A lease expires when no renewal came in time: the worker died, stopped renewing,
\* or was paused for longer than leaseMs.
LeaseExpires ==
  /\ leaseLive
  /\ leaseLive' = FALSE
  /\ UNCHANGED <<run, overdue, step, events, message, deliveries, worker>>

Active(w) == worker[w].pc \notin {"idle"} \cup Stopped

Crash(w) ==
  /\ "crash" \in Faults
  /\ Active(w)
  /\ worker' = Goto(w, "dead")
  /\ UNCHANGED <<run, leaseLive, overdue, step, events, message, deliveries>>

\* The job timeout or the shutdown hook aborts the delivery's signal.
Abort(w) ==
  /\ "abort" \in Faults
  /\ Active(w)
  /\ ~worker[w].aborted
  /\ worker' = [worker EXCEPT ![w].aborted = TRUE]
  /\ UNCHANGED <<run, leaseLive, overdue, step, events, message, deliveries>>

Advance(w) ==
  \/ ClaimRun(w) \/ ClaimRefused(w) \/ FindForExecution(w) \/ Guard(w)
  \/ CreateStep(w) \/ ReadExistingStep(w) \/ StartStep(w) \/ FirstBeat(w)
  \/ HandlerReturns(w) \/ HandlerThrows(w) \/ FinishStep(w) \/ SaveCheckpoint(w)
  \/ CompleteRun(w) \/ FinishErroredStep(w) \/ FailStep(w) \/ CancelStep(w)
  \/ CatchInResume(w) \/ FailRun(w) \/ CancelRun(w)

Next ==
  \/ \E w \in Worker :
       \/ Deliver(w) \/ Advance(w) \/ TimedBeat(w) \/ HandlerEvent(w)
       \/ Crash(w) \/ Abort(w)
  \/ RequestCancel \/ ExpireOverdueRun \/ DeadlinePasses \/ LeaseExpires

Spec == Init /\ [][Next]_vars

\* What the processes and the clock do keep doing.  A worker that neither crashed nor
\* finished goes on: its handler's model and tool calls carry timeouts.  The
\* reconciler's interval fires again and again, deadlines come, and a lease nobody
\* renews expires.  Nothing is assumed of deliveries, users and failures.
AbandonedLeaseExpires ==
  /\ run.owner # NoWorker
  /\ worker[run.owner].pc \in Stopped
  /\ LeaseExpires

Fairness ==
  /\ \A w \in Worker : WF_vars(Advance(w))
  /\ WF_vars(ExpireOverdueRun)
  /\ WF_vars(DeadlinePasses)
  /\ WF_vars(AbandonedLeaseExpires)

FairSpec == Spec /\ Fairness
-----------------------------------------------------------------------------
(* Safety *)

\* Whatever interleaving of workers, cancels and sweeps wrote it, the row satisfies the
\* CHECKs ai_agent_runs_status_time_check and ai_agent_runs_attempt_check: no path of
\* agent-run.repository.ts reaches a write that PostgreSQL would reject.
RowSatisfiesChecks ==
  /\ run.attempt <= MaxAttempts
  /\ (run.owner # NoWorker) <=> run.status \in Leased
  /\ run.status = "QUEUED" => ~run.started
  /\ run.status \in Leased \cup {"COMPLETED", "FAILED"} => run.started
  /\ run.status \in {"QUEUED", "RUNNING"} => ~run.cancelled
  /\ run.status \in {"CANCEL_REQUESTED", "CANCELLED"} => run.cancelled

\* The event log a client replays has every sequence number once and no hole, whoever
\* appended: appendInTransaction numbers from the counter it read under the row lock.
EventLogGapless ==
  /\ {e.seq : e \in events} = 1 .. run.nextSeq - 1
  /\ \A e, f \in events : e.seq = f.seq => e = f

\* A terminal event is in the log exactly when the run is terminal; it is the last one
\* and names the run's outcome: nothing is appended after the end, and late workers add
\* no second ending.
TerminalEventClosesLog ==
  /\ \A e \in events, t \in Terminal :
       e.type = TerminalEvent[t] => run.status = t /\ e.seq = run.nextSeq - 1
  /\ run.status \in Terminal =>
       [seq |-> run.nextSeq - 1, type |-> TerminalEvent[run.status]] \in events

\* The assistant message and the notification intents tell the run's outcome, never
\* another: a message is closed with the run and deliveries exist only, and once, for a
\* completed one.
OutcomeAgrees ==
  /\ message = IF run.status \in Terminal THEN run.status ELSE "PENDING"
  /\ deliveries = IF run.status = "COMPLETED" THEN 1 ELSE 0

\* Whatever worker saved it and wherever it crashed, the checkpoint never runs ahead of
\* the steps, trails them by at most the one step whose checkpoint is not yet saved, and
\* never passes the last node: a restart repeats or restores one node and skips none.
CheckpointTrailsSteps ==
  /\ run.checkpoint \in Node
  /\ \A n \in Node : n < run.checkpoint => step[n] = "COMPLETED"
  /\ \A n \in Node : n > run.checkpoint => step[n] = "NONE"

\* A run is COMPLETED only with every step COMPLETED, and its last step is COMPLETED
\* only with the run.
CompletionIsTotal ==
  (run.status = "COMPLETED") <=> (\A n \in Node : step[n] = "COMPLETED")

\* A worker that is still in execute and still holds the lease works on the node after
\* the stored checkpoint and knows the stored checkpoint version: only the lease keeps
\* the snapshot it took at findForExecution current.
HolderIsCurrent ==
  \A w \in Worker :
    HoldsLease(w) /\ worker[w].pc \in InExecute =>
      worker[w].node = run.checkpoint /\ worker[w].cpVersion = run.cpVersion

\* A worker saves the checkpoint of a step only once that step is COMPLETED, completes
\* the run only at the last node and finishes every other node's step on its own.
WorkerOnNode ==
  \A w \in Worker :
    /\ worker[w].pc \in InExecute => worker[w].node \in Node
    /\ At(w, "finish") => worker[w].node # LastNode
    /\ At(w, "complete") => worker[w].node = LastNode
    /\ At(w, "save") => step[worker[w].node] = "COMPLETED"

\* The transition trigger validate_ai_agent_run_transition accepts every write: a
\* terminal row is frozen, versions advance by one, the status follows the state
\* machine, and a version without a transition is a takeover by another worker.
TriggerAccepts ==
  [][/\ run.status \notin Terminal
     /\ run'.version \in {run.version, run.version + 1}
     /\ run'.status # run.status =>
          run'.version = run.version + 1 /\ run'.status \in RunTargets[run.status]
     /\ run'.status = run.status /\ run'.version = run.version + 1 =>
          run'.attempt = run.attempt + 1 /\ run'.owner # run.owner]_run

\* After a cancel request the run can only become CANCELLED and no further step
\* completes, however late an answer of a model or a tool comes in.
CancelWins ==
  [][run.status = "CANCEL_REQUESTED" =>
       /\ run'.status \in {"CANCEL_REQUESTED", "CANCELLED"}
       /\ run'.checkpoint = run.checkpoint
       /\ \A n \in Node : step'[n] = "COMPLETED" => step[n] = "COMPLETED"]_vars

\* A finished step stays as it ended: no retry, takeover or late worker completes a step
\* a second time or turns a failed one into a completed one.
FinishedStepsFrozen ==
  [][\A n \in Node : step[n] \in TerminalStep => step'[n] = step[n]]_step

\* "Agent Run deadline 后不可完成" (agent-run.repository.ts:360): no run completes after
\* its deadline.
NoCompletionAfterDeadline ==
  [][overdue /\ run'.status = "COMPLETED" => run.status = "COMPLETED"]_run
-----------------------------------------------------------------------------
(* Liveness *)

\* Every run ends, whatever crashes, is cancelled or is left by its workers.
EventuallyTerminal == <>(run.status \in Terminal)

\* An accepted cancel request is always honoured.
CancelHonoured == (run.status = "CANCEL_REQUESTED") ~> (run.status = "CANCELLED")
-----------------------------------------------------------------------------
(* Refinement *)

Lifecycle == INSTANCE AgentRunLifecycle WITH
  status    <- run.status,
  attempt   <- run.attempt,
  lease     <- IF run.owner = NoWorker THEN "none"
               ELSE IF leaseLive THEN "live" ELSE "lapsed",
  overdue   <- overdue,
  answer    <- message,
  announced <- {t \in Terminal : \E e \in events : e.type = TerminalEvent[t]}

\* The execution with its workers, steps and crashes implements the lifecycle a user
\* relies on.
RefinesLifecycle == Lifecycle!LifecycleSpec

EventLog == INSTANCE AgentEventLog WITH
  log     <- {e.seq : e \in events},
  nextSeq <- run.nextSeq,
  ended   <- run.status \in Terminal

\* Every transaction on the run appends to its stream the way AgentStream's readers rely
\* on: one or two events, numbered on from the last, none once the run has ended.
RefinesEventLog == EventLog!LogSpec
=============================================================================
