------------------------- MODULE AgentRunImplements -------------------------
(***************************************************************************)
(* The execution of AgentRun implements AgentRunLifecycle, for every       *)
(* number of workers, attempts and nodes.                                  *)
(***************************************************************************)
EXTENDS AgentRunProofs

\* The mapped lease and endings, as AgentRun's Lifecycle instance writes them.
leaseBar     == IF run.owner = NoWorker THEN "none" ELSE IF leaseLive THEN "live" ELSE "lapsed"
announcedBar == {t \in Terminal : \E e \in events : e.type = TerminalEvent[t]}

AnnouncedOnce == announcedBar = IF run.status \in Terminal THEN {run.status} ELSE {}

\* The endings announced on the stream are the run's own, once it has ended.
LEMMA AnnouncedEnding == TerminalEventClosesLog => AnnouncedOnce
<1> SUFFICES ASSUME TerminalEventClosesLog
             PROVE  announcedBar = IF run.status \in Terminal THEN {run.status} ELSE {}
  BY DEF AnnouncedOnce
<1>1. ASSUME NEW t \in announcedBar PROVE run.status = t
  BY <1>1 DEF announcedBar, TerminalEventClosesLog
<1>2. ASSUME run.status \in Terminal PROVE run.status \in announcedBar
  <2>1. [seq |-> run.nextSeq - 1, type |-> TerminalEvent[run.status]] \in events
    BY <1>2 DEF TerminalEventClosesLog
  <2>2. [seq |-> run.nextSeq - 1, type |-> TerminalEvent[run.status]].type = TerminalEvent[run.status]
    OBVIOUS
  <2> QED BY <1>2, <2>1, <2>2 DEF announcedBar
<1>3. announcedBar \subseteq Terminal BY DEF announcedBar
<1> QED BY <1>1, <1>2, <1>3

LEMMA AnnouncedEndingNext == TerminalEventClosesLog' => AnnouncedOnce'
BY AnnouncedEnding, PTL

\* Every ending is the lifecycle's EndAs.
LEMMA EndRunEnds ==
  ASSUME TypeOK, TerminalEventClosesLog, TerminalEventClosesLog',
         NEW base \in RunRow, base.attempt = run.attempt, NEW log, NEW end \in Terminal,
         EndRun(base, log, end), UNCHANGED overdue
  PROVE  Lifecycle!EndAs(end)
<1>1. /\ run'.status = end /\ run'.owner = NoWorker /\ run'.attempt = run.attempt /\ message' = end
      /\ end \in RunTargets[run.status]
  BY EndingWrites
<1>2. run.status \notin Terminal
  BY <1>1 DEF Terminal, RunTargets
<1>3. announcedBar = {} BY <1>2, AnnouncedEnding DEF AnnouncedOnce
<1>4. announcedBar' = {end}
  BY <1>1, AnnouncedEndingNext DEF AnnouncedOnce
<1>5. leaseBar' = "none" BY <1>1 DEF leaseBar
<1>6. announcedBar' = announcedBar \cup {end} BY <1>3, <1>4
<1> QED BY <1>1, <1>5, <1>6 DEF Lifecycle!EndAs, leaseBar, announcedBar

\* A step that leaves what the mapping reads alone is a stutter.
LEMMA Stutters ==
  ASSUME TerminalEventClosesLog, TerminalEventClosesLog',
         run'.status = run.status, run'.attempt = run.attempt, run'.owner = run.owner,
         UNCHANGED <<leaseLive, overdue, message>>
  PROVE  UNCHANGED Lifecycle!lifecycleVars
<1>1. announcedBar' = announcedBar
  <2>1. announcedBar = IF run.status \in Terminal THEN {run.status} ELSE {}
    BY AnnouncedEnding DEF AnnouncedOnce
  <2>2. announcedBar' = IF run'.status \in Terminal THEN {run'.status} ELSE {}
    BY AnnouncedEndingNext DEF AnnouncedOnce
  <2> QED BY <2>1, <2>2
<1> QED BY <1>1 DEF Lifecycle!lifecycleVars, announcedBar

\* Every step of the execution is a step of the lifecycle or a stutter.
LEMMA StepImplements ==
  ASSUME IInv, IInv', [Next]_vars
  PROVE  [Lifecycle!LifecycleNext]_(Lifecycle!lifecycleVars)
<1> DEFINE Goal == [Lifecycle!LifecycleNext]_(Lifecycle!lifecycleVars)
<1>1. /\ run \in RunRow /\ TypeOK /\ RowSatisfiesChecks
      /\ TerminalEventClosesLog /\ TerminalEventClosesLog'
  BY DEF IInv, TypeOK
<1>2. AnnouncedOnce /\ AnnouncedOnce'
  BY <1>1, AnnouncedEnding, AnnouncedEndingNext
<1>3. ASSUME run'.status = run.status, run'.attempt = run.attempt, run'.owner = run.owner,
             UNCHANGED <<leaseLive, overdue, message>>
      PROVE  Goal
  BY <1>1, <1>3, Stutters
<1>4. ASSUME NEW w \in Worker, NEW ok, Fails(w, ok) PROVE Goal
  BY <1>3, <1>4 DEF Fails
<1>5. ASSUME NEW w \in Worker, HoldsLease(w) PROVE leaseBar = "live" /\ run.status \notin Terminal
  BY <1>5, AgentRunAssumption DEF HoldsLease, leaseBar, Leased, Terminal
<1>6. ASSUME NEW w \in Worker, ClaimRun(w) PROVE Goal
  <2>1. CASE UNCHANGED <<run, leaseLive>>
    BY <1>3, <1>6, <2>1 DEF ClaimRun
  <2>2. CASE /\ CanClaim(w) /\ run.status \in {"QUEUED"} \cup Leased
             /\ run'.status = IF run.status = "QUEUED" THEN "RUNNING" ELSE run.status
             /\ run'.attempt = run.attempt + 1 /\ run'.owner = w /\ leaseLive' = TRUE
    <3>1. leaseBar # "live" BY <2>2 DEF CanClaim, leaseBar
    <3>2. leaseBar' = "live" BY <2>2, AgentRunAssumption DEF leaseBar
    <3>3. announcedBar' = announcedBar
      BY <1>2, <2>2 DEF AnnouncedOnce, Leased, Terminal
    <3>4. Lifecycle!ClaimRun
      BY <1>6, <2>2, <3>1, <3>2, <3>3
      DEF Lifecycle!ClaimRun, Lifecycle!Terminal, ClaimRun, CanClaim, Terminal, leaseBar, announcedBar
    <3> QED BY <3>4 DEF Lifecycle!LifecycleNext
  <2>3. CASE /\ CanClaim(w) /\ run.status = "QUEUED" /\ leaseLive' = TRUE
             /\ run' = [run EXCEPT !.status = "RUNNING", !.version = @ + 1, !.attempt = @ + 1,
                                   !.owner = w, !.started = TRUE, !.nextSeq = @ + 1]
    <3>1. run'.status = "RUNNING" /\ run'.attempt = run.attempt + 1 /\ run'.owner = w
      BY <1>1, <2>3 DEF RunRow
    <3> QED BY <2>2, <2>3, <3>1
  <2>4. CASE /\ CanClaim(w) /\ run.status \in Leased /\ leaseLive' = TRUE
             /\ run' = [run EXCEPT !.version = @ + 1, !.attempt = @ + 1, !.owner = w]
    <3>1. run'.status = run.status /\ run'.attempt = run.attempt + 1 /\ run'.owner = w
      BY <1>1, <2>4 DEF RunRow
    <3> QED BY <2>2, <2>4, <3>1 DEF Leased
  <2> QED BY <1>6, <2>1, <2>3, <2>4 DEF ClaimRun
<1>7. ASSUME NEW w \in Worker, NEW end \in {"FAILED", "CANCELLED"}, TransitionRun(w, end) PROVE Goal
  <2>1. CASE HoldsLease(w) /\ end \in RunTargets[run.status] /\ EndRun(run, events, end) /\ UNCHANGED overdue
    <3>1. Lifecycle!EndAs(end)
      BY <1>1, <2>1, EndRunEnds DEF Terminal
    <3>2. \/ run.status = "RUNNING" /\ end = "FAILED"
          \/ run.status = "CANCEL_REQUESTED" /\ end = "CANCELLED"
      BY <2>1 DEF HoldsLease, Leased, RunTargets
    <3>3. leaseBar = "live" BY <1>5, <2>1
    <3> QED BY <3>1, <3>2, <3>3
        DEF Lifecycle!LifecycleNext, Lifecycle!FailRun, Lifecycle!ConfirmCancel, leaseBar
  <2> QED BY <1>4, <1>7, <2>1 DEF TransitionRun
<1>8. ASSUME NEW w \in Worker, CompleteRun(w) PROVE Goal
  <2>1. CASE /\ HoldsLease(w) /\ run.status = "RUNNING" /\ UNCHANGED overdue
             /\ EndRun([run EXCEPT !.nextSeq = @ + 1], events \cup {Logged(0, "model.delta")}, "COMPLETED")
    <3>1. /\ [run EXCEPT !.nextSeq = @ + 1] \in RunRow
          /\ [run EXCEPT !.nextSeq = @ + 1].attempt = run.attempt
      <4>1. run.nextSeq + 1 \in Nat \ {0} BY <1>1 DEF RunRow
      <4> QED BY <1>1, <4>1 DEF RunRow
    <3>2. Lifecycle!EndAs("COMPLETED")
      BY <1>1, <2>1, <3>1, EndRunEnds DEF Terminal
    <3>3. leaseBar = "live" BY <1>5, <2>1
    <3> QED BY <2>1, <3>2, <3>3 DEF Lifecycle!LifecycleNext, Lifecycle!CompleteRun, leaseBar
  <2> QED BY <1>4, <1>8, <2>1 DEF CompleteRun
<1>9. CASE RequestCancel
  <2>1. CASE /\ run.status = "QUEUED" /\ UNCHANGED overdue
             /\ EndRun([run EXCEPT !.cancelled = TRUE], events, "CANCELLED")
    <3>1. /\ [run EXCEPT !.cancelled = TRUE] \in RunRow
          /\ [run EXCEPT !.cancelled = TRUE].attempt = run.attempt
      BY <1>1 DEF RunRow
    <3>2. Lifecycle!EndAs("CANCELLED")
      BY <1>1, <2>1, <3>1, EndRunEnds DEF Terminal
    <3> QED BY <2>1, <3>2 DEF Lifecycle!LifecycleNext, Lifecycle!CancelQueued
  <2>2. CASE /\ run.status = "RUNNING" /\ UNCHANGED <<leaseLive, overdue, message>>
             /\ run' = [run EXCEPT !.status = "CANCEL_REQUESTED", !.version = @ + 1, !.cancelled = TRUE]
    <3>1. run'.status = "CANCEL_REQUESTED" /\ run'.attempt = run.attempt /\ run'.owner = run.owner
      BY <1>1, <2>2 DEF RunRow
    <3>2. announcedBar' = announcedBar
      BY <1>2, <2>2, <3>1 DEF AnnouncedOnce, Terminal
    <3>3. Lifecycle!RequestCancel
      BY <2>2, <3>1, <3>2 DEF Lifecycle!RequestCancel, announcedBar
    <3> QED BY <3>3 DEF Lifecycle!LifecycleNext
  <2> QED BY <1>9, <2>1, <2>2 DEF RequestCancel
<1>10. CASE ExpireOverdueRun
  <2>1. ASSUME NEW base \in RunRow, base.attempt = run.attempt, NEW end \in Terminal,
               EndRun(base, events, end), end = IF run.status = "CANCEL_REQUESTED" THEN "CANCELLED" ELSE "FAILED",
               run.status \notin Terminal
        PROVE  Goal
    <3>1. Lifecycle!EndAs(end)
      BY <1>1, <1>10, <2>1, EndRunEnds DEF ExpireOverdueRun
    <3>2. leaseBar # "live" BY <1>10 DEF ExpireOverdueRun, leaseBar
    <3>3. Lifecycle!ExpireRun
      BY <1>10, <2>1, <3>1, <3>2
      DEF ExpireOverdueRun, Lifecycle!ExpireRun, Lifecycle!EndAs, Lifecycle!Terminal, Terminal, leaseBar
    <3> QED BY <3>3 DEF Lifecycle!LifecycleNext
  <2>2. [run EXCEPT !.started = TRUE] \in RunRow /\ [run EXCEPT !.started = TRUE].attempt = run.attempt
    BY <1>1 DEF RunRow
  <2>3. CASE run.status = "CANCEL_REQUESTED" /\ EndRun(run, events, "CANCELLED")
    BY <1>1, <2>1, <2>3 DEF Terminal
  <2>4. CASE run.status \in {"QUEUED", "RUNNING"} /\ EndRun([run EXCEPT !.started = TRUE], events, "FAILED")
    BY <2>1, <2>2, <2>4 DEF Terminal
  <2> QED BY <1>10, <2>3, <2>4 DEF ExpireOverdueRun
<1>11. CASE DeadlinePasses
  <2>1. announcedBar' = announcedBar BY <1>11 DEF DeadlinePasses, announcedBar
  <2> QED BY <1>11, <2>1
      DEF DeadlinePasses, Lifecycle!LifecycleNext, Lifecycle!DeadlinePasses, announcedBar
<1>12. CASE LeaseExpires
  <2>1. CASE run.owner = NoWorker
    BY <1>12, <2>1 DEF LeaseExpires, Lifecycle!lifecycleVars
  <2>2. CASE run.owner # NoWorker
    BY <1>12, <2>2 DEF LeaseExpires, Lifecycle!LifecycleNext, Lifecycle!LeaseLapses
  <2> QED BY <2>1, <2>2
<1>13. CASE UNCHANGED vars
  BY <1>3, <1>13 DEF vars
<1>14. ASSUME NEW w \in Worker, NEW target, NEW next, TransitionStep(w, target, next) PROVE Goal
  <2>1. CASE run' = [run EXCEPT !.nextSeq = @ + 1] /\ UNCHANGED <<leaseLive, overdue, message>>
    <3>1. run'.status = run.status /\ run'.attempt = run.attempt /\ run'.owner = run.owner
      BY <1>1, <2>1 DEF RunRow
    <3> QED BY <1>3, <2>1, <3>1
  <2> QED BY <1>4, <1>14, <2>1 DEF TransitionStep
<1>15. ASSUME NEW w \in Worker, SaveCheckpoint(w) \/ HandlerEvent(w) PROVE Goal
  <2>1. CASE /\ \/ run' = [run EXCEPT !.nextSeq = @ + 1]
                \/ run' = [run EXCEPT !.checkpoint = worker[w].node + 1, !.cpVersion = @ + 1]
             /\ UNCHANGED <<leaseLive, overdue, message>>
    <3>1. run'.status = run.status /\ run'.attempt = run.attempt /\ run'.owner = run.owner
      BY <1>1, <2>1 DEF RunRow
    <3> QED BY <1>3, <2>1, <3>1
  <2> QED BY <1>4, <1>15, <2>1 DEF SaveCheckpoint, HandlerEvent
<1>16. ASSUME NEW w \in Worker,
              \/ Deliver(w) \/ ClaimRefused(w) \/ FindForExecution(w) \/ Guard(w) \/ CreateStep(w)
              \/ ReadExistingStep(w) \/ FirstBeat(w) \/ HandlerReturns(w) \/ HandlerThrows(w)
              \/ FinishErroredStep(w) \/ CatchInResume(w) \/ TimedBeat(w) \/ Crash(w) \/ Abort(w)
       PROVE Goal
  <2>1. UNCHANGED <<run, leaseLive, overdue, message>>
    BY <1>16 DEF Deliver, ClaimRefused, FindForExecution, Guard, CreateStep, ReadExistingStep,
       FirstBeat, HandlerReturns, HandlerThrows, FinishErroredStep, CatchInResume, TimedBeat, Crash, Abort, Fails
  <2> QED BY <1>3, <2>1
<1> QED
  BY <1>6, <1>7, <1>8, <1>9, <1>10, <1>11, <1>12, <1>13, <1>14, <1>15, <1>16
  DEF Next, Advance, StartStep, FinishStep, FailStep, CancelStep, FailRun, CancelRun

LEMMA InitImplements ==
  ASSUME Init
  PROVE  Lifecycle!LifecycleInit
<1>1. run.status = "QUEUED" /\ run.attempt = 0 /\ run.owner = NoWorker BY DEF Init
<1>2. leaseBar = "none" BY <1>1 DEF leaseBar
<1>3. announcedBar = {} BY DEF Init, announcedBar, Terminal, TerminalEvent
<1> QED BY <1>1, <1>2, <1>3 DEF Init, Lifecycle!LifecycleInit, leaseBar, announcedBar

\* The workers, steps, checkpoints and crashes of AgentRun only ever produce what the
\* lifecycle of AgentRunLifecycle allows: agent-run.repository.ts keeps its promise.
THEOREM Implementation == Spec => RefinesLifecycle
BY InitImplements, StepImplements, InductiveInvariant, PTL
DEF Spec, RefinesLifecycle, Lifecycle!LifecycleSpec
-----------------------------------------------------------------------------
(* The event log *)

\* The numbers of the log that has one more event.
LEMMA NumbersOf ==
  ASSUME NEW log, NEW e
  PROVE  {x.seq : x \in log \cup {e}} = {x.seq : x \in log} \cup {e.seq}
OBVIOUS

\* Every way of writing the row appends nothing, one event or two, and numbers them on.
LEMMA RowStepAppends ==
  ASSUME TypeOK, RowStep
  PROVE  [EventLog!LogNext]_(EventLog!logVars)
<1> DEFINE Goal == [EventLog!LogNext]_(EventLog!logVars)
<1>1. run \in RunRow /\ run.nextSeq \in Nat BY DEF TypeOK, RunRow
<1>2. ASSUME events' = events, run'.nextSeq = run.nextSeq,
             run'.status \in Terminal <=> run.status \in Terminal
      PROVE  Goal
  BY <1>2 DEF EventLog!logVars
<1>3. ASSUME NEW e, events' = events \cup {e}, e.seq = run.nextSeq,
             run'.nextSeq = run.nextSeq + 1, run.status \notin Terminal
      PROVE  Goal
  <2>1. run.nextSeq .. run.nextSeq + 1 - 1 = {run.nextSeq} BY <1>1
  <2>2. EventLog!AppendEvents(1)
    BY <1>3, <2>1, NumbersOf DEF EventLog!AppendEvents
  <2> QED BY <2>2 DEF EventLog!LogNext
<1>4. ASSUME NEW w \in Worker, Started(w) PROVE Goal
  <2>1. Logged(0, "agent.started").seq = run.nextSeq BY <1>1 DEF Logged
  <2>2. run'.nextSeq = run.nextSeq + 1 /\ run.status \notin Terminal
    BY <1>1, <1>4 DEF Started, RunRow, Terminal
  <2>3. events' = events \cup {Logged(0, "agent.started")} BY <1>4 DEF Started
  <2> QED BY <1>3, <2>1, <2>2, <2>3
<1>5. ASSUME NEW w \in Worker, TakenOver(w) PROVE Goal
  BY <1>1, <1>2, <1>5 DEF TakenOver, RunRow
<1>6. ASSUME NEW type, Appended(type) PROVE Goal
  <2>1. Logged(0, type).seq = run.nextSeq BY <1>1 DEF Logged
  <2>2. run'.nextSeq = run.nextSeq + 1 /\ run.status \notin Terminal
    BY <1>1, <1>6 DEF Appended, RunRow, Leased, Terminal
  <2>3. events' = events \cup {Logged(0, type)} BY <1>6 DEF Appended
  <2> QED BY <1>3, <2>1, <2>2, <2>3
<1>7. ASSUME NEW n, Saved(n) PROVE Goal
  BY <1>1, <1>2, <1>7 DEF Saved, RunRow
<1>8. CASE CancelAsked
  BY <1>1, <1>2, <1>8 DEF CancelAsked, RunRow, Terminal
<1>9. CASE Completed
  <2> DEFINE base  == [run EXCEPT !.nextSeq = @ + 1]
             first == Logged(0, "model.delta")
             last  == [seq |-> base.nextSeq, type |-> TerminalEvent["COMPLETED"]]
  <2>1. base \in RunRow /\ base.nextSeq = run.nextSeq + 1 BY <1>1 DEF RunRow
  <2>2. first.seq = run.nextSeq /\ last.seq = run.nextSeq + 1 BY <1>1, <2>1 DEF Logged
  <2>3. run'.nextSeq = run.nextSeq + 2 /\ events' = (events \cup {first}) \cup {last}
    <3> EndRun(base, events \cup {first}, "COMPLETED") BY <1>9 DEF Completed
    <3> HIDE DEF first
    <3>1. run'.nextSeq = base.nextSeq + 1 /\ events' = (events \cup {first}) \cup {last}
      BY <2>1, EndingWrites
    <3> QED BY <1>1, <2>1, <3>1
  <2>4. run.nextSeq .. run.nextSeq + 2 - 1 = {run.nextSeq} \cup {run.nextSeq + 1} BY <1>1
  <2>5. {x.seq : x \in events'} = {x.seq : x \in events} \cup {run.nextSeq} \cup {run.nextSeq + 1}
    <3> HIDE DEF first, last
    <3> QED BY <2>2, <2>3, NumbersOf
  <2>6. EventLog!AppendEvents(2)
    BY <1>9, <2>3, <2>4, <2>5 DEF EventLog!AppendEvents, Completed, Terminal
  <2> QED BY <2>6 DEF EventLog!LogNext
<1>10. ASSUME NEW end \in {"FAILED", "CANCELLED"}, Ended(end) PROVE Goal
  <2>1. run'.nextSeq = run.nextSeq + 1 /\ run.status \notin Terminal
    BY <1>10, EndedWrites DEF RunTargets, Leased, Terminal
  <2>2. events' = events \cup {[seq |-> run.nextSeq, type |-> TerminalEvent[end]]}
    BY <1>10, EndedWrites
  <2> QED BY <1>3, <2>1, <2>2
<1>11. CASE Untouched
  BY <1>2, <1>11 DEF Untouched
<1> QED BY <1>4, <1>5, <1>6, <1>7, <1>8, <1>9, <1>10, <1>11 DEF RowStep, SavedBy

LEMMA InitLogs ==
  ASSUME Init
  PROVE  EventLog!LogInit
BY DEF Init, EventLog!LogInit, Terminal

\* The transactions of a run keep the log its stream reads: agent-event.repository.ts
\* numbers the events, and no ending is followed by another event.
THEOREM LogImplementation == Spec => RefinesEventLog
<1>1. IInv /\ [Next]_vars => [EventLog!LogNext]_(EventLog!logVars)
  BY EveryRowStep, RowStepAppends DEF IInv
<1> QED
  BY <1>1, InitLogs, InductiveInvariant, PTL
  DEF Spec, RefinesEventLog, EventLog!LogSpec
=============================================================================
