--------------------------- MODULE AgentRunProofs ---------------------------
(***************************************************************************)
(* The safety of AgentRun, for every number of workers, attempts, nodes    *)
(* and any set of faults.  A step is first classified by what it does to   *)
(* the row and its log (RowStep), to the workers (Moves), to the lease     *)
(* (LeaseStep) and to the steps (StepStep), one case per action; each      *)
(* conjunct of the inductive invariant IInv is then preserved by those     *)
(* classes.                                                                *)
(***************************************************************************)
EXTENDS AgentRun, TLAPS

-----------------------------------------------------------------------------
(* What a step of any actor does to the row, its events, message and intents *)

\* Nothing happens to them.
Untouched == UNCHANGED <<run, events, message, deliveries>>

Started(w) ==
  /\ run.status = "QUEUED"
  /\ run.attempt < MaxAttempts
  /\ run' = [run EXCEPT !.status = "RUNNING", !.version = @ + 1, !.attempt = @ + 1,
                        !.owner = w, !.started = TRUE, !.nextSeq = @ + 1]
  /\ events' = events \cup {Logged(0, "agent.started")}
  /\ UNCHANGED <<message, deliveries>>

TakenOver(w) ==
  /\ run.status \in Leased
  /\ run.owner # w
  /\ run.attempt < MaxAttempts
  /\ run' = [run EXCEPT !.version = @ + 1, !.attempt = @ + 1, !.owner = w]
  /\ UNCHANGED <<events, message, deliveries>>

Appended(type) ==
  /\ run.status \in Leased
  /\ run' = [run EXCEPT !.nextSeq = @ + 1]
  /\ events' = events \cup {Logged(0, type)}
  /\ UNCHANGED <<message, deliveries>>

Saved(n) ==
  /\ run.status = "RUNNING"
  /\ run' = [run EXCEPT !.checkpoint = n + 1, !.cpVersion = @ + 1]
  /\ UNCHANGED <<events, message, deliveries>>

\* A checkpoint that committed, and where its worker goes from there.
SavedBy(w) ==
  /\ At(w, "save")
  /\ HoldsLease(w)
  /\ Saved(worker[w].node)
  /\ UNCHANGED <<leaseLive, step>>
  /\ Acked(w, [worker EXCEPT ![w].pc = "guard", ![w].node = @ + 1, ![w].cpVersion = @ + 1])

CancelAsked ==
  /\ run.status = "RUNNING"
  /\ run' = [run EXCEPT !.status = "CANCEL_REQUESTED", !.version = @ + 1, !.cancelled = TRUE]
  /\ UNCHANGED <<events, message, deliveries>>

Completed ==
  /\ run.status = "RUNNING"
  /\ EndRun([run EXCEPT !.nextSeq = @ + 1],
            events \cup {Logged(0, "model.delta")}, "COMPLETED")
  /\ deliveries' = deliveries + 1

Ended(end) ==
  /\ \/ run.status \in Leased /\ EndRun(run, events, end)
     \/ run.status = "QUEUED" /\ end = "CANCELLED" /\ EndRun([run EXCEPT !.cancelled = TRUE], events, end)
     \/ run.status \in {"QUEUED", "RUNNING"} /\ end = "FAILED" /\ EndRun([run EXCEPT !.started = TRUE], events, end)
  /\ UNCHANGED deliveries

RowStep ==
  \/ Untouched
  \/ \E w \in Worker : Started(w) \/ TakenOver(w)
  \/ \E type \in {"agent.progress", "tool"} : Appended(type)
  \/ \E w \in Worker : SavedBy(w)
  \/ CancelAsked
  \/ Completed
  \/ \E end \in {"FAILED", "CANCELLED"} : Ended(end)

\* Every action writes the row in one of these ways.
LEMMA EveryRowStep ==
  ASSUME [Next]_vars
  PROVE  RowStep
<1>1. CASE UNCHANGED vars
  BY <1>1 DEF vars, RowStep, Untouched
<1>2. ASSUME NEW w \in Worker, ClaimRun(w) PROVE RowStep
  BY <1>2 DEF ClaimRun, CanClaim, RowStep, Untouched, Started, TakenOver
<1>3. ASSUME NEW w \in Worker, NEW target, NEW next, TransitionStep(w, target, next) PROVE RowStep
  BY <1>3 DEF TransitionStep, Fails, HoldsLease, RowStep, Untouched, Appended
<1>4. ASSUME NEW w \in Worker, SaveCheckpoint(w) PROVE RowStep
  BY <1>4 DEF SaveCheckpoint, Fails, RowStep, Untouched, Saved, SavedBy
<1>5. ASSUME NEW w \in Worker, CompleteRun(w) PROVE RowStep
  BY <1>5 DEF CompleteRun, Fails, RowStep, Untouched, Completed
<1>6. ASSUME NEW w \in Worker, NEW end \in {"FAILED", "CANCELLED"}, TransitionRun(w, end) PROVE RowStep
  BY <1>6 DEF TransitionRun, Fails, HoldsLease, RowStep, Untouched, Ended
<1>7. ASSUME NEW w \in Worker, HandlerEvent(w) PROVE RowStep
  BY <1>7 DEF HandlerEvent, HoldsLease, RowStep, Untouched, Appended
<1>8. CASE RequestCancel
  BY <1>8 DEF RequestCancel, RowStep, CancelAsked, Ended
<1>9. CASE ExpireOverdueRun
  BY <1>9 DEF ExpireOverdueRun, RowStep, Ended, Leased
<1>10. ASSUME NEW w \in Worker,
              \/ Deliver(w) \/ ClaimRefused(w) \/ FindForExecution(w) \/ Guard(w) \/ CreateStep(w)
              \/ ReadExistingStep(w) \/ FirstBeat(w) \/ HandlerReturns(w) \/ HandlerThrows(w)
              \/ FinishErroredStep(w) \/ CatchInResume(w) \/ TimedBeat(w) \/ Crash(w) \/ Abort(w)
       PROVE RowStep
  <2>1. Untouched
    BY <1>10 DEF Untouched, Deliver, ClaimRefused, FindForExecution, Guard, CreateStep, ReadExistingStep,
       FirstBeat, HandlerReturns, HandlerThrows, FinishErroredStep, CatchInResume, TimedBeat, Crash, Abort, Fails
  <2> QED BY <2>1 DEF RowStep
<1>11. CASE DeadlinePasses \/ LeaseExpires
  BY <1>11 DEF DeadlinePasses, LeaseExpires, RowStep, Untouched
<1> QED
  BY <1>1, <1>2, <1>3, <1>4, <1>5, <1>6, <1>7, <1>8, <1>9, <1>10, <1>11
  DEF Next, Advance, StartStep, FinishStep, FailStep, CancelStep, FailRun, CancelRun

\* ... and leaves it well typed: no column leaves its domain.
LEMMA RowTyped ==
  ASSUME TypeOK, WorkerOnNode, RowStep
  PROVE  /\ run' \in RunRow
         /\ events' \subseteq [seq : Nat, type : EventType]
         /\ message' \in {"PENDING"} \cup Terminal
         /\ deliveries' \in Nat
<1>1. /\ run \in RunRow
      /\ events \subseteq [seq : Nat, type : EventType]
      /\ message \in {"PENDING"} \cup Terminal
      /\ deliveries \in Nat
      /\ run.version + 1 \in Nat /\ run.nextSeq + 1 \in Nat \ {0} /\ run.cpVersion + 1 \in Nat
      /\ run.nextSeq \in Nat \ {0} /\ run.attempt \in 0 .. MaxAttempts
  BY DEF TypeOK, RunRow
<1>2. /\ Leased \subseteq RunStatus /\ Terminal \subseteq RunStatus /\ "QUEUED" \in RunStatus
      /\ Leased = {"RUNNING", "CANCEL_REQUESTED"}
      /\ Terminal = {"COMPLETED", "FAILED", "CANCELLED"}
  BY DEF RunStatus, Leased, Terminal
<1>3. \A type \in EventType : Logged(0, type) \in [seq : Nat, type : EventType]
  BY <1>1 DEF Logged
<1>4. \A base \in RunRow, end \in Terminal :
        [base EXCEPT !.status = end, !.version = @ + 1, !.owner = NoWorker, !.nextSeq = @ + 1] \in RunRow
  <2>1. TAKE base \in RunRow, end \in Terminal
  <2>2. base.version + 1 \in Nat /\ base.nextSeq + 1 \in Nat \ {0} /\ end \in RunStatus
    BY <1>2 DEF RunRow
  <2> QED BY <2>2 DEF RunRow
<1>5. ASSUME NEW base \in RunRow, NEW log, log \subseteq [seq : Nat, type : EventType], NEW end \in Terminal,
             EndRun(base, log, end)
      PROVE  /\ run' \in RunRow
             /\ events' \subseteq [seq : Nat, type : EventType]
             /\ message' \in {"PENDING"} \cup Terminal
  <2>1. [seq |-> base.nextSeq, type |-> TerminalEvent[end]] \in [seq : Nat, type : EventType]
    BY <1>2 DEF RunRow, TerminalEvent, EventType
  <2> QED BY <1>4, <1>5, <2>1 DEF EndRun
<1>6. CASE Untouched
  BY <1>1, <1>6 DEF Untouched
<1>7. ASSUME NEW w \in Worker, Started(w) PROVE run' \in RunRow /\ events' \subseteq [seq : Nat, type : EventType]
  <2>1. run.attempt + 1 \in 0 .. MaxAttempts BY <1>1, <1>7, AgentRunAssumption DEF Started
  <2>2. run' \in RunRow BY <1>1, <1>2, <1>7, <2>1 DEF Started, RunRow
  <2> QED BY <1>1, <1>3, <1>7, <2>2 DEF Started, EventType
<1>8. ASSUME NEW w \in Worker, TakenOver(w) PROVE run' \in RunRow
  <2>1. run.attempt + 1 \in 0 .. MaxAttempts BY <1>1, <1>8, AgentRunAssumption DEF TakenOver
  <2> QED BY <1>1, <1>8, <2>1 DEF TakenOver, RunRow
<1>9. ASSUME NEW type \in {"agent.progress", "tool"}, Appended(type)
      PROVE run' \in RunRow /\ events' \subseteq [seq : Nat, type : EventType]
  <2>1. run' \in RunRow BY <1>1, <1>9 DEF Appended, RunRow
  <2> QED BY <1>1, <1>3, <1>9, <2>1 DEF Appended, EventType
<1>10. ASSUME NEW w \in Worker, SavedBy(w) PROVE run' \in RunRow
  <2>1. worker[w].node + 1 \in 0 .. NodeCount
    BY <1>10, AgentRunAssumption DEF WorkerOnNode, InExecute, Node, SavedBy, At
  <2> QED BY <1>1, <1>10, <2>1 DEF Saved, SavedBy, RunRow
<1>11. CASE CancelAsked
  BY <1>1, <1>2, <1>11 DEF CancelAsked, RunRow
<1>12. CASE Completed
  <2>1. [run EXCEPT !.nextSeq = @ + 1] \in RunRow BY <1>1 DEF RunRow
  <2>2. events \cup {Logged(0, "model.delta")} \subseteq [seq : Nat, type : EventType]
    BY <1>1, <1>3 DEF EventType
  <2>3. "COMPLETED" \in Terminal BY <1>2
  <2> QED BY <1>1, <1>5, <1>12, <2>1, <2>2, <2>3 DEF Completed
<1>13. ASSUME NEW end \in {"FAILED", "CANCELLED"}, Ended(end)
       PROVE  /\ run' \in RunRow
              /\ events' \subseteq [seq : Nat, type : EventType]
              /\ message' \in {"PENDING"} \cup Terminal
  <2>1. [run EXCEPT !.cancelled = TRUE] \in RunRow /\ [run EXCEPT !.started = TRUE] \in RunRow
    BY <1>1 DEF RunRow
  <2>2. end \in Terminal BY <1>2
  <2> QED BY <1>1, <1>5, <1>13, <2>1, <2>2 DEF Ended
<1> QED
  BY <1>1, <1>6, <1>7, <1>8, <1>9, <1>10, <1>11, <1>12, <1>13
  DEF RowStep, Started, TakenOver, Appended, Saved, SavedBy, CancelAsked, Completed, Ended

\* What every ending writes.
LEMMA EndingWrites ==
  ASSUME NEW base \in RunRow, NEW log, NEW end, EndRun(base, log, end)
  PROVE  /\ run'.status = end /\ run'.version = base.version + 1 /\ run'.owner = NoWorker
         /\ run'.nextSeq = base.nextSeq + 1 /\ run'.attempt = base.attempt
         /\ run'.started = base.started /\ run'.cancelled = base.cancelled
         /\ run'.checkpoint = base.checkpoint /\ run'.cpVersion = base.cpVersion
         /\ events' = log \cup {[seq |-> base.nextSeq, type |-> TerminalEvent[end]]}
         /\ message = "PENDING" /\ message' = end
         /\ end \in RunTargets[run.status]
BY DEF EndRun, RunRow

\* What failing, cancelling and expiring write, whichever columns they set first.
LEMMA EndedWrites ==
  ASSUME TypeOK, NEW end \in {"FAILED", "CANCELLED"}, Ended(end)
  PROVE  /\ run'.status = end /\ run'.version = run.version + 1 /\ run'.owner = NoWorker
         /\ run'.nextSeq = run.nextSeq + 1 /\ run'.attempt = run.attempt
         /\ run'.checkpoint = run.checkpoint /\ run'.cpVersion = run.cpVersion
         /\ events' = events \cup {[seq |-> run.nextSeq, type |-> TerminalEvent[end]]}
         /\ message = "PENDING" /\ message' = end /\ deliveries' = deliveries
         /\ end \in RunTargets[run.status]
         /\ \/ run.status \in Leased /\ run'.started = run.started /\ run'.cancelled = run.cancelled
            \/ run.status = "QUEUED" /\ end = "CANCELLED" /\ run'.cancelled
            \/ /\ run.status \in {"QUEUED", "RUNNING"} /\ end = "FAILED"
               /\ run'.started /\ run'.cancelled = run.cancelled
<1> DEFINE c == [run EXCEPT !.cancelled = TRUE]
           s == [run EXCEPT !.started = TRUE]
<1>1. run \in RunRow BY DEF TypeOK
<1>2. /\ c \in RunRow /\ c.status = run.status /\ c.version = run.version
      /\ c.nextSeq = run.nextSeq /\ c.attempt = run.attempt /\ c.checkpoint = run.checkpoint
      /\ c.cpVersion = run.cpVersion /\ c.cancelled
  BY <1>1 DEF RunRow
<1>3. /\ s \in RunRow /\ s.status = run.status /\ s.version = run.version
      /\ s.nextSeq = run.nextSeq /\ s.attempt = run.attempt /\ s.checkpoint = run.checkpoint
      /\ s.cpVersion = run.cpVersion /\ s.started /\ s.cancelled = run.cancelled
  BY <1>1 DEF RunRow
<1>4. CASE run.status \in Leased /\ EndRun(run, events, end)
  BY <1>1, <1>4, EndingWrites DEF Ended
<1>5. CASE run.status = "QUEUED" /\ end = "CANCELLED" /\ EndRun(c, events, end)
  <2> HIDE DEF c
  <2> QED BY <1>2, <1>5, EndingWrites DEF Ended
<1>6. CASE run.status \in {"QUEUED", "RUNNING"} /\ end = "FAILED" /\ EndRun(s, events, end)
  <2> HIDE DEF s
  <2> QED BY <1>3, <1>6, EndingWrites DEF Ended
<1> QED BY <1>4, <1>5, <1>6 DEF Ended

\* The CHECKs of ai_agent_runs survive every write.
LEMMA ChecksPreserved ==
  ASSUME TypeOK, RowSatisfiesChecks, RowStep, run' \in RunRow
  PROVE  RowSatisfiesChecks'
<1>1. run \in RunRow BY DEF TypeOK
<1>2. NoWorker \notin Worker BY AgentRunAssumption
<1>3. run'.attempt <= MaxAttempts BY AgentRunAssumption DEF RunRow
<1>4. CASE Untouched
  BY <1>4 DEF Untouched, RowSatisfiesChecks
<1>5. ASSUME NEW w \in Worker, Started(w) PROVE RowSatisfiesChecks'
  BY <1>1, <1>2, <1>3, <1>5 DEF Started, RowSatisfiesChecks, RunRow, Leased
<1>6. ASSUME NEW w \in Worker, TakenOver(w) PROVE RowSatisfiesChecks'
  BY <1>1, <1>2, <1>3, <1>6 DEF TakenOver, RowSatisfiesChecks, RunRow, Leased
<1>7. ASSUME NEW type, Appended(type) PROVE RowSatisfiesChecks'
  BY <1>1, <1>3, <1>7 DEF Appended, RowSatisfiesChecks, RunRow, Leased
<1>8. ASSUME NEW n, Saved(n) PROVE RowSatisfiesChecks'
  BY <1>1, <1>3, <1>8 DEF Saved, RowSatisfiesChecks, RunRow, Leased
<1>9. CASE CancelAsked
  BY <1>1, <1>3, <1>9 DEF CancelAsked, RowSatisfiesChecks, RunRow, Leased
<1>10. CASE Completed
  BY <1>1, <1>3, <1>10 DEF Completed, EndRun, RowSatisfiesChecks, RunRow, Leased
<1>11. ASSUME NEW end \in {"FAILED", "CANCELLED"}, Ended(end) PROVE RowSatisfiesChecks'
  BY <1>3, <1>11, EndedWrites DEF RunTargets, RowSatisfiesChecks, Leased
<1> QED
  BY <1>4, <1>5, <1>6, <1>7, <1>8, <1>9, <1>10, <1>11 DEF RowStep, SavedBy

\* The message and the intents change with the outcome only.
LEMMA OutcomePreserved ==
  ASSUME TypeOK, OutcomeAgrees, RowStep
  PROVE  OutcomeAgrees'
<1>1. run \in RunRow BY DEF TypeOK
<1>2. CASE Untouched
  BY <1>2 DEF Untouched, OutcomeAgrees
<1>3. ASSUME NEW w \in Worker, Started(w) \/ TakenOver(w) PROVE OutcomeAgrees'
  BY <1>1, <1>3 DEF Started, TakenOver, OutcomeAgrees, RunRow, Leased, Terminal
<1>4. ASSUME NEW type, Appended(type) PROVE OutcomeAgrees'
  BY <1>1, <1>4 DEF Appended, OutcomeAgrees, RunRow, Leased, Terminal
<1>5. ASSUME NEW n, Saved(n) PROVE OutcomeAgrees'
  BY <1>1, <1>5 DEF Saved, OutcomeAgrees, RunRow, Terminal
<1>6. CASE CancelAsked
  BY <1>1, <1>6 DEF CancelAsked, OutcomeAgrees, RunRow, Terminal
<1>7. CASE Completed
  BY <1>1, <1>7 DEF Completed, EndRun, OutcomeAgrees, RunRow, Terminal
<1>8. ASSUME NEW end \in {"FAILED", "CANCELLED"}, Ended(end) PROVE OutcomeAgrees'
  BY <1>8, EndedWrites DEF OutcomeAgrees, Leased, Terminal
<1> QED
  BY <1>2, <1>3, <1>4, <1>5, <1>6, <1>7, <1>8 DEF RowStep, SavedBy

Gapless(log, k) ==
  /\ {e.seq : e \in log} = 1 .. k - 1
  /\ \A e, f \in log : e.seq = f.seq => e = f

\* Appending the next number to a gapless log leaves it gapless.
LEMMA AppendKeepsLog ==
  ASSUME NEW log, NEW k \in Nat \ {0}, NEW new, new.seq = k, Gapless(log, k)
  PROVE  Gapless(log \cup {new}, k + 1)
<1> USE DEF Gapless
<1>1. \A e \in log : e.seq \in 1 .. k - 1 OBVIOUS
<1>2. {e.seq : e \in log \cup {new}} = {e.seq : e \in log} \cup {k} OBVIOUS
<1>3. (1 .. k - 1) \cup {k} = 1 .. k OBVIOUS
<1>4. (k + 1) - 1 = k OBVIOUS
<1>5. ASSUME NEW e \in log \cup {new}, NEW f \in log \cup {new}, e.seq = f.seq PROVE e = f
  BY <1>1, <1>5
<1> QED BY <1>2, <1>3, <1>4, <1>5

\* Whoever appends, the log stays gapless.
LEMMA LogPreserved ==
  ASSUME TypeOK, EventLogGapless, RowStep
  PROVE  EventLogGapless'
<1>1. run \in RunRow BY DEF TypeOK
<1>2. run.nextSeq \in Nat \ {0} BY <1>1 DEF RunRow
<1>gap. Gapless(events, run.nextSeq) BY DEF EventLogGapless, Gapless
<1>goal. Gapless(events', run'.nextSeq) => EventLogGapless' BY DEF EventLogGapless, Gapless
<1>3. ASSUME run'.nextSeq = run.nextSeq, events' = events PROVE EventLogGapless'
  BY <1>3, <1>gap, <1>goal
<1>4. ASSUME NEW new, new.seq = run.nextSeq,
             run'.nextSeq = run.nextSeq + 1, events' = events \cup {new}
      PROVE  EventLogGapless'
  BY <1>2, <1>4, <1>gap, <1>goal, AppendKeepsLog
<1>5. CASE Untouched
  BY <1>3, <1>5 DEF Untouched
<1>6. ASSUME NEW w \in Worker, Started(w) PROVE EventLogGapless'
  <2>1. run'.nextSeq = run.nextSeq + 1 BY <1>1, <1>6 DEF Started, RunRow
  <2>2. Logged(0, "agent.started").seq = run.nextSeq BY <1>2 DEF Logged
  <2> QED BY <1>4, <1>6, <2>1, <2>2 DEF Started
<1>7. ASSUME NEW w \in Worker, TakenOver(w) PROVE EventLogGapless'
  BY <1>1, <1>3, <1>7 DEF TakenOver, RunRow
<1>8. ASSUME NEW type, Appended(type) PROVE EventLogGapless'
  <2>1. run'.nextSeq = run.nextSeq + 1 BY <1>1, <1>8 DEF Appended, RunRow
  <2>2. Logged(0, type).seq = run.nextSeq BY <1>2 DEF Logged
  <2> QED BY <1>4, <1>8, <2>1, <2>2 DEF Appended
<1>9. ASSUME NEW n, Saved(n) PROVE EventLogGapless'
  BY <1>1, <1>3, <1>9 DEF Saved, RunRow
<1>10. CASE CancelAsked
  BY <1>1, <1>3, <1>10 DEF CancelAsked, RunRow
<1>11. CASE Completed
  <2> DEFINE d    == Logged(0, "model.delta")
             log  == events \cup {d}
             k    == run.nextSeq + 1
             last == [seq |-> k, type |-> TerminalEvent["COMPLETED"]]
  <2>1. d.seq = run.nextSeq BY <1>2 DEF Logged
  <2>2. last.seq = k OBVIOUS
  <2>3. k \in Nat \ {0} BY <1>2
  <2>4. events' = log \cup {last} /\ run'.nextSeq = k + 1
    <3>1. /\ [run EXCEPT !.nextSeq = @ + 1] \in RunRow
          /\ [run EXCEPT !.nextSeq = @ + 1].nextSeq = k
      BY <1>1, <1>2 DEF RunRow
    <3> QED BY <1>11, <3>1, EndingWrites DEF Completed
  <2>5. Gapless(log, k)
    BY <1>2, <1>gap, <2>1, AppendKeepsLog
  <2> HIDE DEF log, k, last
  <2>6. Gapless(log \cup {last}, k + 1)
    BY <2>2, <2>3, <2>5, AppendKeepsLog
  <2> QED BY <2>4, <2>6, <1>goal
<1>12. ASSUME NEW end \in {"FAILED", "CANCELLED"}, Ended(end) PROVE EventLogGapless'
  BY <1>4, <1>12, EndedWrites
<1> QED
  BY <1>5, <1>6, <1>7, <1>8, <1>9, <1>10, <1>11, <1>12 DEF RowStep, SavedBy

\* A terminal event is written with the ending and nothing follows it.
LEMMA ClosingPreserved ==
  ASSUME TypeOK, EventLogGapless, TerminalEventClosesLog, RowStep
  PROVE  TerminalEventClosesLog'
<1>1. run \in RunRow BY DEF TypeOK
<1>2. run.nextSeq \in Nat \ {0} BY <1>1 DEF RunRow
<1>3. ASSUME UNCHANGED events, run'.nextSeq = run.nextSeq,
             run'.status = run.status \/ (run.status \notin Terminal /\ run'.status \notin Terminal)
      PROVE  TerminalEventClosesLog'
  BY <1>3 DEF TerminalEventClosesLog
<1>4. ASSUME run.status \notin Terminal, run'.status \notin Terminal,
             NEW new, new.type \notin {TerminalEvent[t] : t \in Terminal},
             events' = events \cup {new}
      PROVE  TerminalEventClosesLog'
  BY <1>4 DEF TerminalEventClosesLog
<1>5. ASSUME run.status \notin Terminal, NEW end \in Terminal, run'.status = end,
             NEW log, \A e \in log : e.type \notin {TerminalEvent[t] : t \in Terminal},
             events' = log \cup {[seq |-> run'.nextSeq - 1, type |-> TerminalEvent[end]]}
      PROVE  TerminalEventClosesLog'
  <2>1. \A t \in Terminal : TerminalEvent[t] = TerminalEvent[end] => t = end
    BY DEF Terminal, TerminalEvent
  <2> QED BY <1>5, <2>1 DEF TerminalEventClosesLog
<1>6. \A type \in {"agent.started", "agent.progress", "tool", "model.delta"} :
        Logged(0, type).type \notin {TerminalEvent[t] : t \in Terminal}
  BY DEF Logged, Terminal, TerminalEvent
<1>7. run.status \notin Terminal => \A e \in events : e.type \notin {TerminalEvent[t] : t \in Terminal}
  BY DEF TerminalEventClosesLog
<1>8. CASE Untouched
  BY <1>3, <1>8 DEF Untouched
<1>9. ASSUME NEW w \in Worker, Started(w) PROVE TerminalEventClosesLog'
  <2>1. run'.status = "RUNNING" BY <1>1, <1>9 DEF Started, RunRow
  <2> QED BY <1>4, <1>6, <1>9, <2>1 DEF Started, Terminal
<1>10. ASSUME NEW w \in Worker, TakenOver(w) PROVE TerminalEventClosesLog'
  BY <1>1, <1>3, <1>10 DEF TakenOver, RunRow
<1>11. ASSUME NEW type \in {"agent.progress", "tool"}, Appended(type) PROVE TerminalEventClosesLog'
  <2>1. run'.status = run.status BY <1>1, <1>11 DEF Appended, RunRow
  <2> QED BY <1>4, <1>6, <1>11, <2>1 DEF Appended, Leased, Terminal
<1>12. ASSUME NEW n, Saved(n) PROVE TerminalEventClosesLog'
  BY <1>1, <1>3, <1>12 DEF Saved, RunRow
<1>13. CASE CancelAsked
  BY <1>1, <1>3, <1>13 DEF CancelAsked, RunRow, Terminal
<1>14. CASE Completed
  <2> DEFINE base == [run EXCEPT !.nextSeq = @ + 1]
             log  == events \cup {Logged(0, "model.delta")}
  <2>1. base \in RunRow /\ base.nextSeq = run.nextSeq + 1 /\ EndRun(base, log, "COMPLETED")
    BY <1>1, <1>2, <1>14 DEF RunRow, Completed
  <2>2. \A e \in log : e.type \notin {TerminalEvent[t] : t \in Terminal}
    BY <1>6, <1>7, <1>14 DEF Completed, Terminal
  <2> HIDE DEF base, log
  <2>3. /\ run'.status = "COMPLETED" /\ run'.nextSeq = base.nextSeq + 1
        /\ events' = log \cup {[seq |-> base.nextSeq, type |-> TerminalEvent["COMPLETED"]]}
    BY <2>1, EndingWrites
  <2>4. run'.nextSeq - 1 = base.nextSeq BY <1>2, <2>1, <2>3
  <2>5. run.status \notin Terminal BY <1>14 DEF Completed, Terminal
  <2>6. "COMPLETED" \in Terminal BY DEF Terminal
  <2> QED BY <1>5, <2>2, <2>3, <2>4, <2>5, <2>6
<1>15. ASSUME NEW end \in {"FAILED", "CANCELLED"}, Ended(end) PROVE TerminalEventClosesLog'
  <2>1. end \in Terminal BY DEF Terminal
  <2>2. run.status \notin Terminal BY <1>15 DEF Ended, Leased, Terminal
  <2>3. run'.nextSeq - 1 = run.nextSeq BY <1>2, <1>15, EndedWrites
  <2> QED BY <1>5, <1>7, <1>15, <2>1, <2>2, <2>3, EndedWrites
<1> QED
  BY <1>8, <1>9, <1>10, <1>11, <1>12, <1>13, <1>14, <1>15 DEF RowStep, SavedBy

-----------------------------------------------------------------------------
(* What a step does to the workers *)

Leaves(w) == worker'[w].pc \notin InExecute

Stays(w) ==
  /\ worker[w].pc \in InExecute
  /\ worker'[w].pc \in {"finish", "complete", "save"} => worker'[w].pc = worker[w].pc
  /\ worker'[w].node = worker[w].node
  /\ worker'[w].cpVersion = worker[w].cpVersion

Finds(w) ==
  /\ worker'[w].pc = "guard"
  /\ worker'[w].node = run.checkpoint
  /\ worker'[w].cpVersion = run.cpVersion
  /\ UNCHANGED <<run, leaseLive, step>>

Heads(w) ==
  /\ worker[w].pc = "guard2"
  /\ worker'[w].pc = IF worker[w].node = LastNode THEN "complete" ELSE "finish"
  /\ worker'[w].node = worker[w].node
  /\ worker'[w].cpVersion = worker[w].cpVersion
  /\ UNCHANGED <<run, leaseLive, step>>

Restores(w) ==
  /\ worker[w].pc = "existing"
  /\ worker'[w].pc = "save"
  /\ step[worker[w].node] = "COMPLETED"
  /\ worker'[w].node = worker[w].node
  /\ worker'[w].cpVersion = worker[w].cpVersion
  /\ UNCHANGED <<run, leaseLive, step>>

Finishes(w) ==
  /\ worker[w].pc = "finish"
  /\ worker'[w].pc = "save"
  /\ step' = [step EXCEPT ![worker[w].node] = "COMPLETED"]
  /\ worker'[w].node = worker[w].node
  /\ worker'[w].cpVersion = worker[w].cpVersion

Saves(w) ==
  /\ worker[w].pc = "save"
  /\ HoldsLease(w)
  /\ Saved(worker[w].node)
  /\ worker'[w].pc = "guard"
  /\ worker'[w].node = worker[w].node + 1
  /\ worker'[w].cpVersion = worker[w].cpVersion + 1
  /\ UNCHANGED <<leaseLive, step>>

Moves(w) ==
  /\ worker' \in [Worker -> Local]
  /\ \A v \in Worker : v # w => worker'[v] = worker[v]
  /\ Leaves(w) \/ Stays(w) \/ Finds(w) \/ Heads(w) \/ Restores(w) \/ Finishes(w) \/ Saves(w)

\* r is the workers' state with w at pc, node i and checkpoint version n, and nobody
\* else touched.
Placed(r, w, pc, i, n) ==
  /\ r \in [Worker -> Local]
  /\ \A v \in Worker : v # w => r[v] = worker[v]
  /\ r[w].pc = pc /\ r[w].node = i /\ r[w].cpVersion = n

\* An exception leaves the node and the checkpoint version as they were.
LEMMA RaisePlaces ==
  ASSUME TypeOK, NEW w \in Worker, NEW e \in ErrorKind
  PROVE  Placed(Raise(w, e), w, Catcher(worker[w].pc), worker[w].node, worker[w].cpVersion)
<1> DEFINE c == Catcher(worker[w].pc)
           r == [worker EXCEPT ![w].pc = c, ![w].err = e]
<1>1. worker \in [Worker -> Local] BY DEF TypeOK
<1>2. c \in Pc BY DEF Catcher, Pc
<1>3. Raise(w, e) = r BY DEF Raise
<1> HIDE DEF c
<1>4. r \in [Worker -> Local] BY <1>1, <1>2 DEF Local
<1>5. /\ r[w].pc = c /\ r[w].node = worker[w].node /\ r[w].cpVersion = worker[w].cpVersion
      /\ \A v \in Worker : v # w => r[v] = worker[v]
  BY <1>1, <1>2 DEF Local
<1> QED BY <1>3, <1>4, <1>5 DEF c, Placed

\* A jump of one worker.
LEMMA GotoPlaces ==
  ASSUME TypeOK, NEW w \in Worker, NEW pc \in Pc
  PROVE  Placed(Goto(w, pc), w, pc, worker[w].node, worker[w].cpVersion)
BY DEF TypeOK, Goto, Local, Placed

\* The other updates of one worker's record.
LEMMA UpdatePlaces ==
  ASSUME TypeOK, NEW w \in Worker, NEW pc \in Pc, NEW e \in ErrorKind, NEW n \in Nat
  PROVE  /\ Placed([worker EXCEPT ![w].beat = e], w, worker[w].pc, worker[w].node, worker[w].cpVersion)
         /\ Placed([worker EXCEPT ![w].aborted = TRUE], w, worker[w].pc, worker[w].node, worker[w].cpVersion)
         /\ Placed([worker EXCEPT ![w].pc = pc, ![w].seen = n], w, pc, worker[w].node, worker[w].cpVersion)
         /\ Placed([worker EXCEPT ![w].pc = pc, ![w].beat = e], w, pc, worker[w].node, worker[w].cpVersion)
         /\ \A i \in 0 .. NodeCount :
              Placed([worker EXCEPT ![w].pc = pc, ![w].node = i, ![w].cpVersion = n], w, pc, i, n)
<1>1. worker \in [Worker -> Local] BY DEF TypeOK
<1>2. Placed([worker EXCEPT ![w].beat = e], w, worker[w].pc, worker[w].node, worker[w].cpVersion)
  BY <1>1 DEF Local, Placed
<1>3. Placed([worker EXCEPT ![w].aborted = TRUE], w, worker[w].pc, worker[w].node, worker[w].cpVersion)
  BY <1>1 DEF Local, Placed
<1>4. Placed([worker EXCEPT ![w].pc = pc, ![w].seen = n], w, pc, worker[w].node, worker[w].cpVersion)
  BY <1>1 DEF Local, Placed
<1>5. Placed([worker EXCEPT ![w].pc = pc, ![w].beat = e], w, pc, worker[w].node, worker[w].cpVersion)
  BY <1>1 DEF Local, Placed
<1>6. ASSUME NEW i \in 0 .. NodeCount
      PROVE  Placed([worker EXCEPT ![w].pc = pc, ![w].node = i, ![w].cpVersion = n], w, pc, i, n)
  BY <1>1 DEF Local, Placed
<1> QED BY <1>2, <1>3, <1>4, <1>5, <1>6

\* An exception stays at the node's catch block or leaves execute.
LEMMA RaiseMoves ==
  ASSUME TypeOK, NEW w \in Worker, NEW e \in ErrorKind, worker' = Raise(w, e)
  PROVE  Moves(w)
<1>1. CASE Catcher(worker[w].pc) = "err"
  <2>1. worker[w].pc \in InExecute BY <1>1 DEF Catcher, InExecute
  <2> QED BY <1>1, <2>1, RaisePlaces DEF Moves, Stays, Placed
<1>2. CASE Catcher(worker[w].pc) # "err"
  <2>1. Catcher(worker[w].pc) \notin InExecute BY <1>2 DEF Catcher, InExecute
  <2> QED BY <2>1, RaisePlaces DEF Moves, Leaves, Placed
<1> QED BY <1>1, <1>2

\* So does a transaction that is rejected or fails ...
LEMMA FailsMoves ==
  ASSUME TypeOK, NEW w \in Worker, NEW ok, Fails(w, ok)
  PROVE  Moves(w)
BY RaiseMoves DEF Fails, ErrorKind

\* ... and a lost answer to one that committed.
LEMMA AckedMoves ==
  ASSUME TypeOK, NEW w \in Worker, NEW next, Acked(w, next), worker' = next => Moves(w)
  PROVE  Moves(w)
BY RaiseMoves DEF Acked, ErrorKind

\* A jump that stays in execute, or leaves it, without reaching finish, complete or save.
LEMMA JumpMoves ==
  ASSUME NEW w \in Worker, NEW pc,
         Placed(worker', w, pc, worker[w].node, worker[w].cpVersion),
         \/ pc = worker[w].pc
         \/ pc \notin InExecute
         \/ worker[w].pc \in InExecute /\ pc \notin {"finish", "complete", "save"}
  PROVE  Moves(w)
BY DEF Moves, Leaves, Stays, Placed

\* A worker whose checkpoint committed goes to the next node or leaves execute.
LEMMA SavedMoves ==
  ASSUME TypeOK, WorkerOnNode, NEW w \in Worker, SavedBy(w)
  PROVE  Moves(w) /\ (Saves(w) \/ Leaves(w))
<1>1. worker[w].node + 1 \in 0 .. NodeCount /\ worker[w].cpVersion + 1 \in Nat
  BY AgentRunAssumption DEF TypeOK, Local, WorkerOnNode, SavedBy, At, InExecute, Node
<1>2. CASE worker' = [worker EXCEPT ![w].pc = "guard", ![w].node = @ + 1, ![w].cpVersion = @ + 1]
  <2>1. Placed(worker', w, "guard", worker[w].node + 1, worker[w].cpVersion + 1)
    BY <1>1, <1>2, UpdatePlaces DEF Pc, ErrorKind
  <2> QED BY <2>1 DEF Moves, Saves, SavedBy, Placed, At
<1>3. CASE worker' = Raise(w, "other")
  <2>1. Placed(worker', w, "catch", worker[w].node, worker[w].cpVersion)
    BY <1>3, RaisePlaces DEF SavedBy, At, Catcher, ErrorKind
  <2> QED BY <2>1 DEF Moves, Leaves, Placed, InExecute
<1> QED BY <1>2, <1>3 DEF SavedBy, Acked

\* Every action moves at most one worker, in one of the ways of Moves.
LEMMA EveryMove ==
  ASSUME TypeOK, WorkerOnNode, [Next]_vars
  PROVE  UNCHANGED worker \/ \E w \in Worker : Moves(w)
<1>1. run \in RunRow /\ run.version \in Nat /\ run.cpVersion \in Nat /\ run.checkpoint \in 0 .. NodeCount
  BY DEF TypeOK, RunRow
<1>2. \A w \in Worker : worker[w] \in Local /\ worker[w].pc \in Pc /\ worker[w].cpVersion \in Nat
                        /\ worker[w].beat \in ErrorKind
  BY DEF TypeOK, Local
<1>3. CASE UNCHANGED vars \/ RequestCancel \/ ExpireOverdueRun \/ DeadlinePasses \/ LeaseExpires
  BY <1>3 DEF vars, RequestCancel, ExpireOverdueRun, DeadlinePasses, LeaseExpires
<1>4. ASSUME NEW w \in Worker, Deliver(w) \/ ClaimRun(w) \/ Crash(w) PROVE Moves(w)
  <2>1. ASSUME NEW pc \in {"claim", "find", "ignored", "dead"}, worker' = Goto(w, pc) PROVE Moves(w)
    BY <2>1, GotoPlaces, JumpMoves DEF Pc, InExecute
  <2> QED BY <1>4, <2>1, AckedMoves DEF Deliver, ClaimRun, Crash
<1>5. ASSUME NEW w \in Worker, ClaimRefused(w) PROVE Moves(w)
  BY <1>5, FailsMoves DEF ClaimRefused
<1>6. ASSUME NEW w \in Worker, FindForExecution(w) PROVE Moves(w)
  <2>1. CASE Fails(w, HoldsLease(w))
    BY <2>1, FailsMoves
  <2>2. CASE /\ worker' = [worker EXCEPT ![w].pc = "guard", ![w].node = run.checkpoint,
                                         ![w].cpVersion = run.cpVersion]
             /\ UNCHANGED <<run, leaseLive, step>>
    <3>1. Placed(worker', w, "guard", run.checkpoint, run.cpVersion)
      BY <1>1, <2>2, UpdatePlaces DEF Pc, ErrorKind
    <3> QED BY <2>2, <3>1 DEF Moves, Finds, Placed
  <2> QED BY <1>6, <2>1, <2>2 DEF FindForExecution
<1>7. ASSUME NEW w \in Worker, CatchInResume(w) PROVE Moves(w)
  <2>1. ASSUME NEW pc \in {"cancelRun", "thrown", "failRun"},
               worker' = [worker EXCEPT ![w].pc = pc, ![w].seen = run.version]
        PROVE  Moves(w)
    <3>1. pc \in Pc /\ pc \notin InExecute /\ "none" \in ErrorKind BY DEF Pc, InExecute, ErrorKind
    <3>2. Placed(worker', w, pc, worker[w].node, worker[w].cpVersion)
      BY <1>1, <2>1, <3>1, UpdatePlaces
    <3> QED BY <3>1, <3>2, JumpMoves
  <2> QED BY <1>7, <2>1, FailsMoves DEF CatchInResume
<1>8. ASSUME NEW w \in Worker, NEW end, TransitionRun(w, end) PROVE Moves(w)
  BY <1>8, FailsMoves, AckedMoves, GotoPlaces, JumpMoves DEF TransitionRun, Pc, InExecute
<1>9. ASSUME NEW w \in Worker, Guard(w) PROVE Moves(w)
  <2>1. ASSUME NEW e \in ErrorKind, worker' = Raise(w, e) PROVE Moves(w)
    BY <2>1, RaiseMoves
  <2>2. CASE At(w, "guard") /\ worker' = [worker EXCEPT ![w].pc = "create", ![w].seen = run.version]
    BY <1>1, <2>2, UpdatePlaces, JumpMoves DEF Pc, InExecute, At, ErrorKind
  <2>3. ASSUME At(w, "guard2"),
               NEW pc, pc = IF worker[w].node = LastNode THEN "complete" ELSE "finish",
               worker' = [worker EXCEPT ![w].pc = pc, ![w].seen = run.version],
               UNCHANGED <<run, leaseLive, step>>
        PROVE  Moves(w)
    <3>1. Placed(worker', w, pc, worker[w].node, worker[w].cpVersion)
      BY <1>1, <2>3, UpdatePlaces DEF Pc, ErrorKind
    <3> QED BY <2>3, <3>1 DEF Moves, Heads, Placed, At
  <2>4. \A late, live : GuardError(w, late, live) \in ErrorKind
    BY DEF GuardError, ErrorKind
  <2> QED BY <1>9, <2>1, <2>2, <2>3, <2>4, FailsMoves DEF Guard, At
<1>10. ASSUME NEW w \in Worker, CreateStep(w) PROVE Moves(w)
  <2>1. ASSUME NEW pc \in {"start", "existing"}, worker' = Goto(w, pc) PROVE Moves(w)
    BY <1>10, <2>1, GotoPlaces, JumpMoves DEF Pc, InExecute, CreateStep, At
  <2> QED BY <1>10, <2>1, AckedMoves, FailsMoves DEF CreateStep
<1>11. ASSUME NEW w \in Worker, ReadExistingStep(w) PROVE Moves(w)
  <2>1. ASSUME NEW pc \in {"start", "beat"}, worker' = Goto(w, pc) PROVE Moves(w)
    BY <1>11, <2>1, GotoPlaces, JumpMoves DEF Pc, InExecute, ReadExistingStep, At
  <2>2. CASE /\ step[worker[w].node] = "COMPLETED" /\ worker' = Goto(w, "save")
             /\ UNCHANGED <<run, leaseLive, step>>
    <3>1. Placed(worker', w, "save", worker[w].node, worker[w].cpVersion)
      BY <2>2, GotoPlaces DEF Pc
    <3> QED BY <1>11, <2>2, <3>1 DEF Moves, Restores, Placed, ReadExistingStep, At
  <2>3. CASE Fails(w, step[worker[w].node] \in {"COMPLETED", "PENDING", "RUNNING"})
    BY <2>3, FailsMoves
  <2> QED BY <1>11, <2>1, <2>2, <2>3 DEF ReadExistingStep
<1>12. ASSUME NEW w \in Worker, StartStep(w) PROVE Moves(w)
  <2>1. worker' = Goto(w, "beat") => Moves(w)
    BY <1>12, GotoPlaces, JumpMoves DEF Pc, InExecute, StartStep, At
  <2> QED BY <1>12, <2>1, AckedMoves, FailsMoves DEF StartStep, TransitionStep
<1>13. ASSUME NEW w \in Worker, FinishStep(w) PROVE Moves(w)
  <2>1. CASE /\ worker' = Goto(w, "save")
             /\ step' = [step EXCEPT ![worker[w].node] = "COMPLETED"]
    <3>1. Placed(worker', w, "save", worker[w].node, worker[w].cpVersion)
      BY <2>1, GotoPlaces DEF Pc
    <3> QED BY <1>13, <2>1, <3>1 DEF Moves, Finishes, Placed, FinishStep, At
  <2> QED BY <1>13, <2>1, AckedMoves, FailsMoves DEF FinishStep, TransitionStep
<1>14. ASSUME NEW w \in Worker, FailStep(w) \/ CancelStep(w) PROVE Moves(w)
  <2>1. worker' = Goto(w, "catch") => Moves(w)
    BY GotoPlaces, JumpMoves DEF Pc, InExecute
  <2> QED BY <1>14, <2>1, AckedMoves, FailsMoves DEF FailStep, CancelStep, TransitionStep
<1>15. ASSUME NEW w \in Worker, SaveCheckpoint(w) PROVE Moves(w)
  <2>1. CASE SavedBy(w)
    BY <2>1, SavedMoves
  <2>2. CASE Fails(w, /\ HoldsLease(w) /\ run.status = "RUNNING"
                      /\ run.cpVersion = worker[w].cpVersion)
    BY <2>2, FailsMoves
  <2> QED BY <1>15, <2>1, <2>2 DEF SaveCheckpoint, Saved, SavedBy
<1>16. ASSUME NEW w \in Worker, CompleteRun(w) PROVE Moves(w)
  <2>1. worker' = Goto(w, "done") => Moves(w)
    BY GotoPlaces, JumpMoves DEF Pc, InExecute
  <2> QED BY <1>16, <2>1, AckedMoves, FailsMoves DEF CompleteRun
<1>17. ASSUME NEW w \in Worker, FirstBeat(w) PROVE Moves(w)
  <2>1. ASSUME worker' = [worker EXCEPT ![w].pc = "handler", ![w].beat = "none"] PROVE Moves(w)
    <3>1. "handler" \in Pc /\ worker[w].pc \in InExecute /\ "none" \in ErrorKind
      BY <1>17 DEF Pc, InExecute, ErrorKind, FirstBeat, At
    <3>2. Placed(worker', w, "handler", worker[w].node, worker[w].cpVersion)
      BY <1>1, <2>1, <3>1, UpdatePlaces
    <3> QED BY <3>1, <3>2, JumpMoves
  <2> QED BY <1>17, <2>1, FailsMoves, RaiseMoves DEF FirstBeat, ErrorKind
<1>18. ASSUME NEW w \in Worker, TimedBeat(w) \/ Abort(w) PROVE Moves(w)
  <2>1. /\ "idle" \in Pc /\ \A e \in {"cancelled", "lease"} : e \in ErrorKind
    BY DEF Pc, ErrorKind
  <2>2. \/ \E e \in {"cancelled", "lease"} : worker' = [worker EXCEPT ![w].beat = e]
        \/ worker' = [worker EXCEPT ![w].aborted = TRUE]
    BY <1>18 DEF TimedBeat, Abort
  <2>3. Placed(worker', w, worker[w].pc, worker[w].node, worker[w].cpVersion)
    BY <1>1, <2>1, <2>2, UpdatePlaces
  <2> QED BY <2>3, JumpMoves
<1>19. ASSUME NEW w \in Worker, HandlerEvent(w) PROVE UNCHANGED worker
  BY <1>19 DEF HandlerEvent
<1>20. ASSUME NEW w \in Worker, HandlerReturns(w) \/ HandlerThrows(w) PROVE Moves(w)
  <2>1. worker' = Goto(w, "guard2") => Moves(w)
    BY <1>20, GotoPlaces, JumpMoves DEF Pc, InExecute, HandlerReturns, HandlerThrows, At
  <2>2. \A e \in ErrorKind : worker' = Raise(w, e) => Moves(w)
    BY RaiseMoves
  <2> QED BY <1>2, <1>20, <2>1, <2>2 DEF HandlerReturns, HandlerThrows, ErrorKind
<1>21. ASSUME NEW w \in Worker, FinishErroredStep(w) PROVE Moves(w)
  <2>1. ASSUME NEW pc \in {"catch", "cancelStep", "failStep"}, worker' = Goto(w, pc) PROVE Moves(w)
    BY <1>21, <2>1, GotoPlaces, JumpMoves DEF Pc, InExecute, FinishErroredStep, At
  <2> QED BY <1>21, <2>1 DEF FinishErroredStep
<1> QED
  BY <1>3, <1>4, <1>5, <1>6, <1>7, <1>8, <1>9, <1>10, <1>11, <1>12, <1>13, <1>14, <1>15, <1>16,
     <1>17, <1>18, <1>19, <1>20, <1>21
  DEF Next, Advance, FailRun, CancelRun

-----------------------------------------------------------------------------
(* What a step does to the lease and to the workflow steps *)

LeaseStep ==
  \/ (leaseLive' => leaseLive) /\ run'.owner \in {run.owner, NoWorker}
  \/ \E w \in Worker : run'.owner = w /\ worker'[w].pc \notin InExecute

Creates(w) ==
  /\ At(w, "create")
  /\ HoldsLease(w)
  /\ step[worker[w].node] = "NONE"
  /\ step' = [step EXCEPT ![worker[w].node] = "PENDING"]
  /\ UNCHANGED run

Transitions(w, target) ==
  /\ worker[w].pc \in {"start", "finish", "failStep", "cancelStep"}
  /\ HoldsLease(w)
  /\ target \in StepTargets[step[worker[w].node]]
  /\ target = "COMPLETED" => At(w, "finish")
  /\ run.status = "CANCEL_REQUESTED" => target = "CANCELLED"
  /\ step' = [step EXCEPT ![worker[w].node] = target]
  /\ run' = [run EXCEPT !.nextSeq = @ + 1]

Completes(w) ==
  /\ At(w, "complete")
  /\ HoldsLease(w)
  /\ "COMPLETED" \in StepTargets[step[worker[w].node]]
  /\ step' = [step EXCEPT ![worker[w].node] = "COMPLETED"]
  /\ Completed

StepStep ==
  \/ UNCHANGED step /\ run'.status # "COMPLETED"
  \/ UNCHANGED <<step, run>>
  \/ \E w \in Worker :
       \/ Creates(w) \/ Completes(w)
       \/ \E target \in {"RUNNING", "COMPLETED", "FAILED", "CANCELLED"} : Transitions(w, target)

\* Only a claim makes a lease live, and its worker is not in execute.
LEMMA EveryLeaseStep ==
  ASSUME TypeOK, [Next]_vars
  PROVE  LeaseStep
<1>1. run \in RunRow BY DEF TypeOK
<1>2. ASSUME NEW base \in RunRow, NEW log, NEW end, base.owner = run.owner, EndRun(base, log, end)
      PROVE  LeaseStep
  BY <1>2, EndingWrites DEF LeaseStep, EndRun
<1>3. /\ [run EXCEPT !.nextSeq = @ + 1] \in RunRow /\ [run EXCEPT !.nextSeq = @ + 1].owner = run.owner
      /\ [run EXCEPT !.cancelled = TRUE] \in RunRow /\ [run EXCEPT !.cancelled = TRUE].owner = run.owner
      /\ [run EXCEPT !.started = TRUE] \in RunRow /\ [run EXCEPT !.started = TRUE].owner = run.owner
  <2>1. run.nextSeq + 1 \in Nat \ {0} BY <1>1 DEF RunRow
  <2> QED BY <1>1, <2>1 DEF RunRow
<1>4. CASE UNCHANGED run /\ (leaseLive' => leaseLive)
  BY <1>4 DEF LeaseStep
<1>5. ASSUME NEW w \in Worker, NEW ok, Fails(w, ok) PROVE LeaseStep
  BY <1>4, <1>5 DEF Fails
<1>6. ASSUME NEW w \in Worker, ClaimRun(w) PROVE LeaseStep
  <2>1. CASE run'.owner = w /\ Acked(w, Goto(w, "find"))
    <3>1. Goto(w, "find")[w].pc = "find"
      BY GotoPlaces DEF Placed, Pc
    <3>2. Raise(w, "other")[w].pc = "thrown"
      BY <1>6, RaisePlaces DEF Placed, ClaimRun, At, Catcher, ErrorKind
    <3>3. worker'[w].pc \in {"find", "thrown"}
      BY <2>1, <3>1, <3>2 DEF Acked
    <3> QED BY <2>1, <3>3 DEF LeaseStep, InExecute
  <2>2. CASE UNCHANGED <<run, leaseLive>>
    BY <1>4, <2>2
  <2> QED BY <1>1, <1>6, <2>1, <2>2 DEF ClaimRun, RunRow
<1>7. ASSUME NEW w \in Worker, NEW target, NEW next, TransitionStep(w, target, next) PROVE LeaseStep
  BY <1>1, <1>5, <1>7 DEF TransitionStep, LeaseStep, RunRow
<1>8. ASSUME NEW w \in Worker, SaveCheckpoint(w) \/ HandlerEvent(w) PROVE LeaseStep
  BY <1>1, <1>5, <1>8 DEF SaveCheckpoint, HandlerEvent, LeaseStep, RunRow
<1>9. ASSUME NEW w \in Worker, CompleteRun(w) PROVE LeaseStep
  BY <1>2, <1>3, <1>5, <1>9 DEF CompleteRun
<1>10. ASSUME NEW w \in Worker, NEW end, TransitionRun(w, end) PROVE LeaseStep
  BY <1>1, <1>2, <1>5, <1>10 DEF TransitionRun
<1>11. CASE RequestCancel
  BY <1>1, <1>2, <1>3, <1>11 DEF RequestCancel, LeaseStep, RunRow
<1>12. CASE ExpireOverdueRun
  BY <1>1, <1>2, <1>3, <1>12 DEF ExpireOverdueRun
<1>13. CASE UNCHANGED vars \/ DeadlinePasses \/ LeaseExpires
  BY <1>4, <1>13 DEF vars, DeadlinePasses, LeaseExpires
<1>14. ASSUME NEW w \in Worker,
              \/ Deliver(w) \/ ClaimRefused(w) \/ FindForExecution(w) \/ Guard(w) \/ CreateStep(w)
              \/ ReadExistingStep(w) \/ FirstBeat(w) \/ HandlerReturns(w) \/ HandlerThrows(w)
              \/ FinishErroredStep(w) \/ CatchInResume(w) \/ TimedBeat(w) \/ Crash(w) \/ Abort(w)
       PROVE LeaseStep
  <2>1. UNCHANGED run /\ (leaseLive' => leaseLive)
    BY <1>14 DEF Deliver, ClaimRefused, FindForExecution, Guard, CreateStep, ReadExistingStep,
       FirstBeat, HandlerReturns, HandlerThrows, FinishErroredStep, CatchInResume, TimedBeat, Crash, Abort, Fails
  <2> QED BY <1>4, <2>1
<1> QED
  BY <1>6, <1>7, <1>8, <1>9, <1>10, <1>11, <1>12, <1>13, <1>14
  DEF Next, Advance, StartStep, FinishStep, FailStep, CancelStep, FailRun, CancelRun

\* Every change of a step is made by a lease holder, at the node it is at.
LEMMA EveryStepStep ==
  ASSUME TypeOK, RowSatisfiesChecks, [Next]_vars
  PROVE  StepStep
<1>1. run \in RunRow BY DEF TypeOK
<1>2. ASSUME NEW base \in RunRow, NEW log, NEW end, end # "COMPLETED", EndRun(base, log, end), UNCHANGED step
      PROVE  StepStep
  BY <1>2, EndingWrites DEF StepStep
<1>3. /\ [run EXCEPT !.cancelled = TRUE] \in RunRow
      /\ [run EXCEPT !.started = TRUE] \in RunRow
  BY <1>1 DEF RunRow
<1>4. CASE UNCHANGED <<step, run>>
  BY <1>4 DEF StepStep
<1>5. ASSUME NEW w \in Worker, NEW ok, Fails(w, ok) PROVE StepStep
  BY <1>4, <1>5 DEF Fails
<1>6. ASSUME NEW w \in Worker, ClaimRun(w) PROVE StepStep
  BY <1>1, <1>4, <1>6 DEF ClaimRun, StepStep, RunRow, Leased
<1>7. ASSUME NEW w \in Worker, NEW target \in {"RUNNING", "COMPLETED", "FAILED", "CANCELLED"}, NEW next,
             worker[w].pc \in {"start", "finish", "failStep", "cancelStep"},
             target = "COMPLETED" => At(w, "finish"),
             TransitionStep(w, target, next)
      PROVE  StepStep
  BY <1>5, <1>7 DEF TransitionStep, Transitions, StepStep
<1>8. ASSUME NEW w \in Worker, StartStep(w) \/ FinishStep(w) \/ FailStep(w) \/ CancelStep(w) PROVE StepStep
  BY <1>7, <1>8 DEF StartStep, FinishStep, FailStep, CancelStep, At
<1>9. ASSUME NEW w \in Worker, CreateStep(w) PROVE StepStep
  BY <1>4, <1>5, <1>9 DEF CreateStep, Creates, StepStep
<1>10. ASSUME NEW w \in Worker, SaveCheckpoint(w) \/ HandlerEvent(w) PROVE StepStep
  BY <1>1, <1>5, <1>10 DEF SaveCheckpoint, HandlerEvent, HoldsLease, Leased, StepStep, RunRow
<1>11. ASSUME NEW w \in Worker, CompleteRun(w) PROVE StepStep
  BY <1>5, <1>11 DEF CompleteRun, Completes, Completed, StepStep
<1>12. ASSUME NEW w \in Worker, NEW end \in {"FAILED", "CANCELLED"}, TransitionRun(w, end) PROVE StepStep
  BY <1>1, <1>2, <1>5, <1>12 DEF TransitionRun
<1>13. CASE RequestCancel
  <2>1. CASE EndRun([run EXCEPT !.cancelled = TRUE], events, "CANCELLED") /\ UNCHANGED step
    BY <1>2, <1>3, <2>1
  <2>2. CASE /\ run' = [run EXCEPT !.status = "CANCEL_REQUESTED", !.version = @ + 1, !.cancelled = TRUE]
             /\ UNCHANGED step
    BY <1>1, <2>2 DEF StepStep, RunRow
  <2> QED BY <1>13, <2>1, <2>2 DEF RequestCancel
<1>14. CASE ExpireOverdueRun
  BY <1>1, <1>2, <1>3, <1>14 DEF ExpireOverdueRun
<1>15. CASE UNCHANGED vars \/ DeadlinePasses \/ LeaseExpires
  BY <1>4, <1>15 DEF vars, DeadlinePasses, LeaseExpires
<1>16. ASSUME NEW w \in Worker,
              \/ Deliver(w) \/ ClaimRefused(w) \/ FindForExecution(w) \/ Guard(w)
              \/ ReadExistingStep(w) \/ FirstBeat(w) \/ HandlerReturns(w) \/ HandlerThrows(w)
              \/ FinishErroredStep(w) \/ CatchInResume(w) \/ TimedBeat(w) \/ Crash(w) \/ Abort(w)
       PROVE StepStep
  <2>1. UNCHANGED <<step, run>>
    BY <1>16 DEF Deliver, ClaimRefused, FindForExecution, Guard, ReadExistingStep,
       FirstBeat, HandlerReturns, HandlerThrows, FinishErroredStep, CatchInResume, TimedBeat, Crash, Abort, Fails
  <2> QED BY <1>4, <2>1
<1> QED
  BY <1>6, <1>8, <1>9, <1>10, <1>11, <1>12, <1>13, <1>14, <1>15, <1>16
  DEF Next, Advance, FailRun, CancelRun

-----------------------------------------------------------------------------
(* The invariants that relate workers, steps and the checkpoint *)

\* Steps only take the statuses of the state machine.
LEMMA StepTyped ==
  ASSUME TypeOK, StepStep
  PROVE  step' \in [Node -> StepStatus]
BY DEF TypeOK, StepStep, Creates, Completes, Transitions, StepStatus

\* No step of any actor touches the status of a COMPLETED step.
LEMMA CompletedStays ==
  ASSUME TypeOK, StepStep, NEW n \in Node, step[n] = "COMPLETED"
  PROVE  step'[n] = "COMPLETED"
<1>1. StepTargets["COMPLETED"] = {} BY DEF StepTargets
<1> QED BY <1>1 DEF TypeOK, StepStep, Creates, Completes, Transitions

\* Only saveCheckpoint moves the checkpoint.
LEMMA CheckpointWritten ==
  ASSUME TypeOK, RowStep
  PROVE  \/ run'.checkpoint = run.checkpoint /\ run'.cpVersion = run.cpVersion
         \/ \E w \in Worker : /\ SavedBy(w)
                              /\ run'.checkpoint = worker[w].node + 1
                              /\ run'.cpVersion = run.cpVersion + 1
<1>1. run \in RunRow BY DEF TypeOK
<1>2. ASSUME NEW w \in Worker, SavedBy(w)
      PROVE  run'.checkpoint = worker[w].node + 1 /\ run'.cpVersion = run.cpVersion + 1
  BY <1>1, <1>2 DEF SavedBy, Saved, RunRow
<1>3. ASSUME NEW end \in {"FAILED", "CANCELLED"}, Ended(end)
      PROVE  run'.checkpoint = run.checkpoint /\ run'.cpVersion = run.cpVersion
  BY <1>3, EndedWrites
<1>4. CASE Completed
  <2>1. /\ [run EXCEPT !.nextSeq = @ + 1] \in RunRow
        /\ [run EXCEPT !.nextSeq = @ + 1].checkpoint = run.checkpoint
        /\ [run EXCEPT !.nextSeq = @ + 1].cpVersion = run.cpVersion
    <3>1. run.nextSeq + 1 \in Nat \ {0} BY <1>1 DEF RunRow
    <3> QED BY <1>1, <3>1 DEF RunRow
  <2> QED BY <1>4, <2>1, EndingWrites DEF Completed
<1>5. CASE Untouched \/ CancelAsked
  BY <1>1, <1>5 DEF Untouched, CancelAsked, RunRow
<1>6. ASSUME NEW w \in Worker, Started(w) \/ TakenOver(w)
      PROVE  run'.checkpoint = run.checkpoint /\ run'.cpVersion = run.cpVersion
  <2>1. CASE Started(w) BY <1>1, <2>1 DEF Started, RunRow
  <2>2. CASE TakenOver(w) BY <1>1, <2>2 DEF TakenOver, RunRow
  <2> QED BY <1>6, <2>1, <2>2
<1>7. ASSUME NEW type, Appended(type)
      PROVE  run'.checkpoint = run.checkpoint /\ run'.cpVersion = run.cpVersion
  BY <1>1, <1>7 DEF Appended, RunRow
<1> QED BY <1>2, <1>3, <1>4, <1>5, <1>6, <1>7 DEF RowStep

\* The last step is not COMPLETED while a lease holder is at work on it.
LEMMA SaveIsNotLast ==
  ASSUME TypeOK, CompletionIsTotal, CheckpointTrailsSteps, HolderIsCurrent, WorkerOnNode,
         NEW w \in Worker, HoldsLease(w), At(w, "save")
  PROVE  /\ worker[w].node = run.checkpoint
         /\ worker[w].node \in Node
         /\ worker[w].node + 1 \in Node
         /\ step[worker[w].node] = "COMPLETED"
<1>1. /\ worker[w].node = run.checkpoint /\ worker[w].node \in Node
      /\ step[worker[w].node] = "COMPLETED"
  BY DEF HolderIsCurrent, WorkerOnNode, At, InExecute
<1>2. run.status # "COMPLETED" BY DEF HoldsLease, Leased
<1>3. worker[w].node # LastNode
  <2>1. SUFFICES ASSUME worker[w].node = LastNode PROVE FALSE OBVIOUS
  <2>2. \A n \in Node : n = LastNode \/ n < LastNode BY AgentRunAssumption DEF Node, LastNode
  <2>3. \A n \in Node : step[n] = "COMPLETED"
    BY <1>1, <2>1, <2>2 DEF CheckpointTrailsSteps
  <2> QED BY <1>2, <2>3 DEF CompletionIsTotal
<1>4. worker[w].node + 1 \in Node
  BY <1>1, <1>3, AgentRunAssumption DEF Node, LastNode
<1> QED BY <1>1, <1>4

\* Checkpoint and steps move together, one node at a time.
LEMMA TrailPreserved ==
  ASSUME TypeOK, CompletionIsTotal, CheckpointTrailsSteps, HolderIsCurrent, WorkerOnNode,
         RowStep, StepStep
  PROVE  CheckpointTrailsSteps'
<1>1. step \in [Node -> StepStatus] BY DEF TypeOK
<1>2. CASE run'.checkpoint = run.checkpoint
  <2>1. CASE UNCHANGED step
    BY <1>2, <2>1 DEF CheckpointTrailsSteps
  <2>2. ASSUME NEW w \in Worker, HoldsLease(w), worker[w].pc \in InExecute,
               NEW s, step' = [step EXCEPT ![worker[w].node] = s]
        PROVE  CheckpointTrailsSteps'
    <3>1. worker[w].node = run.checkpoint BY <2>2 DEF HolderIsCurrent
    <3>2. \A n \in Node : n # run.checkpoint => step'[n] = step[n] BY <1>1, <2>2, <3>1
    <3>3. \A n \in Node : n < run.checkpoint \/ n > run.checkpoint => n # run.checkpoint
      BY AgentRunAssumption DEF Node, CheckpointTrailsSteps
    <3> QED BY <1>2, <3>2, <3>3 DEF CheckpointTrailsSteps
  <2>3. ASSUME NEW w \in Worker, Creates(w) \/ Completes(w) PROVE CheckpointTrailsSteps'
    BY <2>2, <2>3 DEF Creates, Completes, At, InExecute
  <2>4. ASSUME NEW w \in Worker, NEW target, Transitions(w, target) PROVE CheckpointTrailsSteps'
    BY <2>2, <2>4 DEF Transitions, InExecute
  <2> QED BY <2>1, <2>3, <2>4 DEF StepStep
<1>3. ASSUME NEW w \in Worker, SavedBy(w), run'.checkpoint = worker[w].node + 1
      PROVE  CheckpointTrailsSteps'
  <2>1. /\ worker[w].node = run.checkpoint /\ worker[w].node + 1 \in Node
        /\ step[worker[w].node] = "COMPLETED"
    BY <1>3, SaveIsNotLast DEF SavedBy
  <2>2. step' = step BY <1>3 DEF SavedBy
  <2>3. run.checkpoint \in Int /\ \A n \in Node : n \in Int
    BY DEF CheckpointTrailsSteps, Node
  <2>4. \A n \in Node : n < run'.checkpoint => n < run.checkpoint \/ n = run.checkpoint
    BY <1>3, <2>1, <2>3
  <2>5. \A n \in Node : n > run'.checkpoint => n > run.checkpoint
    BY <1>3, <2>1, <2>3
  <2> QED BY <1>3, <2>1, <2>2, <2>4, <2>5 DEF CheckpointTrailsSteps
<1> QED BY <1>2, <1>3, CheckpointWritten

\* A finished run's row is never written again.
LEMMA TerminalFrozen ==
  ASSUME RowStep, run.status \in Terminal
  PROVE  run' = run
<1>1. \A end : end \notin RunTargets[run.status]
  BY DEF Terminal, RunTargets
<1> QED BY <1>1 DEF RowStep, Untouched, Started, TakenOver, Appended, SavedBy, Saved, CancelAsked,
   Completed, Ended, EndRun, Leased, Terminal

\* The last step completes with the run, the others before it.
LEMMA CompletionPreserved ==
  ASSUME TypeOK, CompletionIsTotal, CheckpointTrailsSteps, HolderIsCurrent, WorkerOnNode,
         RowStep, StepStep
  PROVE  CompletionIsTotal'
<1>1. step \in [Node -> StepStatus] /\ run \in RunRow BY DEF TypeOK
<1>2. LastNode \in Node /\ \A n \in Node : n = LastNode \/ n < LastNode
  BY AgentRunAssumption DEF Node, LastNode
<1>3. CASE UNCHANGED <<step, run>>
  BY <1>3 DEF CompletionIsTotal
<1>4. CASE UNCHANGED step /\ run'.status # "COMPLETED"
  <2>1. run.status # "COMPLETED" BY <1>4, TerminalFrozen DEF Terminal
  <2> QED BY <1>4, <2>1 DEF CompletionIsTotal
<1>5. ASSUME NEW w \in Worker, Creates(w) PROVE CompletionIsTotal'
  <2>1. worker[w].node \in Node BY <1>5 DEF Creates, WorkerOnNode, At, InExecute
  <2>2. run'.status # "COMPLETED" BY <1>5 DEF Creates, HoldsLease, Leased
  <2>3. step'[worker[w].node] = "PENDING" BY <1>1, <1>5, <2>1 DEF Creates
  <2> QED BY <2>1, <2>2, <2>3 DEF CompletionIsTotal
<1>6. ASSUME NEW w \in Worker, NEW target, Transitions(w, target) PROVE CompletionIsTotal'
  <2>1. worker[w].node \in Node BY <1>6 DEF Transitions, WorkerOnNode, InExecute
  <2>2. run'.status # "COMPLETED"
    BY <1>1, <1>6 DEF Transitions, HoldsLease, Leased, RunRow
  <2>3. CASE target # "COMPLETED"
    <3>1. step'[worker[w].node] = target BY <1>1, <1>6, <2>1 DEF Transitions
    <3> QED BY <2>1, <2>2, <2>3, <3>1 DEF CompletionIsTotal
  <2>4. CASE target = "COMPLETED"
    <3>1. worker[w].node = run.checkpoint /\ worker[w].node # LastNode
      BY <1>6, <2>4 DEF Transitions, HolderIsCurrent, WorkerOnNode, InExecute
    <3>2. LastNode > run.checkpoint
      BY <1>2, <2>1, <3>1, AgentRunAssumption DEF Node, LastNode
    <3>3. step[LastNode] = "NONE" BY <1>2, <3>2 DEF CheckpointTrailsSteps
    <3>4. step'[LastNode] = "NONE" BY <1>1, <1>2, <1>6, <3>1, <3>3 DEF Transitions
    <3> QED BY <1>2, <2>2, <3>4 DEF CompletionIsTotal
  <2> QED BY <2>3, <2>4
<1>7. ASSUME NEW w \in Worker, Completes(w) PROVE CompletionIsTotal'
  <2>1. worker[w].node = LastNode /\ run.checkpoint = LastNode
    BY <1>7 DEF Completes, HolderIsCurrent, WorkerOnNode, At, InExecute
  <2>2. \A n \in Node : step'[n] = "COMPLETED"
    BY <1>1, <1>2, <1>7, <2>1 DEF Completes, CheckpointTrailsSteps
  <2>3. run'.status = "COMPLETED"
    <3>1. [run EXCEPT !.nextSeq = @ + 1] \in RunRow
      <4>1. run.nextSeq + 1 \in Nat \ {0} BY <1>1 DEF RunRow
      <4> QED BY <1>1, <4>1 DEF RunRow
    <3> QED BY <1>7, <3>1, EndingWrites DEF Completes, Completed
  <2> QED BY <2>2, <2>3 DEF CompletionIsTotal
<1> QED BY <1>3, <1>4, <1>5, <1>6, <1>7 DEF StepStep

\* A worker stays within the workflow and saves completed steps only.
LEMMA OnNodePreserved ==
  ASSUME TypeOK, CompletionIsTotal, CheckpointTrailsSteps, HolderIsCurrent, WorkerOnNode,
         StepStep, UNCHANGED worker \/ \E w \in Worker : Moves(w)
  PROVE  WorkerOnNode'
<1> DEFINE OnNode(v) == /\ worker[v].pc \in InExecute => worker[v].node \in Node
                        /\ At(v, "finish") => worker[v].node # LastNode
                        /\ At(v, "complete") => worker[v].node = LastNode
                        /\ At(v, "save") => step[worker[v].node] = "COMPLETED"
<1>1. ASSUME NEW v \in Worker, worker'[v] = worker[v] PROVE OnNode(v)'
  <2>1. At(v, "save") => worker[v].node \in Node BY DEF WorkerOnNode, At, InExecute
  <2> QED BY <1>1, <2>1, CompletedStays DEF WorkerOnNode, At
<1>2. ASSUME NEW v \in Worker, Moves(v) PROVE OnNode(v)'
  <2>1. CASE Leaves(v)
    BY <2>1 DEF Leaves, At, InExecute
  <2>2. CASE Stays(v)
    <3>1. At(v, "save") => worker[v].node \in Node BY DEF WorkerOnNode, At, InExecute
    <3> QED BY <2>2, <3>1, CompletedStays DEF Stays, WorkerOnNode, At
  <2>3. CASE Finds(v)
    BY <2>3 DEF Finds, CheckpointTrailsSteps, At
  <2>4. CASE Heads(v)
    BY <2>4 DEF Heads, WorkerOnNode, At, InExecute
  <2>5. CASE Restores(v)
    BY <2>5 DEF Restores, WorkerOnNode, At, InExecute
  <2>6. CASE Finishes(v)
    <3>1. worker[v].node \in Node BY <2>6 DEF Finishes, WorkerOnNode, At, InExecute
    <3> QED BY <2>6, <3>1 DEF Finishes, TypeOK, At
  <2>7. CASE Saves(v)
    <3>1. worker[v].node + 1 \in Node BY <2>7, SaveIsNotLast DEF Saves, At
    <3> QED BY <2>7, <3>1 DEF Saves, At
  <2> QED BY <1>2, <2>1, <2>2, <2>3, <2>4, <2>5, <2>6, <2>7 DEF Moves
<1>3. \A v \in Worker : OnNode(v)'
  BY <1>1, <1>2 DEF Moves
<1> QED BY <1>3 DEF WorkerOnNode

\* The lease keeps its holder's snapshot current: only the holder moves the checkpoint.
LEMMA HolderPreserved ==
  ASSUME TypeOK, WorkerOnNode, RowSatisfiesChecks, HolderIsCurrent, RowStep, LeaseStep,
         UNCHANGED worker \/ \E w \in Worker : Moves(w)
  PROVE  HolderIsCurrent'
<1> SUFFICES ASSUME NEW v \in Worker, HoldsLease(v)', worker'[v].pc \in InExecute
             PROVE  worker'[v].node = run'.checkpoint /\ worker'[v].cpVersion = run'.cpVersion
  BY DEF HolderIsCurrent
<1>1. HoldsLease(v)
  BY AgentRunAssumption DEF HoldsLease, LeaseStep, RowSatisfiesChecks
<1>2. ASSUME NEW w \in Worker, SavedBy(w) PROVE w = v
  BY <1>1, <1>2 DEF SavedBy, HoldsLease
<1>3. CASE \E w \in Worker : SavedBy(w)
  <2>1. SavedBy(v) BY <1>2, <1>3
  <2>2. Saves(v) BY <2>1, SavedMoves DEF Leaves
  <2>3. worker[v].node = run.checkpoint /\ worker[v].cpVersion = run.cpVersion
    BY <1>1, <2>1 DEF HolderIsCurrent, SavedBy, At, InExecute
  <2>4. run'.checkpoint = worker[v].node + 1 /\ run'.cpVersion = run.cpVersion + 1
    BY <2>1 DEF SavedBy, Saved, TypeOK, RunRow
  <2> QED BY <2>2, <2>3, <2>4 DEF Saves
<1>4. CASE run'.checkpoint = run.checkpoint /\ run'.cpVersion = run.cpVersion
  <2>1. CASE worker'[v] = worker[v]
    BY <1>1, <1>4, <2>1 DEF HolderIsCurrent
  <2>2. CASE Moves(v)
    <3>1. CASE Stays(v)
      BY <1>1, <1>4, <3>1 DEF Stays, HolderIsCurrent
    <3>2. CASE Finds(v)
      BY <3>2 DEF Finds
    <3>3. CASE Heads(v) \/ Restores(v) \/ Finishes(v)
      BY <1>1, <1>4, <3>3 DEF Heads, Restores, Finishes, HolderIsCurrent, InExecute
    <3>4. CASE Saves(v)
      <4>1. run'.cpVersion = run.cpVersion + 1 BY <3>4 DEF Saves, Saved, TypeOK, RunRow
      <4>2. run.cpVersion \in Nat BY DEF TypeOK, RunRow
      <4> QED BY <1>4, <4>1, <4>2
    <3> QED BY <2>2, <3>1, <3>2, <3>3, <3>4 DEF Moves, Leaves
  <2> QED BY <2>1, <2>2 DEF Moves
<1> QED BY <1>3, <1>4, CheckpointWritten

\* The two clock predicates stay Booleans.
LEMMA ClocksTyped ==
  ASSUME TypeOK, [Next]_vars
  PROVE  leaseLive' \in BOOLEAN /\ overdue' \in BOOLEAN
<1>1. leaseLive' \in {leaseLive, TRUE, FALSE} /\ overdue' \in {overdue, TRUE}
  <2>1. ASSUME NEW w \in Worker, ClaimRun(w) PROVE leaseLive' \in {leaseLive, TRUE} /\ overdue' = overdue
    BY <2>1 DEF ClaimRun
  <2>2. ASSUME NEW w \in Worker, CompleteRun(w) PROVE leaseLive' \in {leaseLive, FALSE} /\ overdue' = overdue
    BY <2>2 DEF CompleteRun, EndRun, Fails
  <2>3. ASSUME NEW w \in Worker, NEW end, TransitionRun(w, end)
        PROVE  leaseLive' \in {leaseLive, FALSE} /\ overdue' = overdue
    BY <2>3 DEF TransitionRun, EndRun, Fails
  <2>4. CASE RequestCancel \/ ExpireOverdueRun \/ DeadlinePasses \/ LeaseExpires \/ UNCHANGED vars
    BY <2>4 DEF RequestCancel, ExpireOverdueRun, DeadlinePasses, LeaseExpires, EndRun, vars
  <2>5. ASSUME NEW w \in Worker, NEW target, NEW next, TransitionStep(w, target, next)
        PROVE  UNCHANGED <<leaseLive, overdue>>
    BY <2>5 DEF TransitionStep, Fails
  <2>6. ASSUME NEW w \in Worker,
               \/ Deliver(w) \/ ClaimRefused(w) \/ FindForExecution(w) \/ Guard(w) \/ CreateStep(w)
               \/ ReadExistingStep(w) \/ FirstBeat(w) \/ HandlerReturns(w) \/ HandlerThrows(w)
               \/ FinishErroredStep(w) \/ CatchInResume(w) \/ TimedBeat(w) \/ Crash(w) \/ Abort(w)
               \/ SaveCheckpoint(w) \/ HandlerEvent(w)
        PROVE  UNCHANGED <<leaseLive, overdue>>
    BY <2>6 DEF Deliver, ClaimRefused, FindForExecution, Guard, CreateStep, ReadExistingStep,
       FirstBeat, HandlerReturns, HandlerThrows, FinishErroredStep, CatchInResume, TimedBeat, Crash,
       Abort, SaveCheckpoint, HandlerEvent, Fails
  <2> QED BY <2>1, <2>2, <2>3, <2>4, <2>5, <2>6
      DEF Next, Advance, StartStep, FinishStep, FailStep, CancelStep, FailRun, CancelRun
<1> QED BY <1>1 DEF TypeOK

-----------------------------------------------------------------------------
(* The inductive invariant *)

IInv ==
  /\ TypeOK
  /\ RowSatisfiesChecks
  /\ EventLogGapless
  /\ TerminalEventClosesLog
  /\ OutcomeAgrees
  /\ CheckpointTrailsSteps
  /\ CompletionIsTotal
  /\ HolderIsCurrent
  /\ WorkerOnNode

\* createRun establishes the invariant ...
LEMMA InitIInv ==
  ASSUME Init
  PROVE  IInv
<1> USE AgentRunAssumption DEF Init
<1>1. TypeOK
  <2>1. run \in RunRow
    BY DEF RunRow, RunStatus
  <2>2. worker \in [Worker -> Local]
    BY DEF Local, Pc, ErrorKind
  <2>3. step \in [Node -> StepStatus] BY DEF StepStatus
  <2>4. events \subseteq [seq : Nat, type : EventType] BY DEF EventType
  <2> QED BY <2>1, <2>2, <2>3, <2>4 DEF TypeOK
<1>2. RowSatisfiesChecks BY DEF RowSatisfiesChecks, Leased
<1>3. EventLogGapless BY DEF EventLogGapless
<1>4. TerminalEventClosesLog BY DEF TerminalEventClosesLog, Terminal, TerminalEvent
<1>5. OutcomeAgrees BY DEF OutcomeAgrees, Terminal
<1>6. CheckpointTrailsSteps BY DEF CheckpointTrailsSteps, Node
<1>7. CompletionIsTotal
  <2>1. 0 \in Node BY DEF Node
  <2> QED BY <2>1 DEF CompletionIsTotal
<1>8. HolderIsCurrent BY DEF HolderIsCurrent, InExecute
<1>9. WorkerOnNode BY DEF WorkerOnNode, InExecute, At
<1> QED BY <1>1, <1>2, <1>3, <1>4, <1>5, <1>6, <1>7, <1>8, <1>9 DEF IInv

\* ... and every step preserves it.
LEMMA NextIInv ==
  ASSUME IInv, [Next]_vars
  PROVE  IInv'
<1> USE DEF IInv
<1>1. RowStep BY EveryRowStep
<1>2. StepStep BY EveryStepStep
<1>3. LeaseStep BY EveryLeaseStep
<1>4. UNCHANGED worker \/ \E w \in Worker : Moves(w) BY EveryMove
<1>5. TypeOK'
  <2>1. worker' \in [Worker -> Local] BY <1>4 DEF Moves, TypeOK
  <2> QED BY <1>1, <1>2, <2>1, RowTyped, StepTyped, ClocksTyped DEF TypeOK
<1>6. RowSatisfiesChecks' BY <1>1, <1>5, ChecksPreserved DEF TypeOK
<1>7. EventLogGapless' BY <1>1, LogPreserved
<1>8. TerminalEventClosesLog' BY <1>1, ClosingPreserved
<1>9. OutcomeAgrees' BY <1>1, OutcomePreserved
<1>10. CheckpointTrailsSteps' BY <1>1, <1>2, TrailPreserved
<1>11. CompletionIsTotal' BY <1>1, <1>2, CompletionPreserved
<1>12. HolderIsCurrent' BY <1>1, <1>3, <1>4, HolderPreserved
<1>13. WorkerOnNode' BY <1>2, <1>4, OnNodePreserved
<1> QED BY <1>5, <1>6, <1>7, <1>8, <1>9, <1>10, <1>11, <1>12, <1>13

\* Every reachable state satisfies the inductive invariant.
THEOREM InductiveInvariant == Spec => []IInv
BY InitIInv, NextIInv, PTL DEF Spec

\* Every reachable state is well typed: attempts never exceed their maximum, checkpoints
\* stay within the workflow, only known statuses are written.
THEOREM TypeCorrect == Spec => []TypeOK
BY InductiveInvariant, PTL DEF IInv

\* No write of agent-run.repository.ts violates a CHECK of ai_agent_runs.
THEOREM ChecksHold == Spec => []RowSatisfiesChecks
BY InductiveInvariant, PTL DEF IInv

\* A client can replay the events of a run by number, without a hole or a duplicate.
THEOREM LogIsGapless == Spec => []EventLogGapless
BY InductiveInvariant, PTL DEF IInv

\* The terminal event is last, single and true.
THEOREM LogIsClosed == Spec => []TerminalEventClosesLog
BY InductiveInvariant, PTL DEF IInv

\* Message and notification intents agree with the run's outcome.
THEOREM OutcomeIsOne == Spec => []OutcomeAgrees
BY InductiveInvariant, PTL DEF IInv

\* A restart repeats or restores at most one node and skips none.
THEOREM RestartIsSafe == Spec => []CheckpointTrailsSteps
BY InductiveInvariant, PTL DEF IInv

\* COMPLETED means every step of the workflow is.
THEOREM NothingIsSkipped == Spec => []CompletionIsTotal
BY InductiveInvariant, PTL DEF IInv

\* The lease fences: its holder's view of the checkpoint is the stored one.
THEOREM LeaseFences == Spec => []HolderIsCurrent
BY InductiveInvariant, PTL DEF IInv

\* A worker is on a node of the workflow and saves what is completed.
THEOREM WorkersOnNodes == Spec => []WorkerOnNode
BY InductiveInvariant, PTL DEF IInv

-----------------------------------------------------------------------------
(* Action properties *)

\* What the transition trigger asks of a write.
LEMMA TriggerStep ==
  ASSUME TypeOK, RowStep, run' # run
  PROVE  /\ run.status \notin Terminal
         /\ run'.version \in {run.version, run.version + 1}
         /\ run'.status # run.status =>
              run'.version = run.version + 1 /\ run'.status \in RunTargets[run.status]
         /\ run'.status = run.status /\ run'.version = run.version + 1 =>
              run'.attempt = run.attempt + 1 /\ run'.owner # run.owner
<1> DEFINE Goal == /\ run'.version \in {run.version, run.version + 1}
                   /\ run'.status # run.status =>
                        run'.version = run.version + 1 /\ run'.status \in RunTargets[run.status]
                   /\ run'.status = run.status /\ run'.version = run.version + 1 =>
                        run'.attempt = run.attempt + 1 /\ run'.owner # run.owner
<1>1. run \in RunRow /\ run.version \in Nat BY DEF TypeOK, RunRow
<1>2. run.status \notin Terminal BY TerminalFrozen
<1>3. CASE Untouched
  BY <1>3 DEF Untouched
<1>4. ASSUME NEW w \in Worker, Started(w) PROVE Goal
  <2>1. run'.status = "RUNNING" /\ run'.version = run.version + 1 BY <1>1, <1>4 DEF Started, RunRow
  <2> QED BY <1>4, <2>1 DEF Started, RunTargets
<1>5. ASSUME NEW w \in Worker, TakenOver(w) PROVE Goal
  <2>1. /\ run'.status = run.status /\ run'.version = run.version + 1
        /\ run'.attempt = run.attempt + 1 /\ run'.owner = w
    BY <1>1, <1>5 DEF TakenOver, RunRow
  <2> QED BY <1>5, <2>1 DEF TakenOver
<1>6. ASSUME NEW type, Appended(type) PROVE Goal
  <2>1. run'.status = run.status /\ run'.version = run.version BY <1>1, <1>6 DEF Appended, RunRow
  <2> QED BY <1>1, <2>1
<1>7. ASSUME NEW n, Saved(n) PROVE Goal
  <2>1. run'.status = run.status /\ run'.version = run.version BY <1>1, <1>7 DEF Saved, RunRow
  <2> QED BY <1>1, <2>1
<1>8. CASE CancelAsked
  <2>1. run'.status = "CANCEL_REQUESTED" /\ run'.version = run.version + 1
    BY <1>1, <1>8 DEF CancelAsked, RunRow
  <2> QED BY <1>2, <1>8, <2>1 DEF CancelAsked, RunTargets
<1>9. CASE Completed
  <2>1. /\ [run EXCEPT !.nextSeq = @ + 1] \in RunRow
        /\ [run EXCEPT !.nextSeq = @ + 1].version = run.version
    <3>1. run.nextSeq + 1 \in Nat \ {0} BY <1>1 DEF RunRow
    <3> QED BY <1>1, <3>1 DEF RunRow
  <2>2. run'.status = "COMPLETED" /\ run'.version = run.version + 1
        /\ "COMPLETED" \in RunTargets[run.status]
    BY <1>9, <2>1, EndingWrites DEF Completed
  <2> QED BY <1>2, <1>9, <2>2 DEF Completed
<1>10. ASSUME NEW end \in {"FAILED", "CANCELLED"}, Ended(end) PROVE Goal
  <2>1. run'.status = end /\ run'.version = run.version + 1 /\ end \in RunTargets[run.status]
    BY <1>10, EndedWrites
  <2>2. end # run.status BY <1>2 DEF Terminal
  <2> QED BY <2>1, <2>2
<1> QED
  BY <1>2, <1>3, <1>4, <1>5, <1>6, <1>7, <1>8, <1>9, <1>10 DEF RowStep, SavedBy

\* The database's transition trigger never rejects a write of the repository.
THEOREM TriggerNeverRejects == Spec => TriggerAccepts
<1>1. IInv /\ [Next]_vars => [TriggerAccepts!1]_run
  BY EveryRowStep, TriggerStep DEF IInv
<1> QED BY <1>1, InductiveInvariant, PTL DEF Spec, TriggerAccepts

\* After a cancel request neither the run nor a step completes.
LEMMA CancelStepWins ==
  ASSUME TypeOK, WorkerOnNode, RowStep, StepStep, run.status = "CANCEL_REQUESTED"
  PROVE  /\ run'.status \in {"CANCEL_REQUESTED", "CANCELLED"}
         /\ run'.checkpoint = run.checkpoint
         /\ \A n \in Node : step'[n] = "COMPLETED" => step[n] = "COMPLETED"
<1>1. run'.status \in {"CANCEL_REQUESTED", "CANCELLED"}
  <2>1. RunTargets["CANCEL_REQUESTED"] = {"CANCELLED"} BY DEF RunTargets
  <2> QED BY <2>1, TriggerStep
<1>2. run'.checkpoint = run.checkpoint
  BY CheckpointWritten DEF SavedBy, Saved
<1>3. ASSUME NEW n \in Node, step'[n] = "COMPLETED" PROVE step[n] = "COMPLETED"
  <2>1. step \in [Node -> StepStatus] BY DEF TypeOK
  <2>2. ASSUME NEW w \in Worker, NEW s, s # "COMPLETED", worker[w].node \in Node,
               step' = [step EXCEPT ![worker[w].node] = s]
        PROVE  step[n] = "COMPLETED"
    BY <1>3, <2>1, <2>2
  <2>3. ASSUME NEW w \in Worker, Creates(w) PROVE step[n] = "COMPLETED"
    BY <2>2, <2>3 DEF Creates, WorkerOnNode, At, InExecute
  <2>4. ASSUME NEW w \in Worker, NEW target, Transitions(w, target) PROVE step[n] = "COMPLETED"
    BY <2>2, <2>4 DEF Transitions, WorkerOnNode, InExecute
  <2>5. ASSUME NEW w \in Worker, Completes(w) PROVE FALSE
    BY <2>5 DEF Completes, Completed
  <2> QED BY <1>3, <2>3, <2>4, <2>5 DEF StepStep
<1> QED BY <1>1, <1>2, <1>3

\* A cancel request, once accepted, beats every later answer of a model or a tool.
THEOREM CancelAlwaysWins == Spec => CancelWins
<1>1. IInv /\ [Next]_vars => [CancelWins!1]_vars
  BY EveryRowStep, EveryStepStep, CancelStepWins DEF IInv
<1> QED BY <1>1, InductiveInvariant, PTL DEF Spec, CancelWins

\* No target is legal for a finished step.
LEMMA FinishedStays ==
  ASSUME TypeOK, StepStep, NEW n \in Node, step[n] \in TerminalStep
  PROVE  step'[n] = step[n]
<1>1. /\ StepTargets["COMPLETED"] = {} /\ StepTargets["FAILED"] = {} /\ StepTargets["CANCELLED"] = {}
  BY DEF StepTargets
<1>2. "NONE" \notin TerminalStep /\ StepTargets[step[n]] = {}
  BY <1>1 DEF TerminalStep
<1> QED BY <1>2 DEF TypeOK, StepStep, Creates, Completes, Transitions

\* No retry or takeover rewrites a finished step.
THEOREM FinishedStepsStay == Spec => FinishedStepsFrozen
<1>1. IInv /\ [Next]_vars => [FinishedStepsFrozen!1]_step
  BY EveryStepStep, FinishedStays DEF IInv
<1> QED BY <1>1, InductiveInvariant, PTL DEF Spec, FinishedStepsFrozen
=============================================================================
