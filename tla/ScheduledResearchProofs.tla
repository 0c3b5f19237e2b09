----------------------- MODULE ScheduledResearchProofs -----------------------
(***************************************************************************)
(* For any scanners, due times, edits, run outcomes and faults: types, the *)
(* user's quota, final decisions, and due times that move only when they   *)
(* have come.                                                              *)
(***************************************************************************)
EXTENDS ScheduledResearch, FiniteSetTheorems, TLAPS

Nows     == 0 .. Horizon
Versions == 0 .. MaxVersion
Todos    == SUBSET Execution
Seens    == SUBSET (Execution \X ExecutionStatus)

AtRow ==
  [pc : Pc, now : Nows, version : Versions, exec : Execution, todo : Todos, gone : BOOLEAN,
   seen : Seens]

TaskRow ==
  [status : {"ACTIVE", "PAUSED", "DELETED"}, version : 1 .. MaxVersion,
   nextRunAt : {NoTime} \cup DueTime, owner : Scanner \cup {NoRequester}, lapsed : BOOLEAN]

ExecutionRow == [status : ExecutionStatus, linked : BOOLEAN]

\* A scanner has the lease only of a task that is due: who claims sees it due, and an edit
\* takes the lease away.
OwnedIsDue == task.owner # NoRequester => Due(clock)

\* Who is about to insert its run holds the user's lock, and the count it read still holds.
CommitHoldsLock ==
  \A p \in Requester :
    at[p].pc = "commit" => userLock = p /\ Cardinality(ActiveRuns) < MaxActiveRunsPerUser

Settled == Linked \cup {"FAILED"}

\* An execution with a run is past its decision, and a status about to be written belongs
\* to an execution with a run.
LinkedIsSettled ==
  /\ \A e \in Execution : execution[e].linked => execution[e].status \in Settled
  /\ \A p \in Requester : \A x \in at[p].seen : execution[x[1]].linked /\ x[2] \in Settled

IInv == TypeOK /\ OwnedIsDue /\ CommitHoldsLock /\ QuotaHolds /\ LinkedIsSettled

LEMMA BoundsHold ==
  /\ Scanner \subseteq Requester /\ Api \in Requester
  /\ NoRequester \notin Requester
  /\ Horizon \in Nat \ {0} /\ MaxVersion \in Nat \ {0} /\ FaultBudget \in Nat
  /\ RunEnds \subseteq Outcome
  /\ Execution = 1 .. Horizon + 1 /\ Request = Execution /\ IsFiniteSet(Request)
  /\ MaxActiveRunsPerUser \in Nat
BY ScheduledResearchAssumption, AgentIntakeAssumption DEF Execution

LEMMA TypeParts ==
  TypeOK <=> /\ IntakeTypeOK
             /\ clock \in 0 .. Horizon
             /\ task \in TaskRow
             /\ execution \in [Execution -> ExecutionRow]
             /\ at \in [Requester -> AtRow]
             /\ budget \in 0 .. FaultBudget
BY DEF TypeOK, TaskRow, ExecutionRow, AtRow, Nows, Versions, Todos, Seens

LEMMA TypePartsNext ==
  TypeOK' <=> /\ IntakeTypeOK'
              /\ clock' \in 0 .. Horizon
              /\ task' \in TaskRow
              /\ execution' \in [Execution -> ExecutionRow]
              /\ at' \in [Requester -> AtRow]
              /\ budget' \in 0 .. FaultBudget
BY DEF TypeOK, TaskRow, ExecutionRow, AtRow, Nows, Versions, Todos, Seens

LEMMA ActiveRunsAreFinite ==
  IsFiniteSet(ActiveRuns) /\ Cardinality(ActiveRuns) \in Nat
<1>1. IsFiniteSet(ActiveRuns)
  BY BoundsHold, FS_Subset DEF ActiveRuns
<1> QED BY <1>1, FS_CardinalityType

LEMMA IdleIsARow == Idle \in AtRow
<1>1. 0 \in Nows /\ 0 \in Versions /\ 1 \in Execution
  BY BoundsHold DEF Nows, Versions
<1>2. {} \in Todos /\ {} \in Seens /\ "idle" \in Pc
  BY DEF Todos, Seens, Pc
<1> QED BY <1>1, <1>2 DEF Idle, AtRow

LEMMA InitHolds == Init => IInv
<1> SUFFICES ASSUME Init PROVE IInv
  OBVIOUS
<1> USE BoundsHold
<1>1. \A p \in Requester : at[p] \in AtRow /\ at[p].pc \in {"idle", "off"} /\ at[p].seen = {}
  <2>1. PICK on \in Deployment :
          at = [p \in Requester |-> IF p \in on THEN Idle ELSE [Idle EXCEPT !.pc = "off"]]
    BY DEF Init
  <2>2. Idle \in AtRow /\ [Idle EXCEPT !.pc = "off"] \in AtRow
    BY IdleIsARow DEF AtRow, Pc
  <2> QED BY <2>1, <2>2 DEF Idle
<1>2. at \in [Requester -> AtRow]
  BY <1>1 DEF Init
<1>3. TypeOK
  <2>1. IntakeTypeOK
    BY DEF Init, IntakeInit, IntakeTypeOK, RunState
  <2>2. task \in TaskRow /\ execution \in [Execution -> ExecutionRow]
    BY DEF Init, TaskRow, ExecutionRow, DueTime, NoTime, ExecutionStatus
  <2>3. clock \in 0 .. Horizon /\ budget \in 0 .. FaultBudget
    BY DEF Init
  <2> QED BY <1>2, <2>1, <2>2, <2>3, TypeParts
<1>4. OwnedIsDue /\ CommitHoldsLock
  BY <1>1 DEF Init, OwnedIsDue, CommitHoldsLock
<1>5. QuotaHolds
  <2>1. ActiveRuns = {}
    BY DEF Init, IntakeInit, ActiveRuns, Active
  <2> QED BY <2>1, FS_EmptySet DEF QuotaHolds
<1>6. LinkedIsSettled
  BY <1>1 DEF Init, LinkedIsSettled
<1> QED BY <1>3, <1>4, <1>5, <1>6 DEF IInv
-----------------------------------------------------------------------------
(* What a requester's step does to its own place *)

Alone(p) == at' \in [Requester -> AtRow] /\ \A q \in Requester \ {p} : at'[q] = at[q]

LEMMA PlaceMoves ==
  ASSUME at \in [Requester -> AtRow], NEW p \in Requester
  PROVE  /\ \A pc \in Pc : Goto(p, pc) => Alone(p) /\ at'[p].pc = pc /\ at'[p].seen = at[p].seen
         /\ Abort(p) => Alone(p) /\ at'[p].pc = "idle" /\ at'[p].seen = {}
         /\ Done(p) => Alone(p) /\ at'[p].pc \in {"idle", "next", "finish"} /\ at'[p].seen = at[p].seen
<1>1. ASSUME NEW pc \in Pc, Goto(p, pc)
      PROVE  Alone(p) /\ at'[p].pc = pc /\ at'[p].seen = at[p].seen
  <2>1. at' = [at EXCEPT ![p] = [at[p] EXCEPT !.pc = pc]]
    BY <1>1 DEF Goto
  <2>2. [at[p] EXCEPT !.pc = pc] \in AtRow
    BY DEF AtRow
  <2> QED BY <2>1, <2>2 DEF Alone, AtRow
<1>2. ASSUME Abort(p) PROVE Alone(p) /\ at'[p].pc = "idle" /\ at'[p].seen = {}
  BY <1>2, IdleIsARow DEF Abort, Alone, Idle
<1>3. ASSUME Done(p)
      PROVE  Alone(p) /\ at'[p].pc \in {"idle", "next", "finish"} /\ at'[p].seen = at[p].seen
  <2> DEFINE pc == AfterExecution(p)
  <2>1. pc \in {"idle", "next", "finish"}
    BY DEF AfterExecution
  <2>2. pc \in Pc /\ 1 \in Execution
    BY <2>1, BoundsHold DEF Pc
  <2>3. at' = [at EXCEPT ![p] = [at[p] EXCEPT !.pc = pc, !.exec = 1]]
    BY <1>3 DEF Done
  <2> HIDE DEF pc
  <2>4. [at[p] EXCEPT !.pc = pc, !.exec = 1] \in AtRow
    BY <2>2 DEF AtRow
  <2> QED BY <2>1, <2>3, <2>4 DEF Alone, AtRow
<1> QED BY <1>1, <1>2, <1>3

StatusesRead(p) ==
  {<<e, StatusFromRun(runs[e])>> : e \in
     {f \in Execution : /\ execution[f].linked
                        /\ execution[f].status \in {"QUEUED", "RUNNING"}
                        /\ execution[f].status # StatusFromRun(runs[f])}}

SeenGrows(p) ==
  \A x \in at'[p].seen : x \in at[p].seen \/ (execution[x[1]].linked /\ x[2] \in Settled)

LEMMA StatusFromRunSettles ==
  ASSUME NEW s PROVE StatusFromRun(s) \in Settled /\ StatusFromRun(s) \in ExecutionStatus
BY DEF StatusFromRun, Settled, Linked, ExecutionStatus

RequesterStep(p) ==
  \/ p \in Scanner /\ Tick(p)
  \/ p = Api /\ RunNow
  \/ Dispatch(p) \/ DatabaseError(p) \/ CommitUnheard(p) \/ Crash(p)

LEMMA TickPlace ==
  ASSUME IInv, NEW p \in Scanner, Tick(p)
  PROVE  Alone(p) /\ at'[p].pc # "commit" /\ SeenGrows(p)
<1>1. at \in [Requester -> AtRow] /\ p \in Requester /\ at[p] \in AtRow
  BY TypeParts, BoundsHold DEF IInv
<1>2. Goto(p, "deferred") => Alone(p) /\ at'[p].pc # "commit" /\ SeenGrows(p)
  <2> SUFFICES ASSUME Goto(p, "deferred") PROVE Alone(p) /\ at'[p].pc # "commit" /\ SeenGrows(p)
    OBVIOUS
  <2>1. "deferred" \in Pc
    BY DEF Pc
  <2> QED BY <1>1, <2>1, PlaceMoves DEF SeenGrows
<1>3. ASSUME NEW row \in AtRow, at' = [at EXCEPT ![p] = row], row.pc # "commit",
             \A x \in row.seen : x \in at[p].seen \/ (execution[x[1]].linked /\ x[2] \in Settled)
      PROVE  Alone(p) /\ at'[p].pc # "commit" /\ SeenGrows(p)
  <2>1. at'[p] = row /\ at' \in [Requester -> AtRow]
    BY <1>1, <1>3
  <2>2. \A q \in Requester \ {p} : at'[q] = at[q]
    BY <1>1, <1>3
  <2> QED BY <1>3, <2>1, <2>2 DEF Alone, SeenGrows
<1>4. clock \in Nows /\ task \in TaskRow
  BY TypeParts DEF IInv, Nows
<1>5. CASE ClaimDue(p)
  <2>1. ASSUME at' = [at EXCEPT ![p].pc = "load", ![p].now = clock]
        PROVE  Alone(p) /\ at'[p].pc # "commit" /\ SeenGrows(p)
    <3> DEFINE row == [at[p] EXCEPT !.pc = "load", !.now = clock]
    <3>1. at' = [at EXCEPT ![p] = row]
      BY <2>1
    <3>2. row \in AtRow /\ row.pc = "load" /\ row.seen = at[p].seen
      BY <1>1, <1>4 DEF AtRow, Pc
    <3> QED BY <1>3, <3>1, <3>2
  <2> QED BY <1>2, <1>5, <2>1 DEF ClaimDue
<1>6. CASE LoadTask(p)
  <2>1. ASSUME task.owner = p, task.nextRunAt # NoTime,
               at' = [at EXCEPT ![p].pc = "gate", ![p].version = task.version,
                                ![p].exec = task.nextRunAt]
        PROVE  Alone(p) /\ at'[p].pc # "commit" /\ SeenGrows(p)
    <3> DEFINE row == [at[p] EXCEPT !.pc = "gate", !.version = task.version, !.exec = task.nextRunAt]
    <3>1. at' = [at EXCEPT ![p] = row]
      BY <2>1
    <3>2. task.version \in Versions
      BY <1>4, BoundsHold DEF TaskRow, Versions
    <3>3. task.nextRunAt \in Execution
      <4>1. task.nextRunAt <= clock
        BY <1>1, <2>1, BoundsHold DEF IInv, OwnedIsDue, Due
      <4>2. task.nextRunAt \in 1 .. Horizon + 2 /\ clock \in 0 .. Horizon
        BY <1>4, <2>1 DEF TaskRow, DueTime, Nows
      <4> QED BY <4>1, <4>2, BoundsHold
    <3>4. row \in AtRow /\ row.pc = "gate" /\ row.seen = at[p].seen
      BY <1>1, <3>2, <3>3 DEF AtRow, Pc
    <3> QED BY <1>3, <3>1, <3>4
  <2> QED BY <1>2, <1>6, <2>1 DEF LoadTask
<1>7. CASE FinishClaim(p)
  <2> DEFINE row == [at[p] EXCEPT !.pc = "deferred", !.version = 0, !.now = 0]
  <2>1. at' = [at EXCEPT ![p] = row]
    BY <1>7 DEF FinishClaim
  <2>2. 0 \in Nows /\ 0 \in Versions
    BY BoundsHold DEF Nows, Versions
  <2>3. row \in AtRow /\ row.pc = "deferred" /\ row.seen = at[p].seen
    BY <1>1, <2>2 DEF AtRow, Pc
  <2> QED BY <1>3, <2>1, <2>3
<1>8. CASE FindDeferred(p)
  <2> DEFINE todo == {e \in Execution : execution[e].status = "DEFERRED"}
             row == [at[p] EXCEPT !.pc = "next", !.todo = todo, !.gone = (task.status = "DELETED")]
  <2>1. at' = [at EXCEPT ![p] = row]
    BY <1>8 DEF FindDeferred
  <2>2. todo \in Todos
    BY DEF Todos
  <2> HIDE DEF todo
  <2>3. row \in AtRow /\ row.pc = "next" /\ row.seen = at[p].seen
    BY <1>1, <2>2 DEF AtRow, Pc
  <2> QED BY <1>3, <2>1, <2>3
<1>9. CASE NextDeferred(p)
  <2>1. CASE at' = [at EXCEPT ![p] = [Idle EXCEPT !.pc = "refresh"]]
    <3>1. [Idle EXCEPT !.pc = "refresh"] \in AtRow
      BY IdleIsARow DEF AtRow, Pc
    <3> QED BY <1>3, <2>1, <3>1 DEF Idle
  <2>2. ASSUME NEW e \in at[p].todo, NEW gate \in Gate,
               at' = [at EXCEPT ![p].todo = @ \ {e}, ![p].exec = e,
                                ![p].pc = IF at[p].gone THEN "skip" ELSE AfterGate(p, gate, FALSE)]
        PROVE  Alone(p) /\ at'[p].pc # "commit" /\ SeenGrows(p)
    <3> DEFINE pc == IF at[p].gone THEN "skip" ELSE AfterGate(p, gate, FALSE)
               todo == at[p].todo \ {e}
               row == [at[p] EXCEPT !.todo = todo, !.exec = e, !.pc = pc]
    <3>1. at' = [at EXCEPT ![p] = row]
      BY <1>1, <2>2
    <3>2. pc \in {"skip", "defer", "send", "finish"}
      BY DEF AfterGate
    <3>3. todo \in Todos /\ e \in Execution /\ pc \in Pc
      BY <1>1, <2>2, <3>2 DEF AtRow, Todos, Pc
    <3> HIDE DEF todo, pc
    <3>4. row \in AtRow /\ row.pc = pc /\ row.seen = at[p].seen
      BY <1>1, <3>3 DEF AtRow
    <3> QED BY <1>3, <3>1, <3>2, <3>4
  <2> QED BY <1>9, <2>1, <2>2 DEF NextDeferred
<1>10. CASE FindUnfinished(p)
  <2> DEFINE seen == StatusesRead(p)
             row == [at[p] EXCEPT !.pc = "write", !.seen = seen]
  <2>1. at' = [at EXCEPT ![p] = row]
    BY <1>10 DEF FindUnfinished, StatusesRead
  <2>2. \A x \in seen : x \in Execution \X ExecutionStatus /\ execution[x[1]].linked /\ x[2] \in Settled
    BY StatusFromRunSettles DEF StatusesRead
  <2>3. seen \in Seens
    BY <2>2 DEF Seens
  <2> HIDE DEF seen
  <2>4. row \in AtRow /\ row.pc = "write" /\ row.seen = seen
    BY <1>1, <2>3 DEF AtRow, Pc
  <2> QED BY <1>3, <2>1, <2>2, <2>4
<1>11. CASE WriteStatus(p)
  <2>1. CASE Abort(p)
    BY <1>1, <2>1, PlaceMoves DEF SeenGrows
  <2>2. ASSUME NEW x, at' = [at EXCEPT ![p].seen = @ \ {x}], At(p, "write")
        PROVE  Alone(p) /\ at'[p].pc # "commit" /\ SeenGrows(p)
    <3> DEFINE seen == at[p].seen \ {x}
               row == [at[p] EXCEPT !.seen = seen]
    <3>1. at' = [at EXCEPT ![p] = row]
      BY <1>1, <2>2
    <3>2. seen \in Seens /\ seen \subseteq at[p].seen
      BY <1>1 DEF AtRow, Seens
    <3> HIDE DEF seen
    <3>3. row \in AtRow /\ row.pc = at[p].pc /\ row.seen = seen
      BY <1>1, <3>2 DEF AtRow
    <3> QED BY <1>3, <2>2, <3>1, <3>2, <3>3 DEF At
  <2> QED BY <1>11, <2>1, <2>2 DEF WriteStatus
<1> QED BY <1>5, <1>6, <1>7, <1>8, <1>9, <1>10, <1>11 DEF Tick

LEMMA OtherPlace ==
  ASSUME IInv, NEW p \in Requester,
         Dispatch(p) \/ DatabaseError(p) \/ CommitUnheard(p) \/ Crash(p) \/ (p = Api /\ RunNow)
  PROVE  Alone(p) /\ at'[p].seen \subseteq at[p].seen
<1> DEFINE G == Alone(p) /\ at'[p].seen \subseteq at[p].seen
<1>1. at \in [Requester -> AtRow] /\ at[p] \in AtRow
  BY TypeParts DEF IInv
<1>2. ASSUME NEW pc \in Pc, Goto(p, pc) PROVE G
  BY <1>1, <1>2, PlaceMoves
<1>3. Done(p) => G
  BY <1>1, PlaceMoves
<1>4. CASE GateAndCreate(p)
  <2>1. PICK gate, linked : Goto(p, AfterGate(p, gate, linked))
    BY <1>4 DEF GateAndCreate
  <2>2. AfterGate(p, gate, linked) \in Pc
    BY DEF AfterGate, AfterExecution, Pc
  <2> QED BY <1>2, <2>1, <2>2
<1>5. CASE DeferExecution(p) \/ SkipExecution(p) \/ QueueExecution(p) \/ FailExecution(p)
  BY <1>3, <1>5 DEF DeferExecution, SkipExecution, QueueExecution, FailExecution, DecideAndGoOn
<1>6. CASE Send(p) \/ SendCommit(p) \/ CommitUnheard(p)
  <2>1. \E pc \in {"queue", "fail", "commit"} : Goto(p, pc)
    BY <1>6 DEF Send, SendCommit, CommitUnheard
  <2> QED BY <1>2, <2>1 DEF Pc
<1>7. CASE DatabaseError(p)
  <2>1. ASSUME NEW e \in at[p].todo,
               at' = [at EXCEPT ![p].pc = "fail", ![p].todo = @ \ {e}, ![p].exec = e]
        PROVE  G
    <3> DEFINE todo == at[p].todo \ {e}
               row == [at[p] EXCEPT !.pc = "fail", !.todo = todo, !.exec = e]
    <3>1. at' = [at EXCEPT ![p] = row]
      BY <1>1, <2>1
    <3>2. todo \in Todos /\ e \in Execution
      BY <1>1, <2>1 DEF AtRow, Todos
    <3> HIDE DEF todo
    <3>3. row \in AtRow /\ row.seen = at[p].seen
      BY <1>1, <3>2 DEF AtRow, Pc
    <3> QED BY <1>1, <3>1, <3>3 DEF Alone
  <2>2. (\E pc \in {"fail", "finish"} : Goto(p, pc)) => G
    BY <1>2 DEF Pc
  <2> QED BY <1>7, <2>1, <2>2 DEF DatabaseError
<1>8. CASE Crash(p)
  BY <1>1, <1>8, PlaceMoves DEF Crash
<1>9. CASE p = Api /\ RunNow
  <2> DEFINE row == [at[p] EXCEPT !.pc = "gate", !.exec = Manual]
  <2>1. at' = [at EXCEPT ![p] = row]
    BY <1>9 DEF RunNow
  <2>2. Manual \in Execution
    BY BoundsHold DEF Manual
  <2>3. row \in AtRow /\ row.seen = at[p].seen
    BY <1>1, <2>2 DEF AtRow, Pc
  <2> QED BY <1>1, <2>1, <2>3 DEF Alone
<1> QED BY <1>4, <1>5, <1>6, <1>7, <1>8, <1>9 DEF Dispatch
-----------------------------------------------------------------------------
(* What it does to the runs, the executions and the task *)

IntakeEffect(p) ==
  \/ UNCHANGED intakeVars /\ at'[p].pc # "commit"
  \/ QuotaFree(p, at[p].exec)
  \/ at[p].pc = "commit" /\ CreateRun(p, at[p].exec) /\ at'[p].pc # "commit"
  \/ RollBack(p) /\ at'[p].pc # "commit"

Overwrites(p) ==
  \E x \in at[p].seen : execution' = [execution EXCEPT ![x[1]].status = x[2]]

CreatesPending ==
  \E e \in Execution :
    execution[e].status = "none" /\ execution' = [execution EXCEPT ![e].status = "PENDING"]

Decides ==
  \E e \in Execution, linked \in BOOLEAN, status \in {"DEFERRED", "SKIPPED", "QUEUED", "FAILED"} :
    (linked => status = "QUEUED") /\ Decide(e, status, linked)

TaskEffect(p) ==
  \/ task' = task
  \/ p \in Scanner /\ Due(clock) /\ task' = [task EXCEPT !.owner = p, !.lapsed = FALSE]
  \/ /\ p \in Scanner /\ task.owner = p
     /\ task' = [task EXCEPT !.nextRunAt = NextRun(task.nextRunAt, at[p].now),
                             !.owner = NoRequester, !.lapsed = FALSE]

LEMMA Spent ==
  ASSUME IInv, budget' = budget \/ SpendFault
  PROVE  budget' \in 0 .. FaultBudget
<1>1. budget \in 0 .. FaultBudget /\ FaultBudget \in Nat
  BY TypeParts, BoundsHold DEF IInv
<1>2. budget' = budget \/ (budget > 0 /\ budget' = budget - 1)
  BY DEF SpendFault
<1> QED BY ONLY <1>1, <1>2

LEMMA RequesterEffects ==
  ASSUME IInv, NEW p \in Requester, RequesterStep(p)
  PROVE  /\ Alone(p) /\ SeenGrows(p)
         /\ IntakeEffect(p)
         /\ execution' = execution \/ CreatesPending \/ Decides \/ Overwrites(p)
         /\ execution' # execution => at'[p].seen \subseteq at[p].seen
         /\ TaskEffect(p) /\ clock' = clock /\ budget' \in 0 .. FaultBudget
<1>1. at \in [Requester -> AtRow] /\ at[p] \in AtRow /\ budget \in 0 .. FaultBudget
  BY TypeParts DEF IInv
<1>2. Alone(p) /\ SeenGrows(p)
  BY TickPlace, OtherPlace DEF RequesterStep, SeenGrows
<1>3. at[p].exec \in Execution
  BY <1>1 DEF AtRow
<1>4. CASE p \in Scanner /\ Tick(p)
  <2>1. IntakeEffect(p)
    BY <1>4, TickPlace DEF Tick, ClaimDue, LoadTask, FinishClaim, FindDeferred, NextDeferred,
                           FindUnfinished, WriteStatus, IntakeEffect
  <2>2. execution' = execution \/ Overwrites(p)
    BY <1>4 DEF Tick, ClaimDue, LoadTask, FinishClaim, FindDeferred, NextDeferred,
                FindUnfinished, WriteStatus, Overwrites
  <2>3. execution' # execution => at'[p].seen \subseteq at[p].seen
    <3>1. execution' # execution => \E x : at' = [at EXCEPT ![p].seen = @ \ {x}]
      BY <1>4 DEF Tick, ClaimDue, LoadTask, FinishClaim, FindDeferred, NextDeferred,
                  FindUnfinished, WriteStatus
    <3> QED BY <1>1, <3>1 DEF AtRow
  <2>4. TaskEffect(p)
    BY <1>4 DEF Tick, ClaimDue, LoadTask, FinishClaim, FindDeferred, NextDeferred,
                FindUnfinished, WriteStatus, TaskEffect
  <2>5. clock' = clock /\ budget' = budget
    BY <1>4 DEF Tick, ClaimDue, LoadTask, FinishClaim, FindDeferred, NextDeferred,
                FindUnfinished, WriteStatus
  <2> QED BY <1>1, <1>2, <2>1, <2>2, <2>3, <2>4, <2>5
<1>5. CASE GateAndCreate(p) \/ (p = Api /\ RunNow)
  <2>1. at'[p].pc # "commit"
    <3>1. CASE RunNow /\ p = Api
      BY <1>1, <3>1 DEF RunNow, AtRow
    <3>2. ASSUME NEW gate, NEW linked, Goto(p, AfterGate(p, gate, linked)) PROVE at'[p].pc # "commit"
      <4>1. AfterGate(p, gate, linked) # "commit" /\ AfterGate(p, gate, linked) \in Pc
        BY DEF AfterGate, AfterExecution, Pc
      <4> QED BY <1>1, <3>2, <4>1, PlaceMoves
    <3> QED BY <1>5, <3>1, <3>2 DEF GateAndCreate
  <2>2. execution' = execution \/ CreatesPending
    BY <1>3, <1>5 DEF GateAndCreate, RunNow, CreatesPending
  <2>3. UNCHANGED <<intakeVars, clock, task, budget>>
    BY <1>5 DEF GateAndCreate, RunNow
  <2> QED BY <1>1, <1>2, <1>5, <2>1, <2>2, <2>3, OtherPlace DEF Dispatch, IntakeEffect, TaskEffect
<1>6. CASE DeferExecution(p) \/ SkipExecution(p) \/ QueueExecution(p) \/ FailExecution(p)
  <2>1. Done(p) /\ UNCHANGED <<intakeVars, clock, task, budget>>
    BY <1>6 DEF DeferExecution, SkipExecution, QueueExecution, FailExecution, DecideAndGoOn
  <2>2. Decides
    BY <1>3, <1>6 DEF DeferExecution, SkipExecution, QueueExecution, FailExecution, DecideAndGoOn,
                      Decides
  <2>3. at'[p].pc # "commit"
    BY <1>1, <2>1, PlaceMoves
  <2> QED BY <1>1, <1>2, <1>6, <2>1, <2>2, <2>3, OtherPlace DEF Dispatch, IntakeEffect, TaskEffect
<1>7. CASE Send(p) \/ SendCommit(p) \/ CommitUnheard(p)
  <2>1. UNCHANGED <<clock, task, execution>> /\ budget' \in 0 .. FaultBudget
    <3>1. UNCHANGED <<clock, task, execution>> /\ (budget' = budget \/ SpendFault)
      BY <1>7 DEF Send, SendCommit, CommitUnheard
    <3> QED BY <3>1, Spent
  <2>2. ASSUME NEW pc \in {"queue", "fail"}, Goto(p, pc) PROVE at'[p].pc # "commit"
    <3>1. pc \in Pc
      BY DEF Pc
    <3> QED BY <1>1, <2>2, <3>1, PlaceMoves
  <2>3. IntakeEffect(p)
    BY <1>7, <2>2 DEF Send, SendCommit, CommitUnheard, FoundRun, QuotaFull, At, IntakeEffect
  <2> QED BY <1>2, <2>1, <2>3 DEF TaskEffect
<1>8. CASE DatabaseError(p) \/ Crash(p)
  <2>1. UNCHANGED <<clock, task, execution>> /\ budget' \in 0 .. FaultBudget /\ RollBack(p)
    <3>1. UNCHANGED <<clock, task, execution>> /\ SpendFault /\ RollBack(p)
      BY <1>8 DEF DatabaseError, Crash
    <3> QED BY <3>1, Spent
  <2>2. at'[p].pc # "commit"
    <3>1. ASSUME NEW pc \in {"finish", "fail"}, Goto(p, pc) PROVE at'[p].pc # "commit"
      <4>1. pc \in Pc
        BY DEF Pc
      <4> QED BY <1>1, <3>1, <4>1, PlaceMoves
    <3>2. ASSUME NEW e, at' = [at EXCEPT ![p].pc = "fail", ![p].todo = @ \ {e}, ![p].exec = e]
          PROVE  at'[p].pc # "commit"
      BY <1>1, <3>2 DEF AtRow
    <3>3. Abort(p) => at'[p].pc # "commit"
      BY <1>1, PlaceMoves
    <3> QED BY <1>8, <3>1, <3>2, <3>3 DEF DatabaseError, Crash
  <2> QED BY <1>2, <2>1, <2>2 DEF IntakeEffect, TaskEffect
<1> QED BY <1>4, <1>5, <1>6, <1>7, <1>8 DEF RequesterStep, Dispatch
-----------------------------------------------------------------------------
(* The invariant *)

LEMMA TaskStep ==
  ASSUME IInv, NEW p \in Requester, TaskEffect(p), clock' = clock
  PROVE  /\ task' \in TaskRow /\ OwnedIsDue'
         /\ task'.nextRunAt # task.nextRunAt => task.nextRunAt <= clock
<1>1. task \in TaskRow /\ clock \in 0 .. Horizon
  BY TypeParts DEF IInv
<1>2. CASE task' = task
  BY <1>1, <1>2 DEF IInv, OwnedIsDue, Due
<1>3. CASE p \in Scanner /\ Due(clock) /\ task' = [task EXCEPT !.owner = p, !.lapsed = FALSE]
  BY <1>1, <1>3 DEF OwnedIsDue, Due, TaskRow
<1>4. ASSUME p \in Scanner, task.owner = p,
             task' = [task EXCEPT !.nextRunAt = NextRun(task.nextRunAt, at[p].now),
                                  !.owner = NoRequester, !.lapsed = FALSE]
      PROVE  task' \in TaskRow /\ task'.owner = NoRequester /\ task.nextRunAt <= clock
  <2>1. task.nextRunAt # NoTime /\ task.nextRunAt <= clock
    BY <1>4, BoundsHold DEF IInv, OwnedIsDue, Due
  <2>2. at[p].now \in Nows
    BY TypeParts DEF IInv, AtRow
  <2> DEFINE next == NextRun(task.nextRunAt, at[p].now)
  <2>3. next \in DueTime
    BY <1>1, <2>1, <2>2, BoundsHold DEF NextRun, DueTime, Nows, TaskRow
  <2> HIDE DEF next
  <2>4. task' = [task EXCEPT !.nextRunAt = next, !.owner = NoRequester, !.lapsed = FALSE]
    BY <1>4 DEF next
  <2> QED BY <1>1, <2>1, <2>3, <2>4 DEF TaskRow
<1> QED BY <1>1, <1>2, <1>3, <1>4 DEF TaskEffect, OwnedIsDue

LEMMA IntakeStep ==
  ASSUME IInv, NEW p \in Requester, IntakeEffect(p), Alone(p)
  PROVE  IntakeTypeOK' /\ CommitHoldsLock' /\ QuotaHolds'
<1>1. at \in [Requester -> AtRow] /\ at[p].exec \in Execution /\ IntakeTypeOK
  BY TypeParts DEF IInv, AtRow
<1>2. \A q \in Requester \ {p} : at'[q] = at[q]
  BY DEF Alone
<1>3. Cardinality(ActiveRuns) \in Nat /\ MaxActiveRunsPerUser \in Nat /\ IsFiniteSet(ActiveRuns)
  BY ActiveRunsAreFinite, BoundsHold
<1>4. CASE UNCHANGED intakeVars /\ at'[p].pc # "commit"
  BY <1>1, <1>2, <1>4 DEF IInv, intakeVars, IntakeTypeOK, CommitHoldsLock, QuotaHolds, ActiveRuns
<1>5. CASE QuotaFree(p, at[p].exec)
  <2>1. \A q \in Requester : at[q].pc # "commit"
    BY <1>5, BoundsHold DEF QuotaFree, IInv, CommitHoldsLock
  <2>2. ActiveRuns' = ActiveRuns
    BY <1>5 DEF QuotaFree, ActiveRuns
  <2> QED BY <1>1, <1>2, <1>5, <2>1, <2>2 DEF QuotaFree, IInv, IntakeTypeOK, CommitHoldsLock, QuotaHolds
<1>6. CASE at[p].pc = "commit" /\ CreateRun(p, at[p].exec) /\ at'[p].pc # "commit"
  <2> DEFINE k == at[p].exec
  <2>1. runs' = [runs EXCEPT ![k] = "QUEUED"] /\ userLock' = NoRequester /\ k \in Request
    BY <1>1, <1>6, BoundsHold DEF CreateRun
  <2>2. userLock = p /\ Cardinality(ActiveRuns) < MaxActiveRunsPerUser
    BY <1>6 DEF IInv, CommitHoldsLock
  <2>3. IntakeTypeOK'
    BY <1>1, <2>1 DEF IntakeTypeOK, RunState, Active
  <2>4. CommitHoldsLock'
    BY <1>2, <1>6, <2>2 DEF IInv, CommitHoldsLock
  <2>5. ActiveRuns' = ActiveRuns \cup {k}
    BY <1>1, <2>1 DEF ActiveRuns, Active, IntakeTypeOK
  <2>6. Cardinality(ActiveRuns') <= Cardinality(ActiveRuns) + 1 /\ Cardinality(ActiveRuns') \in Nat
    <3>1. ASSUME NEW S, NEW x, IsFiniteSet(S), Cardinality(S) \in Nat
          PROVE  Cardinality(S \cup {x}) <= Cardinality(S) + 1 /\ Cardinality(S \cup {x}) \in Nat
      <4>1. CASE x \in S
        <5>1. S \cup {x} = S
          BY <4>1
        <5> QED BY <3>1, <5>1
      <4>2. CASE x \notin S
        <5>1. Cardinality(S \cup {x}) = Cardinality(S) + 1
          BY <3>1, <4>2, FS_AddElement
        <5> QED BY ONLY <3>1, <5>1
      <4> QED BY <4>1, <4>2
    <3>2. Cardinality(ActiveRuns \cup {k}) <= Cardinality(ActiveRuns) + 1
          /\ Cardinality(ActiveRuns \cup {k}) \in Nat
      BY ONLY <1>3, <3>1
    <3> QED BY ONLY <2>5, <3>2
  <2> QED BY <1>3, <2>2, <2>3, <2>4, <2>6 DEF QuotaHolds
<1>7. CASE RollBack(p) /\ at'[p].pc # "commit"
  <2>1. ActiveRuns' = ActiveRuns
    BY <1>7 DEF RollBack, ActiveRuns
  <2>2. IntakeTypeOK'
    BY <1>1, <1>7 DEF RollBack, IntakeTypeOK
  <2>3. CommitHoldsLock'
    BY <1>2, <1>7, <2>1 DEF RollBack, IInv, CommitHoldsLock
  <2> QED BY <2>1, <2>2, <2>3 DEF IInv, QuotaHolds
<1> QED BY <1>4, <1>5, <1>6, <1>7 DEF IntakeEffect

LEMMA ExecutionStep ==
  ASSUME IInv, NEW p \in Requester, Alone(p), SeenGrows(p),
         execution' = execution \/ CreatesPending \/ Decides \/ Overwrites(p),
         execution' # execution => at'[p].seen \subseteq at[p].seen
  PROVE  /\ execution' \in [Execution -> ExecutionRow] /\ LinkedIsSettled'
         /\ \A e \in Execution :
              execution[e].status \in {"SKIPPED", "FAILED"} /\ ~execution[e].linked
                => execution'[e] = execution[e]
<1>0. /\ execution \in [Execution -> ExecutionRow] /\ at[p] \in AtRow
      /\ \A e \in Execution : execution[e].linked => execution[e].status \in Settled
      /\ \A q \in Requester : \A x \in at[q].seen : execution[x[1]].linked /\ x[2] \in Settled
      /\ \A q \in Requester \ {p} : at'[q] = at[q]
  BY TypeParts DEF IInv, LinkedIsSettled, Alone
<1>1. CASE execution' = execution
  BY <1>0, <1>1 DEF SeenGrows, LinkedIsSettled
<1>2. ASSUME at'[p].seen \subseteq at[p].seen, execution' \in [Execution -> ExecutionRow],
             \A e \in Execution : execution[e].linked => execution'[e].linked,
             \A e \in Execution : execution'[e].linked => execution'[e].status \in Settled
      PROVE  LinkedIsSettled'
  <2>1. \A q \in Requester : at'[q].seen \subseteq at[q].seen
    BY <1>0, <1>2
  <2>2. \A q \in Requester : \A x \in at[q].seen : x[1] \in Execution
    BY TypeParts DEF IInv, AtRow, Seens
  <2> QED BY <1>0, <1>2, <2>1, <2>2 DEF LinkedIsSettled
<1>3. ASSUME NEW e \in Execution, execution[e].status = "none", execution' # execution,
             execution' = [execution EXCEPT ![e].status = "PENDING"]
      PROVE  /\ execution' \in [Execution -> ExecutionRow] /\ LinkedIsSettled'
             /\ \A f \in Execution : execution[f].status \in {"SKIPPED", "FAILED"}
                                       => execution'[f] = execution[f]
  <2>1. ~execution[e].linked
    BY <1>0, <1>3 DEF Settled, Linked
  <2>2. execution'[e] = [execution[e] EXCEPT !.status = "PENDING"]
        /\ \A f \in Execution \ {e} : execution'[f] = execution[f]
    BY <1>0, <1>3
  <2>3. execution' \in [Execution -> ExecutionRow]
    BY <1>0, <1>3 DEF ExecutionRow, ExecutionStatus, Undecided
  <2>4. execution'[e].linked = execution[e].linked
    BY <1>0, <2>2 DEF ExecutionRow
  <2> QED BY <1>0, <1>2, <1>3, <2>1, <2>2, <2>3, <2>4
<1>4. ASSUME NEW e \in Execution, NEW linked \in BOOLEAN,
             NEW status \in {"DEFERRED", "SKIPPED", "QUEUED", "FAILED"},
             linked => status = "QUEUED", Decide(e, status, linked), execution' # execution
      PROVE  /\ execution' \in [Execution -> ExecutionRow] /\ LinkedIsSettled'
             /\ \A f \in Execution : execution[f].status \in {"SKIPPED", "FAILED"}
                                       => execution'[f] = execution[f]
  <2>1. /\ execution[e].status \in Undecided
        /\ execution' = [execution EXCEPT ![e] = [status |-> status, linked |-> linked]]
    BY <1>4 DEF Decide
  <2>2. ~execution[e].linked
    BY <1>0, <2>1 DEF Settled, Linked, Undecided
  <2>3. execution'[e] = [status |-> status, linked |-> linked]
        /\ \A f \in Execution \ {e} : execution'[f] = execution[f]
    BY <1>0, <2>1
  <2>4. execution' \in [Execution -> ExecutionRow]
    BY <1>0, <2>1 DEF ExecutionRow, ExecutionStatus, Undecided, Linked
  <2>5. execution'[e].linked => execution'[e].status \in Settled
    BY <1>4, <2>3 DEF Settled, Linked
  <2>6. execution[e].status \notin {"SKIPPED", "FAILED"}
    BY <2>1 DEF Undecided
  <2> QED BY <1>0, <1>2, <1>4, <2>2, <2>3, <2>4, <2>5, <2>6
<1>5. ASSUME NEW x \in at[p].seen, execution' # execution,
             execution' = [execution EXCEPT ![x[1]].status = x[2]]
      PROVE  /\ execution' \in [Execution -> ExecutionRow] /\ LinkedIsSettled'
             /\ \A f \in Execution :
                  execution[f].status \in {"SKIPPED", "FAILED"} /\ ~execution[f].linked
                    => execution'[f] = execution[f]
  <2> DEFINE e == x[1]
  <2>1. e \in Execution /\ x[2] \in ExecutionStatus
    BY <1>0, <1>5 DEF AtRow, Seens
  <2>2. execution[e].linked /\ x[2] \in Settled
    BY <1>0, <1>5
  <2>3. execution'[e] = [execution[e] EXCEPT !.status = x[2]]
        /\ \A f \in Execution \ {e} : execution'[f] = execution[f]
    BY <1>0, <1>5, <2>1
  <2>4. execution' \in [Execution -> ExecutionRow]
    BY <1>0, <1>5, <2>1 DEF ExecutionRow
  <2>5. execution'[e].linked = execution[e].linked /\ execution'[e].status = x[2]
    BY <1>0, <2>1, <2>3 DEF ExecutionRow
  <2> QED BY <1>0, <1>2, <1>5, <2>1, <2>2, <2>3, <2>4, <2>5
<1> QED BY <1>0, <1>1, <1>3, <1>4, <1>5 DEF CreatesPending, Decides, Overwrites

\* The user, the lease, the clock and the runs.
LEMMA WorldStep ==
  ASSUME IInv, EditTask \/ LeaseLapses \/ ClockTicks \/ RunStep
  PROVE  IInv' /\ execution' = execution
<1>1. /\ IntakeTypeOK /\ clock \in 0 .. Horizon /\ task \in TaskRow
      /\ execution \in [Execution -> ExecutionRow] /\ at \in [Requester -> AtRow]
      /\ budget \in 0 .. FaultBudget
  BY TypeParts DEF IInv
<1>2. ASSUME UNCHANGED <<intakeVars, execution, at>>, clock' \in 0 .. Horizon, task' \in TaskRow,
             budget' \in 0 .. FaultBudget, OwnedIsDue'
      PROVE  IInv'
  <2>1. TypeOK'
    BY <1>1, <1>2, TypePartsNext DEF intakeVars, IntakeTypeOK
  <2>2. CommitHoldsLock' /\ QuotaHolds' /\ LinkedIsSettled'
    BY <1>2 DEF intakeVars, IInv, CommitHoldsLock, QuotaHolds, ActiveRuns, LinkedIsSettled
  <2> QED BY <1>2, <2>1, <2>2 DEF IInv
<1>3. CASE EditTask
  <2>1. /\ UNCHANGED <<intakeVars, clock, execution, at, budget>> /\ task.version < MaxVersion
    BY <1>3 DEF EditTask
  <2>2. PICK status \in {"ACTIVE", "PAUSED", "DELETED"}, next \in {NoTime} \cup DueTime :
          task' = [status |-> status, version |-> task.version + 1, nextRunAt |-> next,
                   owner |-> NoRequester, lapsed |-> FALSE]
    BY <1>3 DEF EditTask
  <2>3. task.version + 1 \in 1 .. MaxVersion
    BY <1>1, <2>1, BoundsHold DEF TaskRow
  <2>4. task' \in TaskRow /\ task'.owner = NoRequester
    BY <2>2, <2>3 DEF TaskRow
  <2> QED BY <1>1, <1>2, <2>1, <2>4 DEF OwnedIsDue
<1>4. CASE LeaseLapses
  <2>1. UNCHANGED <<intakeVars, clock, execution, at>> /\ task' = [task EXCEPT !.lapsed = TRUE]
    BY <1>4 DEF LeaseLapses
  <2>2. budget' \in 0 .. FaultBudget
    BY <1>4, Spent DEF LeaseLapses
  <2>3. task' \in TaskRow /\ OwnedIsDue'
    BY <1>1, <2>1 DEF TaskRow, IInv, OwnedIsDue, Due
  <2> QED BY <1>1, <1>2, <2>1, <2>2, <2>3
<1>5. CASE ClockTicks
  <2>1. UNCHANGED <<intakeVars, task, execution, at, budget>> /\ clock' = clock + 1 /\ clock < Horizon
    BY <1>5 DEF ClockTicks
  <2>2. clock' \in 0 .. Horizon
    BY <1>1, <2>1, BoundsHold
  <2>3. OwnedIsDue'
    <3>1. task.nextRunAt # NoTime => task.nextRunAt \in Nat
      BY <1>1, BoundsHold DEF TaskRow, DueTime
    <3> QED BY <1>1, <2>1, <3>1 DEF IInv, OwnedIsDue, Due
  <2> QED BY <1>1, <1>2, <2>1, <2>2, <2>3
<1>6. CASE RunStep
  <2>1. UNCHANGED <<userLock, clock, task, execution, at, budget>>
    BY <1>6 DEF RunStep, RunMoves
  <2>2. PICK k \in ActiveRuns, s \in {"RUNNING"} \cup RunEnds : runs' = [runs EXCEPT ![k] = s]
    BY <1>6 DEF RunStep, RunMoves
  <2>3. IntakeTypeOK'
    BY <1>1, <2>1, <2>2, BoundsHold DEF IntakeTypeOK, RunState, Active
  <2>4. ActiveRuns' \subseteq ActiveRuns
    BY <1>1, <2>2 DEF ActiveRuns, IntakeTypeOK
  <2>5. /\ Cardinality(ActiveRuns') <= Cardinality(ActiveRuns) /\ Cardinality(ActiveRuns') \in Nat
        /\ Cardinality(ActiveRuns) \in Nat
    BY <2>4, ActiveRunsAreFinite, FS_Subset, FS_CardinalityType
  <2>6. CommitHoldsLock' /\ QuotaHolds'
    BY <2>1, <2>5, BoundsHold DEF IInv, CommitHoldsLock, QuotaHolds
  <2>7. TypeOK' /\ OwnedIsDue' /\ LinkedIsSettled'
    BY <1>1, <2>1, <2>3, TypePartsNext DEF IInv, OwnedIsDue, Due, LinkedIsSettled
  <2> QED BY <2>1, <2>6, <2>7 DEF IInv
<1> QED BY <1>3, <1>4, <1>5, <1>6 DEF EditTask, LeaseLapses, ClockTicks, RunStep

LEMMA NextIsRequesterOrWorld ==
  ASSUME Next
  PROVE  \/ \E p \in Requester : RequesterStep(p)
         \/ EditTask \/ LeaseLapses \/ ClockTicks \/ RunStep
BY BoundsHold DEF Next, RequesterStep

LEMMA IInvStep ==
  ASSUME IInv, [Next]_vars
  PROVE  IInv'
<1>1. CASE UNCHANGED vars
  <2>1. UNCHANGED <<runs, userLock, clock, task, execution, at, budget>>
    BY <1>1 DEF vars, intakeVars
  <2>2. TypeOK'
    BY <2>1, TypeParts, TypePartsNext DEF IInv, IntakeTypeOK
  <2> QED BY <2>1, <2>2 DEF IInv, OwnedIsDue, Due, CommitHoldsLock, QuotaHolds, ActiveRuns,
                            LinkedIsSettled
<1>2. ASSUME NEW p \in Requester, RequesterStep(p) PROVE IInv'
  <2>1. TaskEffect(p) /\ clock' = clock /\ budget' \in 0 .. FaultBudget /\ Alone(p)
        /\ SeenGrows(p) /\ IntakeEffect(p)
    BY <1>2, RequesterEffects
  <2>2. task' \in TaskRow /\ OwnedIsDue'
    BY <2>1, TaskStep
  <2>3. IntakeTypeOK' /\ CommitHoldsLock' /\ QuotaHolds'
    BY <2>1, IntakeStep
  <2>4. execution' \in [Execution -> ExecutionRow] /\ LinkedIsSettled'
    BY <1>2, RequesterEffects, ExecutionStep
  <2>5. clock' \in 0 .. Horizon /\ at' \in [Requester -> AtRow]
    BY <2>1, TypeParts DEF IInv, Alone
  <2>6. TypeOK'
    BY <2>1, <2>2, <2>3, <2>4, <2>5, TypePartsNext
  <2> QED BY <2>2, <2>3, <2>4, <2>6 DEF IInv
<1> QED BY <1>1, <1>2, NextIsRequesterOrWorld, WorldStep

\* The strengthening above is an invariant.
THEOREM InductiveInvariant == Spec => []IInv
BY InitHolds, IInvStep, PTL DEF Spec

\* Types hold for any constants; above all, the due time a scanner works on is one of the
\* executions' times, because it holds its lease only while that time is due.
THEOREM TypeCorrect == Spec => []TypeOK
<1>1. IInv => TypeOK
  BY DEF IInv
<1> QED BY <1>1, InductiveInvariant, PTL

\* The count of active runs a requester read under the user's lock still holds when its
\* transaction inserts the run, so no number of them exceeds the quota.
THEOREM QuotaIsKept == Spec => []QuotaHolds
<1>1. IInv => QuotaHolds
  BY DEF IInv
<1> QED BY <1>1, InductiveInvariant, PTL

\* An execution skipped or failed without a run stays as it is: every decision asks for an
\* undecided one, and what is written without asking belongs to an execution with a run.
THEOREM DecisionsAreFinal == Spec => DecisionIsFinal
<1>1. ASSUME IInv, [Next]_vars
      PROVE  [\A e \in Execution :
                execution[e].status \in {"SKIPPED", "FAILED"} /\ ~execution[e].linked
                  => execution'[e] = execution[e]]_execution
  <2>1. CASE execution' = execution
    BY <2>1
  <2>2. ASSUME NEW p \in Requester, RequesterStep(p)
        PROVE  \A e \in Execution :
                 execution[e].status \in {"SKIPPED", "FAILED"} /\ ~execution[e].linked
                   => execution'[e] = execution[e]
    BY <1>1, <2>2, RequesterEffects, ExecutionStep
  <2>3. UNCHANGED vars => execution' = execution
    BY DEF vars
  <2> QED BY <1>1, <2>1, <2>2, <2>3, NextIsRequesterOrWorld, WorldStep
<1> QED BY <1>1, InductiveInvariant, PTL DEF Spec, DecisionIsFinal

\* A due time is moved by its own scanner and after it came, never one that an edit set
\* behind the scanner's back.
THEOREM DueTimesMoveOnly == Spec => OnlyDueTimesMove
<1>1. ASSUME IInv, [Next]_vars
      PROVE  [task'.version = task.version /\ task'.nextRunAt # task.nextRunAt
                => task.nextRunAt <= clock]_<<task, clock>>
  <2>1. task \in TaskRow
    BY <1>1, TypeParts DEF IInv
  <2>2. ASSUME NEW p \in Requester, RequesterStep(p)
        PROVE  task'.nextRunAt # task.nextRunAt => task.nextRunAt <= clock
    BY <1>1, <2>2, RequesterEffects, TaskStep
  <2>3. CASE EditTask
    BY <2>1, <2>3 DEF EditTask, TaskRow
  <2>4. CASE LeaseLapses
    <3>1. task' = [task EXCEPT !.lapsed = TRUE]
      BY <2>4 DEF LeaseLapses
    <3> QED BY <2>1, <3>1 DEF TaskRow
  <2>5. CASE ClockTicks \/ RunStep
    BY <2>5 DEF ClockTicks, RunStep
  <2>6. CASE UNCHANGED vars
    BY <2>6 DEF vars
  <2> QED BY <1>1, <2>2, <2>3, <2>4, <2>5, <2>6, NextIsRequesterOrWorld
<1> QED BY <1>1, InductiveInvariant, PTL DEF Spec, OnlyDueTimesMove
=============================================================================
