# TLA+ models of the quantitative research server

This directory holds TLA+ models of the server's own concurrent and durable logic, the TLC
configurations that check them, and TLAPS proofs about them. Paths below are relative to the
repository. The modules are translated from the TypeScript source and the SQL migrations, not
from the design documents; where a document says something else, the section *Findings* says so.

## The system

A NestJS server (API processes, worker processes, one scheduler role) over PostgreSQL (Prisma),
Redis, BullMQ queues and WebSockets. Most of its 130 000 lines are request/response queries and
floating-point statistics. The parts with a protocol of their own are these.

| Component | State | Operations | Hard behaviour | What makes it correct |
|---|---|---|---|---|
| Agent run execution (`src/apps/agent/execution`, `workflow`, `orchestrator`) | `ai_agent_runs`, `ai_agent_steps`, `ai_run_events`, assistant message; per delivery: node, versions, pending error | claim, heartbeat, guard, create/start/finish step, checkpoint, append event, complete, fail, cancel, expire | several deliveries of one run, lease expiry, zombies, crash between transactions, lost acknowledgements, clock skew, cancel and deadline at any time | one outcome told everywhere; gapless closed event log; restart skips and repeats nothing; cancel wins; every run ends |
| Agent queue (`src/queue/agent`) | `ai_job_outbox`, one BullMQ job per run, slots, `running` flag | enqueueRun, publishDueOutbox, requeueRecoverableRuns, removeWaitingRun, process | publishers interleave at every await; stalls; Redis loss; attempts used up | a run that can be claimed is delivered; a row is written off only for good; ended runs leave the queue |
| Agent event stream (`src/apps/agent/streaming`) | cursor, open connections, shutdown flag | open, tail, resolveCursor, shutdown | run row read before its events, replay turning into live tail, opens that interleave at their awaits, reconnects | no event is skipped or repeated; a stream ends as terminal only when all is written; the connection limit holds |
| Run intake (`src/apps/agent/application`) | conversation, messages, run, outbox row, the user's advisory lock | send, regenerate, retry, sendScheduled | idempotency key and quota under concurrent requests | quota kept; one run per key |
| Tools and model gateway | per-run limits, provider health | execute, route, fall back | slots released on every path; half-open probes | limits never exceeded or leaked |
| Notification delivery (`src/apps/notification`, `src/queue/agent/agent-notification*`) | `ai_notification_deliveries`, attempt rows, one BullMQ job, `notifications` | reconcile, claim, send, record, suppress, fail, retry, edit channel, delete notification | lease expires during a send; outcome written by id alone; retry or deletion races a send; lost acknowledgements | calls of the channel bounded by attempts; never two notifications at a time; a final attempt history; a due delivery is attempted |
| Research reports (`src/queue/agent/agent-research-report*`) | report row, file | render, cleanup | render races cleanup | no file without a row |
| Scheduled research (`src/apps/scheduled-research`) | task lease and `next_run_at`, executions | scanDue, runNow, update/pause/resume/delete, reconcileDeferred, refreshExecutionStatuses | several scanners, a claim that an edit takes away, crash between claim and finish, stale statuses written by id | no due time stays behind or moves early; a decision is final; an execution shows its run's outcome in the end |
| Cron lock (`src/shared/scheduler`) | Redis key with token | acquire, renew, release | lease lost while the task runs | release and renew only by the owner |
| Tokens (`src/shared/token.service.ts`, `src/apps/auth`) | refresh keys, blacklist | login, refresh, logout | two tabs, replay, grace period | one successor per refresh token |
| Cache (`src/shared/cache.service.ts`) | keys, namespace sets, in-flight map | rememberJson, invalidate | load races invalidation | single flight; no key outside its namespace set |
| Screener subscriptions | claim water mark, run lease | batch, execute, recover | older date after newer one | water mark monotonic |
| News ingestion | run rows, circuit breaker | ingest, probe, back off | half-open probes of several workers | one probe at a time |
| Tushare synchronisation (`src/tushare/sync`) | `tushare_sync_progress`, sync log, `tushare_sync_retry_queue`, the quote tables | incremental and full rounds, exact retries, retry passes, auto-repair, reset | rounds and retry passes side by side, a date fails between others that succeed, exceptions and crashes between fetching and queueing, a crash while RETRYING | the checkpoint never passes a gap; a date behind it is stored or known; what is called repaired was fetched; no item is lost |
| Backtest (`src/apps/backtest`, `src/queue/backtesting`) | cash, positions, pending signal, weights; run row, job | day loop: split, execute or put off, sell, buy, signal; create, cancel, retry | suspended and limited stocks, splits and contractions, unbounded costs, two places that decide what is tradable, rounding to lots; cancel races processor | buys nothing on credit; no look-ahead; a rebalance is complete; no position above its target |
| Alerts, portfolio, watchlist, queries, WebSocket, HTTP wiring | rows | CRUD, scans | none of their own | not modelled: single-statement or read-only |

How they interact: the API's transaction writes conversation, run, first event and outbox row
together; after the commit it calls `enqueueRun` once, best effort. The reconciler in every
worker repairs what that call left undone. A processor slot takes the job and runs
`AgentOrchestratorService.resume`, which claims the run in PostgreSQL and walks the workflow.
PostgreSQL is the authority; BullMQ carries identifiers only. Completion enqueues notification
deliveries in its own transaction. The stream reads the event log; users cancel through the API.

## Modules

- `AgentRunLifecycle` - what a run promises: claimed by one attempt at a time, ended once, with
  run, message and stream ending in the same step.
- `AgentRun` - the execution in detail (below); implements `AgentRunLifecycle`.
- `AgentQueue` - outbox, publishers, BullMQ job and slots over `AgentRunLifecycle`. The
  composition rests on the refinement: whatever `AgentRun` does, the queue sees the lifecycle.
- `AgentEventLog` - the log of one run as readers rely on it: numbered without a hole, nothing
  after the end. `AgentRun` implements it too.
- `AgentStream` - readers of `AgentEventLog`: SSE sessions of one API process and the tabs that
  reconnect to it.
- `AgentIntake` - the transaction that creates a run for a user: lock, look-up, quota, insert.
- `ScheduledResearch` - EXTENDS `AgentIntake`: scanners and the user's manual run ask for runs
  through it.
- `NotificationDelivery` - one delivery of a completed run (what `complete` enqueues), its job,
  its processors and the user.
- `BacktestEngine` - the day loop of the backtest engine and its orders; sequential.
- `CronLease` - the Redis lease of a scheduled job; `IndexDailySync` has two instances of it.
- `IndexDailySync` - the synchronisation of the core indices' daily quotes: rounds, the retry queue
  and the passes that retry.
- `MCAgentRun`, `MCScheduledResearch`, `MCBacktestEngine` - instances for TLC (symmetry, fault
  and market sets); the other modules take their constants from the .cfg alone.
- `AgentRunProofs`, `AgentRunImplements`, `AgentQueueProofs`, `AgentStreamProofs`,
  `NotificationProofs`, `ScheduledResearchProofs`, `BacktestProofs`, `IndexDailySyncProofs` - theorems.

A definition whose comment begins with "Mutant" is not part of a model: it is a broken form of the
definition after it, on which the property named in `PROJECT.json` must fail.

### AgentRun

`run` is the row (status, `status_version`, attempt, lease owner, started/cancelled marks, next
event number, checkpoint and its version); `leaseLive` and `overdue` are the comparisons of
`lease_expires_at` and `deadline_at` with PostgreSQL's clock; `step[n]` is the status of node
*n*'s step; `events` the log; `message` the assistant message; `deliveries` the notifications
enqueued. `worker[w]` is one delivery: its program counter in `resume`/`execute`, the node, the
versions it read, the exception in flight, the heartbeat's error, the abort flag.

Each action is one transaction or one await-free stretch: `ClaimRun` = `claimRun`,
`FindForExecution`, `Guard` = the three checks of `guard` in their order, `CreateStep`,
`ReadExistingStep`, `StartStep`, `TransitionStep` and its uses, `SaveCheckpoint`, `CompleteRun` =
`AgentRunCompletionRepository.complete`, `TransitionRun` with `FailRun`/`CancelRun` = the catch
of `resume`, `FirstBeat`/`TimedBeat` = heartbeats, `HandlerEvent`, `HandlerReturns`,
`HandlerThrows`, `FinishErroredStep`, and the environment's `RequestCancel`, `ExpireOverdueRun`,
`DeadlinePasses`, `LeaseExpires`, `Crash`, `Abort`. A repository call that finds the lease or the
status not as it needs raises; a call may also fail without effect (`dbError`) or commit and
fail to tell (`lostAck`); the JavaScript clock used by `guard` may differ from PostgreSQL's
(`clockSkew`). Deliveries come at any time, so the queue's duplicates and delays are covered.

Data left out: step inputs and outputs, budgets, retry counts inside a handler, event payloads
and visibility, usage accounting. A handler appends any number of events and returns or throws.

### AgentQueue

One run, its outbox row, its one BullMQ job (`job`, `tries`, `stalls`, `lock`), the publishers
(each reconciler and the API's call, one program counter each, one action per await of
`enqueueRun`), the slots, the cancel call's `removeWaitingRun`. The environment crashes
processes, loses Redis, fails `add` before or after it took effect, lets jobs time out and stalls
blocked workers, `FaultBudget` times in all. BullMQ and Redis are external: their actions say
what the code relies on (an `add` with a known job id does nothing; `remove` fails under a lock;
a delivery without the lock cannot settle the job).

### AgentStream

`session[s]` is one request: where `events`, `open` and `tail` stand (one action per await: the
run read in `open`; the checks, count and registration after its last await; `readStreamBatch`'s
two reads; each yielded event through the pump; the end of a batch; the controller's finally),
with `tail`'s cursor, `replayThrough`, the run as last read and the batch. `count` is
`connectionsByUser`, `down` is `shuttingDown`; `wire[s]` holds what was written and not read,
`received[t]` the tab's last applied event. Idle timeouts come at any empty batch of the live
tail. `FaultBudget` pays for expired tokens, failed reads, slow consumers, lost connections,
shutdowns and crashes; a broken connection loses what is on the wire and is noticed later, so an
old session may run beside its successor. The reader's filter `visibility = USER` is left out
because no caller of `appendInTransaction` gives an event another visibility. Not modelled: an
`afterSequence` other than the tab's own, an unknown `Last-Event-ID` (rejected), heartbeats.

### NotificationDelivery

`row` is the delivery (status, `attempt`, `max_attempts`, and the comparisons of
`next_attempt_at` and `lease_expires_at` with the clock: `due`, `lapsed`); `audit[n]` the attempt
row with number *n*; `shown` the rows of `notifications` with this delivery's id, `deleted` counts
those its user has deleted (a history variable that no guard reads); `sends` counts
calls of the channel adapter; `job`, `lock` and `stalls` are the BullMQ job. A slot holds what
`process` has read: the attempt and maximum of its claim, whether the channel was usable.
`StartPass`, `GetJob`, `GetState`, `Remove`, `Add` are one reconciler pass for this row, one action
per await. `Claim` is `claim`'s `updateMany` (refused by the row's CHECK above `max_attempts`),
`Load` the read after it, then the two channels: `SendWebhook`, or `FindNotification` and
`CreateNotification`, whose unique index refuses a second insert, after which `RereadNotification`
reads the first row, or throws when it has been deleted since.
`RecordDelivered`, `Suppress` and `Fail` write the outcome by id, with a new attempt row, in one
transaction; `suppress` is returned without `await`, so its errors pass the catch. The user's
`RetryRead` and `RetryUpdate` are two statements, as in the code. `DeleteNotification` removes the
row of `notifications` at any time, and frees the unique `delivery_id` for an attempt that is still
on its way or that comes later. Faults: crashes, database
errors, lost acknowledgements (`CommitUnheard`), late workers (`LeaseLapses` while one works),
false stalls, the loss of Redis. Left out: creating, testing and listing channels, read marks, the
content of a message, the length of a backoff.

### AgentIntake and ScheduledResearch

`runs[k]` is the run of `clientRequestId` *k*, `userLock` the transaction-level advisory lock.
`FoundRun`, `QuotaFull` and `QuotaFree` are the first half of the transaction, `CreateRun` its
commit, `RollBack` its loss. `task` is the scheduled task with its lease (`owner`, `lapsed`),
`execution[e]` the execution of the *e*-th due time, or of the manual run, with `linked` for
`run_id is not null`. `at[p]` is one scanner or the API: its place in `scanDue` (`ClaimDue`,
`LoadTask`, `GateAndCreate`, `DeferExecution`, `SkipExecution`, `Send`, `SendCommit`,
`QueueExecution`, `FailExecution`, `FinishClaim`), in `reconcileDeferred` (`FindDeferred`,
`NextDeferred`) and in `refreshExecutionStatuses` (`FindUnfinished`, `WriteStatus`), with what it
read on the way. The gate (trade calendar, data, last execution, condition) may give any answer.
`sendScheduled` compares a hash that covers the gate's `evaluatedAt`: a run found may count as the
same request or as a conflict. `EditTask` is update, pause, resume and delete, each a
compare-and-set on the version that takes the lease away. Left out: creating tasks; ONE_TIME
tasks, whose next time is null; cost; the count of live tasks in `create`, which two requests can
pass together.

### BacktestEngine

A day: `OpenDay` (bars, `adjustCostPriceForSplits`, the pending signal cut to the universe,
`canExecuteSignalToday`, the weights), `Sell` and `PassOver`/`Buy` (the two loops of
`executeTrades`, with their costs and cash checks), `StartBuys` (net asset value), `EndRebalance`,
`CloseDay` (the next signal). Bars, suspensions, price limits, adjustment factors, index membership
and the strategy are free on every day. Money and shares are integers, weights multiples of
1/`Whole`, rates of 1/`Part` and what they come to is rounded down. The costs are fields of the
configuration and any integers, negative ones too, because `CreateBacktestRunDto` (lines 80-102)
bounds none of them. A factor may rise or fall from one bar to the next, so that a contraction
leaves less than a lot; the fraction of a share that the code would keep is rounded up, so that it
stays a position that is valued and sold. A price is a number, 0 or missing (`NoPrice`); a close of 0
is valued at 0, a missing one at the execution price. A factor of 0 stands for a missing one; a
factor that is really 0 is left out. `overpaid` is a history variable over the SELL records of
`allTrades`: what their costs were above their amounts; no guard reads it. What the model shows of
the code beside its properties: a split on a day
without a bar is lost, one untradable holding defers every rebalance, and the restriction on
selling what was bought the same day never applies because sales come first.

### CronLease and IndexDailySync

`table[d]` is what was last written for trade date *d* (`blank`: an empty answer, which deletes its
rows), `progress` the row of `tushare_sync_progress`, `logged` the dates with a SUCCESS log,
`queue[d]` the rows of the retry queue for *d*, oldest first, each with status and count.
`round[r]` is one call of `syncIndexDaily` in a round: `PlanRound` reads log, checkpoint and latest
date; an incremental round goes through `Fetch`, `Refetch`, `Advance` and `Block` date by date, a
full one through `PersistRange`, `Cover` and `AdvanceAll`; both queue what failed (`FindRow`,
`WriteRow`: the two statements of `enqueueRetry`; `EnqueueFails`), then `Settle`, `Log`, `EndRound`.
Any failed call outside the loop's try is `RoundThrows`: `executePlans` calls the plan once more at
the round's end (`again`). `retrier[t]` is one pass of `processPendingRetries`, with the rows it
read when it began: `NextRow`, `Attempt` (the exact retry), `Verify`, `Fail`, `EndPass`. Rounds and
passes hold different leases, and a lost lease stops nobody (`late`). `dropped` and `overlapped` are
history. Faults: failed calls, crashes, leases lost at work, resets by hand.

Abstractions: Tushare may answer with rows, with none or not at all at any time (the second failure
of a date, and the failure to queue it, cost no fault beyond the first); a call and the replacement
of its rows are one step, as are `PlanRound`'s three reads; backoff and batch limit are left out, a
pass takes its rows in any order; `Verify` may fail at will, because a round's newer log for another
date hides the attempt's. Left out: the other tasks (the same pattern, without `Block`, in
`syncByTradeDate`), auto-repair (which adds PENDING rows), the outer leases per task, the FIFO queue
of rounds in one process, and what follows a round: caches, heat maps, quality checks, signals.

## Runs

| Run | Instance | Shows |
|---|---|---|
| `agent_run_core` | 2 deliveries, 2 attempts, 2 nodes, 6 event numbers, all fault kinds, symmetry | `RowSatisfiesChecks`, `OutcomeAgrees`, `CheckpointTrailsSteps`, `CompletionIsTotal`; `CancelWins`, `FinishedStepsFrozen` |
| `agent_run_live` | 2 deliveries, 1 node, crashes and database errors | `EventuallyTerminal`, `CancelHonoured`; `RefinesLifecycle`, `RefinesEventLog` |
| `agent_run_deadline` | no faults | violation of `NoCompletionAfterDeadline` (finding) |
| `agent_queue_live` | 1 reconciler, the API, 2 slots, 2 job attempts, 1 stall, 1 fault | `AbandonedRunIsTakenOver`, `EndedRunLeavesQueue`, `OverdueRunEnds` |
| `agent_queue_race` | 2 reconcilers, the API, 1 slot, 1 job attempt, no stall, 1 fault | `DeadIsFinal`, `PublishedIsQueued`, `QueuedRunIsServed` when publishers remove and add the same job |
| `agent_stream` | 2 tabs, 2 requests, limit 1, batches of 1, 2 events, 1 fault | `WireContinues`, `NoGapReported`, `TerminalIsComplete`, `ConnectionsBounded`, `EveryTabSeesTheEnd` |
| `scheduled_research` | 2 scanners, or one and a manual run; 1 due time (and the next), 1 edit, quota 1, 1 fault | `QuotaHolds`, `DecisionIsFinal`, `OnlyDueTimesMove`, `DueTimePasses`, `LinkedExecutionSettles` |
| `scheduled_conflict` | 2 scanners, no faults, no edits | violation of `RunOfExecutionIsKnown` (finding) |
| `notification` | both channel types, 2 slots, 1 reconciler, 2 attempts, 1 user request, 1 stall, 2 faults | `SendsAreCounted`, `NotifiedOnce`, `OutcomeIsAudited`, `AttemptIsRecordedOnce`, `ClaimableIsClaimed` |
| `notification_stuck` | in-app, 1 slot, 1 attempt, 1 fault | violation of `EveryDeliveryEnds` (finding) |
| `backtest` | 2 stocks, 4 days, six kinds of bar, 2 factors, five signals, two index memberships, five configurations | `DebtIsFromSales`, `SignalIsOlder`, `RebalanceIsComplete`, `BoughtWithinTarget`, `NothingGained` |
| `index_daily_sync` | 1 round, 1 retry pass, 2 trade dates, checkpoint every 2, 1 retry, 1 fault | `SucceededIsStored`, `GapIsKnown`, `CheckpointIsSolid`, `RowSettles` |

Bounds. Two deliveries are the smallest number with a zombie and its successor, and the row knows
only "the owner" and "another"; two attempts give a first claim, a takeover and exhaustion; two
nodes give a step with a checkpoint and the last one, which completes the run instead. `EventLimit`
stops handlers from appending once the counter is there, it never stops a transaction of the run
itself. Two job attempts and one stall (5 and 2 in production) let a job fail both ways. One fault
is enough to lose a job, a process or a lease at any point; more of them only repeat what the
reconciler then repairs once. For the stream, two requests under a limit of one make an orphaned
session hold the slot its tab wants back; two events in batches of one make a replay of several
batches or a live tail after one, and a run that ends between the two reads of a batch. Two slots
and two faults give the notification a late worker beside its successor and one more loss; one user
request is a retry, a deletion or a channel that is switched off, each against every state: a
deletion between two attempts makes the second insert the notification again. One due time leads to
the next by `finishClaim`, so the scanners meet a time that has passed and one that has not come; a
quota of one is full with the first run. Four days are two signals, one of them put off, and a
rebalance from a portfolio that an earlier one built; two factors are a split or a contraction, and
the fifth configuration has a minimum commission above what a small position brings, so that `cash`
does become negative there. Two trade dates are a failed date before one that succeeds, and an
interval of two lets a round pass a date without a checkpoint; `RowLimit` keeps full rounds, which
queue every gap again, from filling the queue without end. One retry exhausts a row at its first
failure. The safety properties were also checked by hand with two rounds, with two faults and with
two passes. The safety proofs drop all of these bounds, for the synchronisation also the number of
dates.

`CHECK_DEADLOCK FALSE` stands where the system may stop: a run once ended, a tab that has its
terminal event, a delivery that ended, a scheduler with no faults, edits or due times left, a
backtest after its last day. `AgentQueue` and `IndexDailySync` are checked for deadlock.

## Fairness

In `AgentRun`: a delivery that neither crashed nor finished goes on (its model and tool calls
have timeouts and the processor aborts the job after `jobTimeoutMs`), the reconciler's interval
sweeps, the deadline comes, a lease that nobody renews expires. Nothing is assumed of
deliveries: ending must not need another worker.

In `AgentQueue`: the same of publishers and slots, and of BullMQ that it promotes delayed jobs
and detects stalls. Taking the waiting job has *strong* fairness. With weak fairness TLC finds a
loop in which two reconcilers in lock step each remove, as finished, the job the other has just
added, so that no slot ever finds it continuously waiting; an idle BullMQ worker blocks on Redis
and takes a job as soon as it is there, so the loop needs a worker that is slower than two
reconcilers for ever. The code has nothing else against it: an interval longer than a pass and
unequal start times make it improbable. The deadline is not fair: serving a run must not lean on its
expiry, and `OverdueRunEnds` speaks of runs whose deadline has passed.

In `AgentStream`: a session's task goes on while its process lives (reads have timeouts), a broken
socket is noticed in the end, a process told to shut down exits, a tab reads what it is sent and
reconnects. The run itself need not end: the property speaks of runs that have ended.

In `ScheduledResearch`: a scheduler's interval fires again and again and what a tick started goes
on, an API request runs to its end, a lease that nobody holds at work runs out. Runs, the clock,
edits and manual runs are not fair. In `NotificationDelivery`: the reconciler's interval fires,
slots go on and take the waiting job, BullMQ detects stalls, a backoff ends, a retry that was begun
is finished, and the lease of a dead worker runs out. In `IndexDailySync`: the interval of the retry
pass fires every five minutes, a pass that lives goes on (each attempt's calls have timeouts), and
the lease of a dead process runs out; rounds are not fair, so a row's end needs no further round.
`BacktestEngine` claims no liveness.

## Findings

- `AgentRunCompletionRepository.complete` (line 79) does not look at `deadline_at`, while
  `AgentRunRepository.transition` (line 363) refuses COMPLETED after the deadline: a run whose
  deadline passes after its last guard completes late.
- Deferred executions are decided by every scanner without a claim, and `sendScheduled` takes the
  run of another evaluation for a conflict (`agent-interaction.repository.ts:213`): the loser of
  two schedulers, or the one that comes after a crash, fails or skips the execution while its run
  goes on, and the execution never knows the run. `batch-020-scheduled-agent-tasks.md:138` wants
  every execution linked to its run.
- `NotificationDeliveryService.claim` (line 213) adds one to `attempt` whatever `max_attempts`
  says: a worker that dies in the last attempt leaves a SENDING row that no claim can take over
  (the CHECK refuses it) and the user's retry refuses. `scheduler-and-notification.md:55` lets
  SENDING end as DELIVERED, FAILED or SUPPRESSED.

Observed while modelling, without a run of its own:

- `computePositionValue` (`backtest-execution.service.ts:233`) values the portfolio at the close
  of the day whose open its orders execute at, against the rule on look-ahead in
  `回测系统-后端设计.md:462`.
- `syncIndexDaily` marks the task COMPLETED without looking at the retry queue, while
  `个股技术信号统计-后端设计.md:134` wants COMPLETED only when no item of it is unfinished: when the first
  date of a round fails no checkpoint is written (`market-sync.service.ts:581`), the next incremental
  round begins after the latest date stored, finds nothing to do and completes (line 487). What stays
  true is `GapIsKnown`: the date is in the retry queue, unless its row could not be written (line 593
  only logs it) or the round ended before it came to that (`dropped`). A full round moves the
  checkpoint to its last date with the gaps behind it (line 515), all of them queued.
- A sale whose commission, duty and slippage exceed its amount takes cash below zero
  (`backtest-execution.service.ts:98`), after which the portfolio is valued and rebalanced with the
  debt in it; TLC reaches it in a few steps under the fifth configuration, by a high minimum commission.
  The purchases, which compare cash with their costs, are the only orders guarded. The end-to-end test
  `flow-strategy-backtest.e2e-spec.ts:190` expects a `cashRatio` that is never negative, with a
  configuration that keeps it so. What stays true is `DebtIsFromSales`.
- A notification that its user deleted is inserted again by the next attempt of its delivery, or by
  one that was past `FindNotification` (the first attempt's worker died after the insert, or its
  outcome was not heard), while `智能体通知渠道与可靠投递测试方案-20260722.md:10` wants no second
  message the user can see from a retry; and a DELIVERED delivery may have no notification. What stays
  true is `NotifiedOnce`.
- A row left RETRYING by a process that died is picked up by no pass; only another failure of its
  date makes it PENDING again. `RowSettles` names this case.

## Proofs

Each theorem module but `AgentRunImplements` proves its component's `TypeOK` (`TypeCorrect`), so
no run repeats it, and every safety property a passing run checks, invariant, action property or
refinement, is proved too. All theorems hold for every set of workers, publishers, slots and
stocks and every value of the bounds, under the named assumptions on the constants
(`AgentRunAssumption`, `AgentQueueAssumption` and so on, one in each module that declares
constants). Each inductive invariant was checked by TLC on a small instance before it was proved.

`AgentRunProofs` proves each safety property of `agent_run_core`. The properties are not
inductive one by one. A late worker is harmless only because it must hold the lease to write, and
the holder is harmless only because what it read is still what the row says; so `IInv` joins the
types with the row's checks, the log, the outcome, `HolderIsCurrent`, `WorkerOnNode`, the
checkpoint's relation to the steps and `CompletionIsTotal`. To keep the case analysis from
repeating itself for every action, the proof first classifies steps: `RowStep` lists the ways the
row, log and message change (`EveryRowStep`), `LeaseStep` and `StepStep` the ways lease, owner
and steps do (`EveryLeaseStep`, `EveryStepStep`), and `EveryMove` the ways a worker's program
counter moves. Each conjunct of `IInv` is then preserved by one lemma over the classes it depends
on. The action properties (`TriggerNeverRejects`, `CancelAlwaysWins`, `FinishedStepsStay`) follow
from `IInv` and the same classes.

`AgentRunImplements` proves `Spec => RefinesLifecycle`: with the lease mapped to none/live/lapsed
and the terminal events to `announced`, each class of row step is one lifecycle step or a stutter.
It also proves `Spec => RefinesEventLog`: each class of row step appends nothing, one event or,
for a completion, two. So what `AgentQueue` and `AgentStream` assume of a run is proved, not only
checked.

`AgentQueueProofs` proves `DeadRowsAreFinal`: `QInv` adds that a publisher that has decided to
write the row off has seen a run that stays unclaimable, which holds because terminal, overdue and
exhausted are each for ever. `PublishedRunsAreQueued` needs `Promised`: while no fault happened and
the run is neither claimed, cancelled nor late, its job only goes from none to waiting to a slot
about to claim, a publisher that found it still finds it, and none is on its way to remove it; the
conditions are never true again once they were false (`CalmBefore`), so nothing has to be known of
the other states. `TypeCorrect` rests on `JobHeld` (BullMQ's lock goes with an active job, a job that
may run has an attempt left), and `QueueImplementsLifecycle` shows that all the queue does to a run
is a step of `AgentRunLifecycle`, the other half of `AgentRunImplements`.

`AgentStreamProofs` proves the safety properties of `agent_stream`. Its `IInv` joins what a tab was
told (`CursorIsTold`: a session's cursor is what its tab applied and what is still on the wire),
what a session has read (`BatchContinues`: a batch is the log's continuation after the cursor, by
the lemma `NextEventsContinue`; `OverIsFinal`: a run seen over was read with its last number), how
sessions end (`ReasonAtEnd`) and the exact count of a finite set of active sessions.

`NotificationProofs` proves all safety properties of `notification`. Types first, with
`MaxIsEarned`: `max_attempts` and the retries still to come stay within the numbers the history has.
`EveryRowStep` and `SlotGoes` classify what a slot does to the row and to its own place. Then
`SendsCounted` needs `CallsReserved`: the slots between claim and call are counted as calls already,
so a claim pays for one. `NotifiedAtMostOnce` needs that when a slot is about to record an in-app
delivery the notification is there or has been deleted since it was found or made. `OutcomesAudited`
needs that a worker past its claim holds a number the row has counted. `HistoryIsFinal` is the
unique index.

`ScheduledResearchProofs` proves those of `scheduled_research`. Its `IInv` adds to the types:
`OwnedIsDue` (who holds the lease holds it on a task that is due, because an edit takes it away),
`CommitHoldsLock` (who is about to insert a run holds the user's lock and its count still holds,
since other steps only end runs) and `LinkedIsSettled` (an execution with a run is past its
decision, and every status waiting to be written by id belongs to such a one). `RequesterEffects`
says in three classes what any step does to intake, executions and task.

`BacktestProofs` proves the safety properties of `backtest` under `BacktestAssumption`, which bounds
neither costs nor factors. `Solvent` has the portfolio's types and that `cash` and `overpaid`
together are never negative; `DebtIsBounded` adds that a purchase is made only when the cash covers
it (`PurchaseIsPaid`) and that nothing is sold after it in the same rebalance. `NothingIsGained`
asks for costs that are no gains, in its property. `PurchasesWithinTarget` needs `Within`: what was
bought is no longer among the orders to come, so no later order adds to it, and rounding down to
lots keeps each within what the target leaves (`Covered`, `OrderWithin`). `NothingIsGained` and the
types need sums: the net asset value and the weights a signal leaves open are sums over a set of
stocks, defined by recursion over its elements in an order the definition does not tell. The section
Sums proves by hand what an induction theorem would give, from a least counterexample (`Least`, from
the well-foundedness of `<`): such a sum exists and is an integer (`SumType`), does not depend on
numbers outside its set (`SumOfSame`), and any element may be taken out of it first (`SumWithout`).
So a purchase changes the value by what it bought and nothing else (`PurchaseAdds`), and its price
with costs is at least that.

`IndexDailySyncProofs` proves, for any number of processes and dates: the types, with `Placed` (a
loop's dates stay between start and target); that whoever works holds the lease or has lost it
(`LeasesGuardWork`: a release compares tokens, so no end of one run frees another's key);
`RepairsWereFetched`, with `OneRow` (a pass about to call its row repaired has had its date written,
and what was written is only ever overwritten); and `CheckpointBeforeGaps`. The last is inductive
with `Sound`: a round that is not blocked has no failures, a round's place is always past the
checkpoint, and a checkpoint exists only while the task is RUNNING (`KeyRuns`), so a new round cannot
begin before it. It needs rounds that do not overlap; `OneAtWork` says so for all of them.

`NoDatePassedUnseen`, in the same module, proves `GapIsKnown`. A date is *known* when it was
written, has a row in the retry queue or was left behind. Three facts carry each other (`Gaps`).
`Accounted`: the dates a round has been through are known or among its failures, at every place of
its loops and after them. `InTime`: no round and no checkpoint is ahead of the dates the database
has heard of or behind a date that was touched, which the choice of a new round's start rests on.
`Ordered`: a date with a row has only known dates before it, because a round queues its failures
from the oldest on; a retry may write that date at any time, and the next round begins after the
latest date written. When the last round ends its failures are queued or dropped, so what it passed
is known (`NoRoundGaps`), and the next begins from there. The invariant was first checked with three
dates and one fault, 12.8 million states.

Six more properties of a run are proved and not checked by a run of their own, the refinements
implying them on small instances: the gapless log (`LogIsGapless`), the terminal event that closes
it (`LogIsClosed`), the holder's knowledge (`LeaseFences`), the worker's node (`WorkersOnNodes`), the
status trigger that never refuses (`TriggerNeverRejects`) and the leases (`LeasesGuardWork`).

Only model-checked: the liveness properties (`EventuallyTerminal`, `CancelHonoured`,
`AbandonedRunIsTakenOver`, `EndedRunLeavesQueue`, `OverdueRunEnds`, `QueuedRunIsServed`,
`EveryTabSeesTheEnd`, `DueTimePasses`, `LinkedExecutionSettles`, `ClaimableIsClaimed`, `RowSettles`),
which rest on fairness and on when an action is enabled, beyond the proof system's reach. The three
findings are behaviours TLC exhibits.

## Plan

Next, in this order; each with a mutant per property and, where it says so, proofs.

1. `BacktestRun`, `ScreenerRun`: small state machines with races by id; the generic `syncByTradeDate`
   as a second instance of the synchronisation.
2. `TokenRotation`, `CacheLoad`, `ToolRunLimiter`, `ProviderHealth`, `NewsCircuitBreaker`.
3. Research reports: the queue pattern of the notifications over a report row and its file.

## Not modelled

Of the 139 000 lines some nine tenths are SQL read models, statistics over floating-point data,
mappings of external data, DTOs and constants: the largest files (`tushare-sync.mapper.ts`,
`financial-sync.service.ts`, `market.service.ts`, `stock-screener.service.ts`,
`factor-compute.service.ts`) transform rows and keep no state between calls. Their correctness is a
matter of numbers and columns; a model would repeat their text and no interleaving, failure or
ordering would be left in it, so the share of lines the models stand for stays small while the
stateful protocols of the agent are covered. In the modelled parts each section above names
what is left out. Two behaviours of the notifications are in the model but refuted no document: a
DELIVERED row may be written over by a late worker or by a retry that read it before, and is then
sent again; `SendsAreCounted`, `NotifiedOnce` and `AttemptIsRecordedOnce` state what stays true.
