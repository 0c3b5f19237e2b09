--------------------------- MODULE IndexDailySync ---------------------------
(***************************************************************************)
(* The synchronisation of the core indices' daily quotes: rounds that      *)
(* fetch one trade date after the other and keep a checkpoint, the queue   *)
(* of dates that failed, and the scheduled passes that retry them.  Rounds *)
(* hold one lease, retry passes another: the two run side by side.  Every  *)
(* await that reads or writes the database is a step.                      *)
(***************************************************************************)
EXTENDS Integers, Sequences

CONSTANTS
  Round,        \* processes that run rounds: schedulers and, by hand, the API
  Retrier,      \* schedulers that run retry passes
  NoOwner,
  Interval,     \* INDEX_DAILY_PROGRESS_INTERVAL
  MaxRetries,
  LastDate,     \* bound: open trade dates, numbered from the coverage start
  RowLimit,     \* bound: no full round begins once a date has so many rows in the queue
  FaultBudget   \* bound: failed calls, crashes, leases lost at work, resets by hand

ASSUME IndexDailySyncAssumption ==
  /\ NoOwner \notin Round \cup Retrier
  /\ Interval \in Nat \ {0} /\ MaxRetries \in Nat \ {0}
  /\ LastDate \in Nat \ {0} /\ RowLimit \in Nat /\ FaultBudget \in Nat

Date == 1 .. LastDate

VARIABLES
  today,        \* latest completed trade date
  table,        \* index_daily: what was last written for a date; "blank" is nothing, too
  progress,     \* tushare_sync_progress: status and last_success_key, 0 for null
  logged,       \* dates with a SUCCESS row in the sync log
  queue,        \* tushare_sync_retry_queue: the rows of each date, oldest first
  round,        \* what each round does and has read
  retrier,      \* what each retry pass does and has read
  roundHolder, roundLate,   \* lease tushare:sync:round
  retryHolder, retryLate,   \* lease tushare:retry
  dropped,      \* history: dates a round has left behind without queueing them
  overlapped,   \* history: two rounds have been at work at a time
  budget

dataVars  == <<table, progress, logged, queue>>
roundVars == <<round, roundHolder, roundLate>>
retryVars == <<retrier, retryHolder, retryLate>>
vars == <<today, dataVars, roundVars, retryVars, dropped, overlapped, budget>>

RoundLease == INSTANCE CronLease WITH Owner <- Round, holder <- roundHolder, late <- roundLate
RetryLease == INSTANCE CronLease WITH Owner <- Retrier, holder <- retryHolder, late <- retryLate

RoundPc   == {"idle", "plan", "upToDate", "mark", "fetch", "refetch", "advance",
              "block", "persist", "cover", "enqueue", "write", "advanceAll", "settle",
              "log", "release"}
RetrierPc == {"idle", "next", "attempt", "verify", "fail"}
Open      == {"PENDING", "RETRYING"}
RowState  == [status : Open \cup {"SUCCEEDED", "EXHAUSTED"}, count : Nat]
RowRead   == [date : Date, n : Nat, count : Nat]

IdleRound == [pc |-> "idle", full |-> FALSE, again |-> FALSE, target |-> 0, start |-> 0, at |-> 0,
              blocked |-> FALSE, failed |-> {}, found |-> 0]

TypeOK ==
  /\ today \in Date
  /\ table \in [Date -> {"none", "rows", "blank"}]
  /\ progress \in [status : {"IDLE", "RUNNING", "COMPLETED"}, key : 0 .. LastDate]
  /\ logged \subseteq Date
  /\ queue \in [Date -> Seq(RowState)]
  /\ round \in [Round -> [pc : RoundPc, full : BOOLEAN, again : BOOLEAN, target : 0 .. LastDate,
                          start : 0 .. LastDate + 1, at : 0 .. LastDate + 1, blocked : BOOLEAN,
                          failed : SUBSET Date, found : Nat]]
  /\ retrier \in [Retrier -> [pc : RetrierPc, todo : SUBSET RowRead, row : SUBSET RowRead]]
  /\ RoundLease!LeaseTypeOK /\ RetryLease!LeaseTypeOK
  /\ dropped \subseteq Date /\ overlapped \in BOOLEAN
  /\ budget \in 0 .. FaultBudget

Init ==
  /\ today = 1
  /\ table = [d \in Date |-> "none"]
  /\ progress = [status |-> "IDLE", key |-> 0]
  /\ logged = {}
  /\ queue = [d \in Date |-> <<>>]
  /\ round = [r \in Round |-> IdleRound]
  /\ retrier = [t \in Retrier |-> [pc |-> "idle", todo |-> {}, row |-> {}]]
  /\ RoundLease!LeaseInit /\ RetryLease!LeaseInit
  /\ dropped = {} /\ overlapped = FALSE
  /\ budget = FaultBudget

Spend == budget > 0 /\ budget' = budget - 1

-----------------------------------------------------------------------------
(* A round: where it begins, then one date after the other *)

At(r, pc) == round[r].pc = pc
Goto(r, pc) == round' = [round EXCEPT ![r].pc = pc]
InRound(r) == round[r].pc # "idle"

Resumable == progress.status = "RUNNING" /\ progress.key # 0

Stored(d) == d \in Date /\ table[d] = "rows"

\* The latest date with rows, 0 when there is none.
Latest == {d \in 0 .. LastDate : (d = 0 \/ Stored(d)) /\ \A e \in Date : Stored(e) => e <= d}

\* A round that is planned now begins behind the date.
Passed(d) == IF Resumable THEN d <= progress.key ELSE \E e \in Date : d <= e /\ Stored(e)

\* The dates a round still answers for.
InHand(r) ==
  round[r].failed \cup
  (IF ~round[r].full /\ round[r].pc \in {"mark", "fetch", "refetch", "advance", "block"}
   THEN round[r].at .. round[r].target
   ELSE IF round[r].full /\ round[r].pc \in {"mark", "persist", "cover"}
        THEN 1 .. round[r].target ELSE {})

\* What a round that ends early may leave behind: an incremental one, dates before one it
\* has stored, when there is no checkpoint; a full one, the gaps it has not looked for.
Lost(r) == {d \in InHand(r) : round[r].full \/ (~Resumable /\ Passed(d))}

\* executePlans runs a plan that threw once more at the end of its round.
Throw(r) ==
  /\ round' = [round EXCEPT ![r] =
       [IdleRound EXCEPT !.pc = IF round[r].again THEN "release" ELSE "plan",
                         !.full = round[r].full, !.again = TRUE, !.target = round[r].target]]
  /\ dropped' = dropped \cup Lost(r)

\* A round of a scheduler or, by hand, of the API; RowLimit bounds what full ones may queue.
StartRound(r) ==
  /\ At(r, "idle")
  /\ RoundLease!Acquire(r)
  /\ \E full \in BOOLEAN :
       /\ full => \A d \in Date : Len(queue[d]) < RowLimit
       /\ round' = [round EXCEPT ![r] = [IdleRound EXCEPT !.pc = "plan", !.full = full, !.target = today]]
  /\ UNCHANGED <<today, dataVars, retryVars, dropped, budget>>
  /\ overlapped' = (overlapped \/ \E q \in Round \ {r} : InRound(q))

RoundOnly == UNCHANGED <<today, roundHolder, roundLate, retryVars, overlapped>>

\* Without a checkpoint a full round begins with the coverage, an incremental one after the
\* latest date stored.
LastDone(r) ==
  IF Resumable THEN {progress.key} ELSE IF round[r].full THEN {0} ELSE Latest

\* The log, the checkpoint and the latest date are read; a round acts on what they were.
PlanRound(r) ==
  /\ At(r, "plan")
  /\ IF ~round[r].full /\ round[r].target \in logged THEN Goto(r, "release")
     ELSE \E d \in LastDone(r) :
            IF d >= round[r].target THEN Goto(r, "upToDate")
            ELSE round' = [round EXCEPT ![r].start = d + 1, ![r].at = d + 1, ![r].pc = "mark"]
  /\ RoundOnly /\ UNCHANGED <<dataVars, dropped, budget>>

Complete == progress' = [status |-> "COMPLETED", key |-> 0]
UpdateProgress(d) == progress' = [status |-> "RUNNING", key |-> d]

\* Nothing to fetch: markCompleted, whatever the retry queue holds, and no log.
UpToDate(r) ==
  /\ At(r, "upToDate")
  /\ Complete
  /\ Goto(r, "release")
  /\ RoundOnly /\ UNCHANGED <<table, logged, queue, dropped, budget>>

MarkRunning(r) ==
  /\ At(r, "mark")
  /\ progress' = [progress EXCEPT !.status = "RUNNING"]
  /\ Goto(r, IF round[r].full THEN "persist" ELSE "fetch")
  /\ RoundOnly /\ UNCHANGED <<table, logged, queue, dropped, budget>>

Write(d, what) == table' = [table EXCEPT ![d] = what]

\* What the loop does after a date: the next one or, after the last, the failures.
NextDate(s) == IF s.at < s.target THEN [s EXCEPT !.at = @ + 1, !.pc = "fetch"]
                                  ELSE [s EXCEPT !.pc = "enqueue"]

GoOn(r, s) == round' = [round EXCEPT ![r] = NextDate(s)]

\* Mutant: a failure earlier in the round does not hold the checkpoint back.
CheckpointDueAnyway(s) == (s.at - s.start + 1) % Interval = 0 \/ s.at = s.target

\* The checkpoint is due after every Interval dates and after the last one.
CheckpointDue(s) ==
  ~s.blocked /\ ((s.at - s.start + 1) % Interval = 0 \/ s.at = s.target)

\* An answer replaces the date's rows, an empty one too.
Fetch(r) ==
  /\ At(r, "fetch")
  /\ \/ /\ \E what \in {"rows", "blank"} : Write(round[r].at, what)
        /\ IF CheckpointDue(round[r]) THEN Goto(r, "advance") ELSE GoOn(r, round[r])
        /\ UNCHANGED budget
     \/ Spend /\ Goto(r, "refetch") /\ UNCHANGED table
  /\ RoundOnly /\ UNCHANGED <<progress, logged, queue, dropped>>

Refetch(r) ==
  /\ At(r, "refetch")
  /\ \/ /\ \E what \in {"rows", "blank"} : Write(round[r].at, what)
        /\ GoOn(r, round[r]) /\ UNCHANGED budget
     \/ /\ UNCHANGED <<table, budget>>
        /\ LET s == [round[r] EXCEPT !.failed = @ \cup {round[r].at}]
           IN  IF s.blocked \/ s.at = s.start
               THEN GoOn(r, [s EXCEPT !.blocked = TRUE])
               ELSE round' = [round EXCEPT ![r] = [s EXCEPT !.pc = "block"]]
  /\ RoundOnly /\ UNCHANGED <<progress, logged, queue, dropped>>

\* A failed write is caught with the fetch: the date is fetched again.
Advance(r) ==
  /\ At(r, "advance")
  /\ \/ UpdateProgress(round[r].at) /\ GoOn(r, round[r]) /\ UNCHANGED budget
     \/ Spend /\ Goto(r, "refetch") /\ UNCHANGED progress
  /\ RoundOnly /\ UNCHANGED <<table, logged, queue, dropped>>

\* The first failure leaves the checkpoint on the date before it.
Block(r) ==
  /\ At(r, "block")
  /\ UpdateProgress(round[r].at - 1)
  /\ GoOn(r, [round[r] EXCEPT !.blocked = TRUE])
  /\ RoundOnly /\ UNCHANGED <<table, logged, queue, dropped, budget>>

-----------------------------------------------------------------------------
(* A full round: one call for the range, then the check of the whole coverage *)

\* The dates of the answer are replaced one by one; those it lacks are left as they are.
PersistRange(r) ==
  /\ At(r, "persist")
  /\ IF round[r].at > round[r].target
     THEN Goto(r, "cover") /\ UNCHANGED table
     ELSE /\ round' = [round EXCEPT ![r].at = @ + 1]
          /\ Write(round[r].at, "rows") \/ UNCHANGED table
  /\ RoundOnly /\ UNCHANGED <<progress, logged, queue, dropped, budget>>

Cover(r) ==
  /\ At(r, "cover")
  /\ LET missing == {d \in 1 .. round[r].target : table[d] # "rows"}
     IN  round' = [round EXCEPT ![r].pc = "enqueue", ![r].failed = missing,
                                ![r].blocked = missing # {}]
  /\ RoundOnly /\ UNCHANGED <<dataVars, dropped, budget>>

\* The last date becomes the checkpoint, also when dates before it are missing.
AdvanceAll(r) ==
  /\ At(r, "advanceAll")
  /\ UpdateProgress(round[r].target)
  /\ Goto(r, "settle")
  /\ RoundOnly /\ UNCHANGED <<table, logged, queue, dropped, budget>>

-----------------------------------------------------------------------------
(* The end of a round: failures into the queue, checkpoint, log, lease *)

OpenRows(d) == {n \in DOMAIN queue[d] : queue[d][n].status \in Open}

\* The failed date that is queued next.
First(r, d) == d \in round[r].failed /\ \A e \in round[r].failed : d <= e

\* enqueueRetry reads the newest open row of the date ...
FindRow(r) ==
  /\ At(r, "enqueue")
  /\ \E d \in Date : \E n \in {0} \cup OpenRows(d) :
       /\ First(r, d) /\ \A m \in OpenRows(d) : m <= n
       /\ round' = [round EXCEPT ![r].pc = "write", ![r].found = n]
  /\ RoundOnly /\ UNCHANGED <<dataVars, dropped, budget>>

Queued(r, d) == round' = [round EXCEPT ![r].failed = @ \ {d}, ![r].pc = "enqueue", ![r].found = 0]

\* ... and then makes it PENDING, whatever became of it, or creates one.
WriteRow(r) ==
  /\ At(r, "write")
  /\ \E d \in Date :
       /\ First(r, d)
       /\ queue' = IF round[r].found > 0
                   THEN [queue EXCEPT ![d][round[r].found].status = "PENDING"]
                   ELSE [queue EXCEPT ![d] = Append(@, [status |-> "PENDING", count |-> 0])]
       /\ Queued(r, d)
  /\ RoundOnly /\ UNCHANGED <<table, progress, logged, dropped, budget>>

\* An incremental round only logs that a date could not be queued.  Its fault was paid for when
\* the date failed.
EnqueueFails(r) ==
  /\ round[r].pc \in {"enqueue", "write"} /\ ~round[r].full
  /\ \E d \in Date : First(r, d) /\ Queued(r, d) /\ dropped' = dropped \cup {d}
  /\ RoundOnly /\ UNCHANGED <<dataVars, budget>>

\* Mutant: an incremental round leaves its failures to the next one.
AllQueuedOrIncremental(r) ==
  /\ At(r, "enqueue") /\ (round[r].full => round[r].failed = {})
  /\ Goto(r, IF round[r].full THEN "advanceAll" ELSE "settle")
  /\ RoundOnly /\ UNCHANGED <<dataVars, dropped, budget>>

AllQueued(r) ==
  /\ At(r, "enqueue") /\ round[r].failed = {}
  /\ Goto(r, IF round[r].full THEN "advanceAll" ELSE "settle")
  /\ RoundOnly /\ UNCHANGED <<dataVars, dropped, budget>>

Settle(r) ==
  /\ At(r, "settle")
  /\ IF round[r].blocked THEN UNCHANGED progress ELSE Complete
  /\ Goto(r, "log")
  /\ RoundOnly /\ UNCHANGED <<table, logged, queue, dropped, budget>>

Log(r) ==
  /\ At(r, "log")
  /\ logged' = IF round[r].blocked THEN logged ELSE logged \cup {round[r].target}
  /\ Goto(r, "release")
  /\ RoundOnly /\ UNCHANGED <<table, progress, queue, dropped, budget>>

EndRound(r) ==
  /\ At(r, "release")
  /\ RoundLease!Release(r)
  /\ round' = [round EXCEPT ![r] = IdleRound]
  /\ UNCHANGED <<today, dataVars, retryVars, dropped, overlapped, budget>>

\* Any other call that fails ends the synchronisation with an exception.
RoundThrows(r) ==
  /\ \/ round[r].pc \in {"plan", "upToDate", "mark", "block", "persist",
                         "cover", "advanceAll", "settle", "log"}
     \/ round[r].full /\ round[r].pc \in {"enqueue", "write"} /\ round[r].failed # {}
  /\ Spend
  /\ Throw(r)
  /\ RoundOnly /\ UNCHANGED dataVars

CrashRound(r) ==
  /\ InRound(r) /\ Spend
  /\ round' = [round EXCEPT ![r] = IdleRound]
  /\ dropped' = dropped \cup Lost(r)
  /\ RoundOnly /\ UNCHANGED dataVars

-----------------------------------------------------------------------------
(* A retry pass: the rows that are PENDING when it begins, one by one *)

RetryAt(t, pc) == retrier[t].pc = pc
RetryGoto(t, pc) == retrier' = [retrier EXCEPT ![t].pc = pc]
RetryOnly == UNCHANGED <<today, retryHolder, retryLate, roundVars, dropped, overlapped>>

Pending == UNION {{[date |-> d, n |-> n, count |-> queue[d][n].count] :
                     n \in {m \in DOMAIN queue[d] : queue[d][m].status = "PENDING"}} : d \in Date}

SetStatus(w, status) == queue' = [queue EXCEPT ![w.date][w.n].status = status]

StartPass(t) ==
  /\ RetryAt(t, "idle") /\ Pending # {}
  /\ RetryLease!Acquire(t)
  /\ retrier' = [retrier EXCEPT ![t].pc = "next", ![t].todo = Pending]
  /\ UNCHANGED <<today, dataVars, roundVars, dropped, overlapped, budget>>

\* The row is marked by its id, whatever its status is by now.
NextRow(t) ==
  /\ RetryAt(t, "next")
  /\ \E w \in retrier[t].todo :
       /\ SetStatus(w, "RETRYING")
       /\ retrier' = [retrier EXCEPT ![t].pc = "attempt", ![t].todo = @ \ {w}, ![t].row = {w}]
  /\ RetryOnly /\ UNCHANGED <<table, progress, logged, budget>>

\* Mutant: the attempt is an ordinary round, which a date behind the latest one does not make
\* fetch anything, and any successful log passes for its own.
AttemptShortCut(t) ==
  /\ RetryAt(t, "attempt")
  /\ \E w \in retrier[t].row :
       \/ /\ ~Passed(w.date) /\ Write(w.date, "rows") /\ logged' = logged \cup {w.date}
          /\ RetryGoto(t, "verify")
       \/ Passed(w.date) /\ logged # {} /\ RetryGoto(t, "verify") /\ UNCHANGED <<table, logged>>
       \/ RetryGoto(t, "fail") /\ UNCHANGED <<table, logged>>
  /\ RetryOnly /\ UNCHANGED <<progress, queue, budget>>

\* Exactly the failed date is fetched and logged.  An empty answer deletes its rows, too, but
\* throws, as do a failed call and a failed log.
Attempt(t) ==
  /\ RetryAt(t, "attempt")
  /\ \E w \in retrier[t].row :
       \/ Write(w.date, "rows") /\ logged' = logged \cup {w.date} /\ RetryGoto(t, "verify")
       \/ /\ UNCHANGED table \/ \E what \in {"rows", "blank"} : Write(w.date, what)
          /\ RetryGoto(t, "fail") /\ UNCHANGED logged
  /\ RetryOnly /\ UNCHANGED <<progress, queue, budget>>

\* The newest successful log since the attempt began must be for the date; it may be a
\* round's, for another date.
Verify(t) ==
  /\ RetryAt(t, "verify")
  /\ \E w \in retrier[t].row :
       \/ /\ SetStatus(w, "SUCCEEDED")
          /\ retrier' = [retrier EXCEPT ![t].pc = "next", ![t].row = {}]
       \/ RetryGoto(t, "fail") /\ UNCHANGED queue
  /\ RetryOnly /\ UNCHANGED <<table, progress, logged, budget>>

\* Mutant: failures are not counted.
CountedKeeping(w) == w.count

\* The count is the one read when the pass began.
Counted(w) == w.count + 1

Fail(t) ==
  /\ RetryAt(t, "fail")
  /\ \E w \in retrier[t].row :
       queue' = [queue EXCEPT ![w.date][w.n] =
         [count |-> Counted(w),
          status |-> IF Counted(w) >= MaxRetries THEN "EXHAUSTED" ELSE "PENDING"]]
  /\ retrier' = [retrier EXCEPT ![t].pc = "next", ![t].row = {}]
  /\ RetryOnly /\ UNCHANGED <<table, progress, logged, budget>>

EndOfPass(t) ==
  /\ RetryLease!Release(t)
  /\ retrier' = [retrier EXCEPT ![t] = [pc |-> "idle", todo |-> {}, row |-> {}]]

EndPass(t) ==
  /\ RetryAt(t, "next") /\ retrier[t].todo = {}
  /\ EndOfPass(t)
  /\ UNCHANGED <<today, dataVars, roundVars, dropped, overlapped, budget>>

\* A failed write of a row's status ends the pass.
PassThrows(t) ==
  /\ retrier[t].pc \in {"next", "fail"} /\ Spend
  /\ EndOfPass(t)
  /\ UNCHANGED <<today, dataVars, roundVars, dropped, overlapped>>

CrashPass(t) ==
  /\ retrier[t].pc # "idle" /\ Spend
  /\ retrier' = [retrier EXCEPT ![t] = [pc |-> "idle", todo |-> {}, row |-> {}]]
  /\ RetryOnly /\ UNCHANGED dataVars

-----------------------------------------------------------------------------
(* The rest: calendar, administrator, Redis *)

DayPasses ==
  /\ today < LastDate /\ today' = today + 1
  /\ UNCHANGED <<dataVars, roundVars, retryVars, dropped, overlapped, budget>>

ResetExhausted ==
  /\ \E d \in Date : \E n \in DOMAIN queue[d] : queue[d][n].status = "EXHAUSTED"
  /\ queue' = [d \in Date |-> [n \in DOMAIN queue[d] |->
                 IF queue[d][n].status = "EXHAUSTED" THEN [status |-> "PENDING", count |-> 0]
                                                     ELSE queue[d][n]]]
  /\ Spend
  /\ UNCHANGED <<today, table, progress, logged, roundVars, retryVars, dropped, overlapped>>

\* A lease ends by itself when its holder is gone, or misses its renewals.
RoundLeaseExpires ==
  /\ RoundLease!Expire
  /\ IF InRound(roundHolder) THEN Spend ELSE UNCHANGED budget
  /\ UNCHANGED <<today, dataVars, round, retryVars, dropped, overlapped>>

RetryLeaseExpires ==
  /\ RetryLease!Expire
  /\ IF retrier[retryHolder].pc # "idle" THEN Spend ELSE UNCHANGED budget
  /\ UNCHANGED <<today, dataVars, retrier, roundVars, dropped, overlapped>>

RoundStep(r) ==
  \/ PlanRound(r) \/ UpToDate(r) \/ MarkRunning(r)
  \/ Fetch(r) \/ Refetch(r) \/ Advance(r) \/ Block(r)
  \/ PersistRange(r) \/ Cover(r) \/ AdvanceAll(r)
  \/ FindRow(r) \/ WriteRow(r) \/ AllQueued(r) \/ Settle(r) \/ Log(r) \/ EndRound(r)

RetryStep(t) ==
  StartPass(t) \/ NextRow(t) \/ Attempt(t) \/ Verify(t) \/ Fail(t) \/ EndPass(t)

Next ==
  \/ \E r \in Round : StartRound(r) \/ RoundStep(r) \/ EnqueueFails(r) \/ RoundThrows(r) \/ CrashRound(r)
  \/ \E t \in Retrier : RetryStep(t) \/ PassThrows(t) \/ CrashPass(t)
  \/ DayPasses \/ ResetExhausted \/ RoundLeaseExpires \/ RetryLeaseExpires

Spec == Init /\ [][Next]_vars

\* The scheduler's interval fires again and again and what a pass began goes on; the lease of a
\* dead process runs out.  Rounds are not fair.
FairSpec ==
  /\ Spec
  /\ \A t \in Retrier : WF_vars(RetryStep(t))
  /\ WF_vars(RetryLeaseExpires /\ retrier[retryHolder].pc = "idle")

-----------------------------------------------------------------------------

\* A row of the retry queue becomes SUCCEEDED only after its date has been written: neither the
\* checkpoint nor an older log lets the worker take a date for repaired that nobody fetched.
SucceededIsStored ==
  \A d \in Date : \A n \in DOMAIN queue[d] :
    queue[d][n].status = "SUCCEEDED" => table[d] # "none"

\* As long as rounds have not overlapped, a date the next round will not look at and that was
\* never written has a row in the retry queue, is in the hands of a round that will queue it,
\* or was left behind: its row could not be written, or its round ended early, full or with no
\* checkpoint yet.  A crash or an exception between two steps loses nothing else.
GapIsKnown ==
  ~overlapped => \A d \in Date : Passed(d) /\ table[d] = "none" =>
    queue[d] # <<>> \/ d \in dropped \/ \E r \in Round : d \in InHand(r)

\* As long as rounds have not overlapped, the checkpoint stays before every date that an
\* incremental round has failed and not yet queued, however many dates after it succeed.
CheckpointIsSolid ==
  ~overlapped => \A r \in Round : ~round[r].full =>
    \A d \in round[r].failed : Resumable => progress.key < d

\* Whoever works holds the lease or has lost it at work: the end of one run never frees the
\* key for a second process while another one, which acquired it since, is at work.
LeaseGuardsWork ==
  /\ \A r \in Round : InRound(r) => r \in roundLate \/ roundHolder = r
  /\ \A t \in Retrier : retrier[t].pc # "idle" => t \in retryLate \/ retryHolder = t

\* No pass has the row: its process died or threw while the row was RETRYING.
Stuck(d, n) ==
  /\ queue[d][n].status = "RETRYING"
  /\ \A t \in Retrier : \A w \in retrier[t].row : ~(w.date = d /\ w.n = n)

\* A PENDING row of the retry queue ends SUCCEEDED or EXHAUSTED, unless a pass leaves it
\* RETRYING, which no other pass picks up.
RowSettles ==
  \A d \in Date : \A n \in 1 .. RowLimit :
    (n \in DOMAIN queue[d] /\ queue[d][n].status = "PENDING") ~>
      (n \in DOMAIN queue[d] /\ (queue[d][n].status \in {"SUCCEEDED", "EXHAUSTED"} \/ Stuck(d, n)))
=============================================================================
