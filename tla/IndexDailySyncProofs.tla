------------------------ MODULE IndexDailySyncProofs ------------------------
(***************************************************************************)
(* For any number of processes, dates, retries and faults: types, leases   *)
(* that guard the work, repairs that were fetched, a checkpoint no failed  *)
(* date is behind.                                                         *)
(***************************************************************************)
EXTENDS IndexDailySync, SequenceTheorems, TLAPS

RoundRec == [pc : RoundPc, full : BOOLEAN, again : BOOLEAN, target : 0 .. LastDate,
             start : 0 .. LastDate + 1, at : 0 .. LastDate + 1, blocked : BOOLEAN,
             failed : SUBSET Date, found : Nat]

PassRec == [pc : RetrierPc, todo : SUBSET RowRead, row : SUBSET RowRead]

\* Where the loops of a round stand, by its pc.
Placed(s) ==
  /\ s.pc # "idle" => s.target \in Date
  /\ s.pc \in {"mark", "fetch", "refetch", "advance", "block"} =>
       s.start \in Date /\ s.at \in Date /\ s.start <= s.at /\ s.at <= s.target
  /\ s.pc = "persist" => s.start \in Date /\ s.start <= s.at /\ s.at <= s.target + 1

Typed == TypeOK /\ \A r \in Round : Placed(round[r])

LEMMA RowWritten ==
  ASSUME NEW q \in Seq(RowState), NEW n, NEW x \in RowState
  PROVE  /\ [q EXCEPT ![n] = x] \in Seq(RowState)
         /\ DOMAIN [q EXCEPT ![n] = x] = DOMAIN q
         /\ \A m \in DOMAIN q : [q EXCEPT ![n] = x][m] = IF m = n THEN x ELSE q[m]
<1>1. Len(q) \in Nat /\ DOMAIN q = 1 .. Len(q) /\ q \in [1 .. Len(q) -> RowState]
  BY LenProperties
<1>2. [q EXCEPT ![n] = x] \in [1 .. Len(q) -> RowState]
  BY <1>1
<1>3. [q EXCEPT ![n] = x] \in Seq(RowState)
  BY <1>1, <1>2, SeqDef
<1> QED BY <1>1, <1>3

LEMMA StatusWritten ==
  ASSUME NEW q \in Seq(RowState), NEW n, NEW s \in Open \cup {"SUCCEEDED", "EXHAUSTED"}
  PROVE  /\ [q EXCEPT ![n].status = s] \in Seq(RowState)
         /\ DOMAIN [q EXCEPT ![n].status = s] = DOMAIN q
         /\ \A m \in DOMAIN q :
              [q EXCEPT ![n].status = s][m].status = IF m = n THEN s ELSE q[m].status
<1>1. Len(q) \in Nat /\ DOMAIN q = 1 .. Len(q) /\ q \in [1 .. Len(q) -> RowState]
  BY LenProperties
<1>2. \A m \in 1 .. Len(q) : q[m] \in RowState /\ [q[m] EXCEPT !.status = s] \in RowState
                            /\ [q[m] EXCEPT !.status = s].status = s
  BY <1>1 DEF RowState
<1>3. [q EXCEPT ![n].status = s] \in [1 .. Len(q) -> RowState]
  BY <1>1, <1>2
<1>4. [q EXCEPT ![n].status = s] \in Seq(RowState)
  BY <1>1, <1>3, SeqDef
<1> QED BY <1>1, <1>2, <1>4

LEMMA RowAppended ==
  ASSUME NEW q \in Seq(RowState), NEW x \in RowState
  PROVE  /\ Append(q, x) \in Seq(RowState) /\ Append(q, x) # << >>
         /\ DOMAIN Append(q, x) = DOMAIN q \cup {Len(q) + 1}
         /\ \A m \in DOMAIN Append(q, x) :
              Append(q, x)[m] = IF m \in DOMAIN q THEN q[m] ELSE x
<1>1. Len(q) \in Nat /\ DOMAIN q = 1 .. Len(q)
  BY LenProperties
<1> QED BY <1>1, AppendProperties, LenProperties

LEMMA TypedInit == Init => Typed
<1> SUFFICES ASSUME Init PROVE Typed
  OBVIOUS
<1> USE IndexDailySyncAssumption DEF Date
<1>1. << >> \in Seq(RowState)
  BY EmptySeq
<1>2. round \in [Round -> RoundRec] /\ \A r \in Round : Placed(round[r])
  BY DEF Init, RoundRec, RoundPc, IdleRound, Placed
<1>3. retrier \in [Retrier -> PassRec]
  BY DEF Init, PassRec, RetrierPc
<1>4. RoundLease!LeaseTypeOK /\ RetryLease!LeaseTypeOK
  BY DEF Init, RoundLease!LeaseInit, RoundLease!LeaseTypeOK, RetryLease!LeaseInit,
         RetryLease!LeaseTypeOK
<1>8. today \in Date
  BY DEF Init
<1>5. /\ table \in [Date -> {"none", "rows", "blank"}]
      /\ logged \subseteq Date /\ dropped \subseteq Date /\ overlapped \in BOOLEAN
  BY DEF Init
<1>9. progress \in [status : {"IDLE", "RUNNING", "COMPLETED"}, key : 0 .. LastDate]
  BY DEF Init
<1>7. budget \in 0 .. FaultBudget
  BY DEF Init
<1>6. queue \in [Date -> Seq(RowState)]
  BY <1>1 DEF Init
<1> QED BY <1>2, <1>3, <1>4, <1>5, <1>6, <1>7, <1>8, <1>9 DEF Typed, TypeOK, RoundRec, PassRec

\* The parts of the type invariant as the steps use them.
LEMMA TypedParts ==
  ASSUME Typed
  PROVE  /\ round \in [Round -> RoundRec] /\ retrier \in [Retrier -> PassRec]
         /\ today \in Date /\ LastDate \in Nat \ {0} /\ budget \in Nat /\ FaultBudget \in Nat
         /\ queue \in [Date -> Seq(RowState)]
BY IndexDailySyncAssumption DEF Typed, TypeOK, RoundRec, PassRec

LEMMA Dates ==
  /\ \A d \in Date : d \in Nat /\ d \in 1 .. LastDate /\ d \in 0 .. LastDate /\ d \in 0 .. LastDate + 1
                   /\ d - 1 \in 0 .. LastDate
  /\ \A d \in Date : 1 .. d \subseteq Date
  /\ \A d \in 0 .. LastDate : \A e \in Date : d < e => d + 1 \in Date /\ d + 1 <= e
BY IndexDailySyncAssumption DEF Date

LEMMA RoundRecs ==
  ASSUME NEW s \in RoundRec, NEW pc \in RoundPc
  PROVE  /\ \A a \in 0 .. LastDate + 1 :
              /\ [s EXCEPT !.at = a, !.pc = pc] \in RoundRec
              /\ [s EXCEPT !.start = a, !.at = a, !.pc = pc] \in RoundRec
         /\ \A f \in SUBSET Date : \A b \in BOOLEAN :
              [s EXCEPT !.pc = pc, !.failed = f, !.blocked = b] \in RoundRec
BY DEF RoundRec

\* The loop goes on, or ends, at a place that fits.
LEMMA NextPlaced ==
  ASSUME NEW u \in RoundRec, u.start \in Date, u.at \in Date, u.start <= u.at,
         u.at <= u.target, u.target \in Date
  PROVE  NextDate(u) \in RoundRec /\ Placed(NextDate(u))
<1>1. CASE u.at < u.target
  <2>1. u.at + 1 \in Date /\ u.at + 1 <= u.target /\ u.start <= u.at + 1
    BY <1>1, IndexDailySyncAssumption DEF Date
  <2>2. [u EXCEPT !.at = @ + 1, !.pc = "fetch"] \in RoundRec
    BY <2>1, Dates, RoundRecs DEF RoundPc
  <2>3. Placed([u EXCEPT !.at = @ + 1, !.pc = "fetch"])
    BY <2>1 DEF RoundRec, Placed
  <2> QED BY <1>1, <2>2, <2>3 DEF NextDate
<1>2. CASE ~(u.at < u.target)
  BY <1>2 DEF NextDate, RoundRec, RoundPc, Placed
<1> QED BY <1>1, <1>2

\* A round moves to a state that fits, all else keeps its type.
LEMMA RoundMoves ==
  ASSUME Typed, NEW r \in Round, NEW s \in RoundRec, Placed(s),
         round' = [round EXCEPT ![r] = s], UNCHANGED <<today, retrier, retryHolder, retryLate>>,
         RoundLease!LeaseTypeOK', table' \in [Date -> {"none", "rows", "blank"}],
         progress' \in [status : {"IDLE", "RUNNING", "COMPLETED"}, key : 0 .. LastDate],
         logged' \subseteq Date, queue' \in [Date -> Seq(RowState)],
         dropped' \subseteq Date, overlapped' \in BOOLEAN, budget' \in 0 .. FaultBudget
  PROVE  Typed'
<1>1. round' \in [Round -> RoundRec] /\ \A q \in Round : Placed(round'[q])
  BY TypedParts DEF Typed
<1>2. RetryLease!LeaseTypeOK'
  BY DEF Typed, TypeOK, RetryLease!LeaseTypeOK
<1> QED BY <1>1, <1>2 DEF Typed, TypeOK, RoundRec, PassRec

\* What a step of a round that leaves the lease alone has to show.
LEMMA RoundStays ==
  ASSUME Typed, NEW r \in Round, NEW s \in RoundRec, Placed(s),
         round' = [round EXCEPT ![r] = s], RoundOnly,
         table' \in [Date -> {"none", "rows", "blank"}],
         progress' \in [status : {"IDLE", "RUNNING", "COMPLETED"}, key : 0 .. LastDate],
         logged' \subseteq Date, queue' \in [Date -> Seq(RowState)],
         dropped' \subseteq Date, budget' \in 0 .. FaultBudget
  PROVE  Typed'
<1>1. RoundLease!LeaseTypeOK' /\ overlapped' \in BOOLEAN
  BY DEF Typed, TypeOK, RoundOnly, RoundLease!LeaseTypeOK
<1> QED BY <1>1, RoundMoves DEF RoundOnly, retryVars

\* Steps that change at most the checkpoint and the log.
LEMMA TypedRound ==
  ASSUME Typed, NEW r \in Round,
         \/ PlanRound(r) \/ UpToDate(r) \/ MarkRunning(r) \/ Advance(r) \/ Block(r)
         \/ Cover(r) \/ AdvanceAll(r) \/ FindRow(r) \/ AllQueued(r) \/ Settle(r) \/ Log(r)
  PROVE  Typed'
<1> USE TypedParts
<1> DEFINE s == round[r]
<1>0. /\ s \in RoundRec /\ Placed(s)
      /\ table \in [Date -> {"none", "rows", "blank"}]
      /\ progress \in [status : {"IDLE", "RUNNING", "COMPLETED"}, key : 0 .. LastDate]
      /\ logged \subseteq Date /\ dropped \subseteq Date /\ budget \in 0 .. FaultBudget
  BY DEF Typed, TypeOK
<1>s. s = round[r]
  OBVIOUS
<1> HIDE DEF s
<1>1. \E u \in RoundRec : Placed(u) /\ round' = [round EXCEPT ![r] = u]
  <2>1. ASSUME NEW pc \in RoundPc \ {"mark", "fetch", "refetch", "advance", "block", "persist"},
               Goto(r, pc), s.pc # "idle"
        PROVE  \E u \in RoundRec : Placed(u) /\ round' = [round EXCEPT ![r] = u]
    <3>1. [s EXCEPT !.pc = pc] \in RoundRec /\ Placed([s EXCEPT !.pc = pc])
      BY <1>0, <2>1 DEF RoundRec, Placed
    <3> QED BY <3>1, <2>1, <1>s DEF Goto
  <2>2. ASSUME NEW u \in RoundRec, u.start \in Date, u.at \in Date, u.start <= u.at,
               u.at <= u.target, u.target \in Date, GoOn(r, u)
        PROVE  \E v \in RoundRec : Placed(v) /\ round' = [round EXCEPT ![r] = v]
    BY <2>2, NextPlaced DEF GoOn
  <2>3. CASE PlanRound(r)
    <3>1. CASE ~s.full /\ s.target \in logged
      BY <2>1, <2>3, <3>1, <1>s DEF PlanRound, At, RoundPc
    <3>2. CASE ~(~s.full /\ s.target \in logged)
      <4>1. PICK d \in LastDone(r) :
              IF d >= round[r].target THEN Goto(r, "upToDate")
              ELSE round' = [round EXCEPT ![r].start = d + 1, ![r].at = d + 1, ![r].pc = "mark"]
        BY <2>3, <3>2, <1>s DEF PlanRound
      <4>2. d \in 0 .. LastDate
        BY <1>0, <4>1 DEF LastDone, Latest
      <4>3. CASE d >= round[r].target
        BY <2>1, <2>3, <4>1, <4>3, <1>s DEF PlanRound, At, RoundPc
      <4>4. CASE ~(d >= round[r].target)
        <5> DEFINE u == [s EXCEPT !.start = d + 1, !.at = d + 1, !.pc = "mark"]
        <5>0. s.target \in Date /\ d + 1 \in Date /\ d + 1 <= s.target
          <6>1. s.target \in Date
            BY <1>0, <2>3, <1>s DEF PlanRound, At, Placed
          <6>2. d \in Nat /\ s.target \in Nat /\ d < s.target
            BY <4>2, <4>4, <6>1, <1>s, Dates
          <6> QED BY <4>2, <6>1, <6>2, Dates
        <5>1. u \in RoundRec /\ Placed(u)
          <6>1. u \in RoundRec
            BY <1>0, <5>0, Dates, RoundRecs DEF RoundPc
          <6>2. Placed(u)
            BY <1>0, <5>0, Dates DEF RoundRec, Placed
          <6> QED BY <6>1, <6>2
        <5>2. round' = [round EXCEPT ![r] = u]
          BY <4>1, <4>4, <1>s
        <5> QED BY <5>1, <5>2
      <4> QED BY <4>3, <4>4
    <3> QED BY <3>1, <3>2
  <2>4. CASE UpToDate(r) \/ AdvanceAll(r) \/ AllQueued(r) \/ Settle(r) \/ Log(r)
    BY <2>1, <2>4, <1>s DEF UpToDate, AdvanceAll, AllQueued, Settle, Log, At, RoundPc
  <2>5. CASE MarkRunning(r)
    <3> DEFINE u == [s EXCEPT !.pc = IF s.full THEN "persist" ELSE "fetch"]
    <3>1. u \in RoundRec /\ Placed(u)
      <4>1. u \in RoundRec
        BY <1>0, <2>5, <1>s DEF MarkRunning, At, RoundRec, RoundPc, Placed
      <4>2. Placed(u)
        BY <1>0, <2>5, <1>s DEF MarkRunning, At, RoundRec, RoundPc, Placed
      <4> QED BY <4>1, <4>2
    <3> QED BY <3>1, <2>5, <1>s DEF MarkRunning, Goto
  <2>6. CASE Advance(r)
    <3>1. CASE GoOn(r, s)
      BY <1>0, <2>2, <2>6, <3>1, <1>s DEF Advance, At, Placed
    <3>2. CASE Goto(r, "refetch")
      <4>1. [s EXCEPT !.pc = "refetch"] \in RoundRec /\ Placed([s EXCEPT !.pc = "refetch"])
        BY <1>0, <2>6, <1>s DEF Advance, At, RoundRec, RoundPc, Placed
      <4> QED BY <4>1, <3>2, <1>s DEF Goto
    <3> QED BY <2>6, <3>1, <3>2, <1>s DEF Advance
  <2>7. CASE Block(r)
    <3> DEFINE u == [s EXCEPT !.blocked = TRUE]
    <3>1. /\ u \in RoundRec /\ u.start \in Date /\ u.at \in Date /\ u.start <= u.at
          /\ u.at <= u.target /\ u.target \in Date
      BY <1>0, <2>7, <1>s DEF Block, At, RoundRec, RoundPc, Placed
    <3> QED BY <2>2, <2>7, <3>1, <1>s DEF Block
  <2>8. CASE Cover(r)
    <3> DEFINE missing == {d \in 1 .. s.target : table[d] # "rows"}
               u == [s EXCEPT !.pc = "enqueue", !.failed = missing, !.blocked = missing # {}]
    <3>1. u \in RoundRec /\ Placed(u)
      <4>0. missing \in SUBSET Date /\ (missing # {}) \in BOOLEAN
        <5>1. s.target \in Date
          BY <1>0, <2>8, <1>s DEF Cover, At, Placed
        <5> QED BY <5>1, Dates
      <4> HIDE DEF missing
      <4>1. u \in RoundRec
        BY <1>0, <4>0, RoundRecs DEF RoundPc
      <4>2. Placed(u)
        BY <1>0, <2>8, <1>s DEF Cover, At, RoundRec, RoundPc, Placed
      <4> QED BY <4>1, <4>2
    <3>2. round' = [round EXCEPT ![r] = u]
      BY <2>8, <1>s DEF Cover
    <3> QED BY <3>1, <3>2
  <2>9. CASE FindRow(r)
    <3>1. \A d \in Date : {0} \cup OpenRows(d) \subseteq Nat
      BY LenProperties DEF OpenRows
    <3>2. PICK n \in Nat : round' = [round EXCEPT ![r].pc = "write", ![r].found = n]
      BY <2>9, <3>1 DEF FindRow
    <3> DEFINE u == [s EXCEPT !.pc = "write", !.found = n]
    <3>3. u \in RoundRec /\ Placed(u)
      <4>1. u \in RoundRec
        BY <1>0, <2>9, <1>s DEF FindRow, At, RoundRec, RoundPc, Placed
      <4>2. Placed(u)
        BY <1>0, <2>9, <1>s DEF FindRow, At, RoundRec, RoundPc, Placed
      <4> QED BY <4>1, <4>2
    <3> QED BY <3>2, <3>3, <1>s
  <2> QED BY <2>3, <2>4, <2>5, <2>6, <2>7, <2>8, <2>9
<1>2. progress' \in [status : {"IDLE", "RUNNING", "COMPLETED"}, key : 0 .. LastDate]
  <2>1. CASE Advance(r) \/ Block(r) \/ AdvanceAll(r)
    <3>1. PICK d \in 0 .. LastDate : UpdateProgress(d) \/ UNCHANGED progress
      <4>1. Block(r) \/ Advance(r) => s.at \in Date
        BY <1>0, <1>s DEF Block, Advance, At, Placed
      <4>2. AdvanceAll(r) => s.target \in Date
        BY <1>0, <1>s DEF AdvanceAll, At, Placed
      <4> QED BY <1>s, <2>1, <4>1, <4>2, Dates DEF Advance, Block, AdvanceAll
    <3> QED BY <1>0, <3>1 DEF UpdateProgress
  <2>2. CASE MarkRunning(r)
    BY <1>0, <2>2 DEF MarkRunning
  <2>3. CASE UpToDate(r) \/ Settle(r)
    BY <1>0, <2>3 DEF UpToDate, Settle, Complete
  <2>4. CASE PlanRound(r) \/ Cover(r) \/ FindRow(r) \/ AllQueued(r) \/ Log(r)
    BY <1>0, <2>4 DEF PlanRound, Cover, FindRow, AllQueued, Log, dataVars
  <2> QED BY <2>1, <2>2, <2>3, <2>4
<1>3. logged' \subseteq Date
  BY <1>0, <1>s DEF PlanRound, UpToDate, MarkRunning, Advance, Block, Cover, AdvanceAll, FindRow,
       AllQueued, Settle, Log, At, Placed, dataVars
<1>4. budget' \in 0 .. FaultBudget
  <2>1. Spend => budget' \in 0 .. FaultBudget
    BY <1>0 DEF Spend
  <2> QED BY <1>0, <2>1 DEF PlanRound, UpToDate, MarkRunning, Advance, Block, Cover, AdvanceAll,
       FindRow, AllQueued, Settle, Log
<1>5. RoundOnly /\ UNCHANGED <<table, queue, dropped>>
  BY DEF PlanRound, UpToDate, MarkRunning, Advance, Block, Cover, AdvanceAll, FindRow,
       AllQueued, Settle, Log, dataVars
<1> QED BY <1>0, <1>1, <1>2, <1>3, <1>4, <1>5, RoundStays

\* Steps that write the table, the queue or the history.
LEMMA TypedWrites ==
  ASSUME Typed, NEW r \in Round,
         \/ Fetch(r) \/ Refetch(r) \/ PersistRange(r) \/ WriteRow(r) \/ EnqueueFails(r)
         \/ RoundThrows(r) \/ CrashRound(r)
  PROVE  Typed'
<1> USE TypedParts
<1> DEFINE s == round[r]
<1>0. /\ s \in RoundRec /\ Placed(s)
      /\ table \in [Date -> {"none", "rows", "blank"}]
      /\ progress \in [status : {"IDLE", "RUNNING", "COMPLETED"}, key : 0 .. LastDate]
      /\ logged \subseteq Date /\ dropped \subseteq Date /\ budget \in 0 .. FaultBudget
  BY DEF Typed, TypeOK
<1>s. s = round[r]
  OBVIOUS
<1> HIDE DEF s
<1>1. \E u \in RoundRec : Placed(u) /\ round' = [round EXCEPT ![r] = u]
  <2>1. ASSUME NEW u \in RoundRec, u.start \in Date, u.at \in Date, u.start <= u.at,
               u.at <= u.target, u.target \in Date, GoOn(r, u)
        PROVE  \E v \in RoundRec : Placed(v) /\ round' = [round EXCEPT ![r] = v]
    BY <2>1, NextPlaced DEF GoOn
  <2>2. CASE Fetch(r)
    <3>1. CASE GoOn(r, s)
      BY <1>0, <1>s, <2>1, <2>2, <3>1 DEF Fetch, At, Placed
    <3>2. ASSUME NEW pc \in {"advance", "refetch"}, Goto(r, pc)
          PROVE  \E v \in RoundRec : Placed(v) /\ round' = [round EXCEPT ![r] = v]
      <4>1. [s EXCEPT !.pc = pc] \in RoundRec
        BY <1>0 DEF RoundRec, RoundPc
      <4>2. Placed([s EXCEPT !.pc = pc])
        BY <1>0, <1>s, <2>2 DEF Fetch, At, Placed, RoundRec
      <4> QED BY <4>1, <4>2, <3>2, <1>s DEF Goto
    <3> QED BY <1>s, <2>2, <3>1, <3>2 DEF Fetch
  <2>3. CASE Refetch(r)
    <3>0. s.start \in Date /\ s.at \in Date /\ s.start <= s.at /\ s.at <= s.target /\ s.target \in Date
      BY <1>0, <1>s, <2>3 DEF Refetch, At, Placed
    <3>1. CASE GoOn(r, s)
      BY <1>0, <2>1, <3>0, <3>1
    <3> DEFINE v == [s EXCEPT !.failed = @ \cup {s.at}]
               b == [v EXCEPT !.blocked = TRUE]
               k == [v EXCEPT !.pc = "block"]
    <3>2. v \in RoundRec /\ b \in RoundRec /\ k \in RoundRec
      BY <1>0, <3>0 DEF RoundRec, RoundPc
    <3>3. CASE GoOn(r, b)
      BY <2>1, <3>0, <3>2, <3>3, <1>0 DEF RoundRec
    <3>4. CASE round' = [round EXCEPT ![r] = k]
      <4>1. Placed(k)
        BY <1>0, <3>0 DEF Placed, RoundRec
      <4> QED BY <3>2, <3>4, <4>1
    <3> QED BY <1>s, <2>3, <3>1, <3>3, <3>4 DEF Refetch
  <2>4. CASE PersistRange(r)
    <3>1. CASE s.at > s.target
      <4>1. [s EXCEPT !.pc = "cover"] \in RoundRec /\ Placed([s EXCEPT !.pc = "cover"])
        BY <1>0, <1>s, <2>4 DEF PersistRange, At, RoundRec, RoundPc, Placed
      <4> QED BY <1>s, <2>4, <3>1, <4>1 DEF PersistRange, Goto
    <3>2. CASE ~(s.at > s.target)
      <4>0. /\ s.target \in Date /\ s.start \in Date /\ s.at + 1 \in 0 .. LastDate + 1
            /\ s.start <= s.at + 1 /\ s.at + 1 <= s.target + 1 /\ s.pc = "persist"
        BY <1>0, <1>s, <2>4, <3>2 DEF PersistRange, At, Placed, RoundRec, Date
      <4>1. [s EXCEPT !.at = s.at + 1] \in RoundRec
        BY <1>0, <4>0 DEF RoundRec
      <4>2. Placed([s EXCEPT !.at = s.at + 1])
        BY <1>0, <4>0 DEF RoundRec, Placed
      <4>3. round' = [round EXCEPT ![r] = [s EXCEPT !.at = s.at + 1]]
        BY <1>s, <2>4, <3>2 DEF PersistRange
      <4> QED BY <4>1, <4>2, <4>3
    <3> QED BY <3>1, <3>2
  <2>5. CASE WriteRow(r) \/ EnqueueFails(r)
    <3>1. PICK d \in Date : Queued(r, d)
      BY <2>5 DEF WriteRow, EnqueueFails
    <3> DEFINE u == [s EXCEPT !.failed = s.failed \ {d}, !.pc = "enqueue", !.found = 0]
    <3>2. u \in RoundRec
      BY <1>0 DEF RoundRec, RoundPc
    <3>3. Placed(u)
      BY <1>0, <1>s, <2>5 DEF WriteRow, EnqueueFails, At, RoundRec, Placed
    <3>4. round' = [round EXCEPT ![r] = u]
      BY <1>s, <3>1 DEF Queued
    <3> QED BY <3>2, <3>3, <3>4
  <2>6. CASE RoundThrows(r)
    <3> DEFINE u == [IdleRound EXCEPT !.pc = IF s.again THEN "release" ELSE "plan",
                                      !.full = s.full, !.again = TRUE, !.target = s.target]
    <3>0. IdleRound \in RoundRec
      BY IndexDailySyncAssumption DEF RoundRec, RoundPc, IdleRound
    <3>4. s.again \in BOOLEAN /\ s.full \in BOOLEAN /\ s.target \in 0 .. LastDate
      BY <1>0 DEF RoundRec
    <3>1. u \in RoundRec
      BY <3>0, <3>4 DEF RoundRec, RoundPc
    <3>2. s.target \in Date
      BY <1>0, <1>s, <2>6 DEF RoundThrows, Placed
    <3>3. Placed(u)
      BY <3>2 DEF Placed, IdleRound
    <3> QED BY <1>s, <2>6, <3>1, <3>3 DEF RoundThrows, Throw
  <2>7. CASE CrashRound(r)
    <3>1. IdleRound \in RoundRec /\ Placed(IdleRound)
      BY IndexDailySyncAssumption DEF RoundRec, RoundPc, IdleRound, Placed
    <3> QED BY <2>7, <3>1 DEF CrashRound
  <2> QED BY <2>2, <2>3, <2>4, <2>5, <2>6, <2>7
<1>2. table' \in [Date -> {"none", "rows", "blank"}]
  BY <1>0 DEF Fetch, Refetch, PersistRange, WriteRow, EnqueueFails, RoundThrows, CrashRound,
       Write, dataVars
<1>3. queue' \in [Date -> Seq(RowState)]
  <2>1. CASE WriteRow(r)
    <3> DEFINE x == [status |-> "PENDING", count |-> 0]
    <3>1. x \in RowState /\ "PENDING" \in Open
      BY DEF RowState, Open
    <3>2. PICK d \in Date :
            queue' = IF s.found > 0 THEN [queue EXCEPT ![d][s.found].status = "PENDING"]
                                    ELSE [queue EXCEPT ![d] = Append(@, x)]
      BY <1>s, <2>1 DEF WriteRow
    <3>3. [queue[d] EXCEPT ![s.found].status = "PENDING"] \in Seq(RowState)
      BY <3>1, StatusWritten
    <3>4. Append(queue[d], x) \in Seq(RowState)
      BY <3>1, RowAppended
    <3> QED BY <3>2, <3>3, <3>4
  <2> QED BY <2>1 DEF Fetch, Refetch, PersistRange, EnqueueFails, RoundThrows, CrashRound, dataVars
<1>4. dropped' \subseteq Date
  <2>1. Lost(r) \subseteq Date
    <3>1. s.failed \subseteq Date /\ s.at .. s.target \subseteq Int /\ 1 .. s.target \subseteq Date
      BY <1>0 DEF RoundRec, Date
    <3>2. s.pc \in {"mark", "fetch", "refetch", "advance", "block"} => s.at .. s.target \subseteq Date
      BY <1>0 DEF Placed, Date
    <3> QED BY <1>s, <3>1, <3>2 DEF Lost, InHand
  <2> QED BY <1>0, <2>1 DEF Fetch, Refetch, PersistRange, WriteRow, EnqueueFails, RoundThrows,
            CrashRound, Throw
<1>5. budget' \in 0 .. FaultBudget
  <2>1. Spend => budget' \in 0 .. FaultBudget
    BY <1>0 DEF Spend
  <2> QED BY <1>0, <2>1 DEF Fetch, Refetch, PersistRange, WriteRow, EnqueueFails, RoundThrows,
            CrashRound
<1>6. RoundOnly /\ UNCHANGED <<progress, logged>>
  BY DEF Fetch, Refetch, PersistRange, WriteRow, EnqueueFails, RoundThrows, CrashRound, dataVars
<1> QED BY <1>0, <1>1, <1>2, <1>3, <1>4, <1>5, <1>6, RoundStays

\* The lease's own steps keep its type.
LEMMA LeaseTyped ==
  ASSUME Typed
  PROVE  /\ \A r \in Round :
              RoundLease!Acquire(r) \/ RoundLease!Release(r) \/ RoundLease!Expire =>
                RoundLease!LeaseTypeOK'
         /\ \A t \in Retrier :
              RetryLease!Acquire(t) \/ RetryLease!Release(t) \/ RetryLease!Expire =>
                RetryLease!LeaseTypeOK'
         /\ RoundLease!Expire => RoundLease!LeaseTypeOK'
         /\ RetryLease!Expire => RetryLease!LeaseTypeOK'
         /\ UNCHANGED <<roundHolder, roundLate>> => RoundLease!LeaseTypeOK'
         /\ UNCHANGED <<retryHolder, retryLate>> => RetryLease!LeaseTypeOK'
BY DEF Typed, TypeOK, RoundLease!LeaseTypeOK, RoundLease!Acquire, RoundLease!Release,
       RoundLease!Expire, RetryLease!LeaseTypeOK, RetryLease!Acquire, RetryLease!Release,
       RetryLease!Expire

LEMMA TypedEnds ==
  ASSUME Typed, NEW r \in Round, StartRound(r) \/ EndRound(r)
  PROVE  Typed'
<1> USE TypedParts
<1>0. IdleRound \in RoundRec /\ Placed(IdleRound)
  BY IndexDailySyncAssumption DEF RoundRec, RoundPc, IdleRound, Placed
<1>1. \E u \in RoundRec : Placed(u) /\ round' = [round EXCEPT ![r] = u]
  <2>1. CASE StartRound(r)
    <3>1. PICK full \in BOOLEAN : round' = [round EXCEPT ![r] =
            [IdleRound EXCEPT !.pc = "plan", !.full = full, !.target = today]]
      BY <2>1 DEF StartRound
    <3> DEFINE u == [IdleRound EXCEPT !.pc = "plan", !.full = full, !.target = today]
    <3>2. u \in RoundRec
      BY <1>0, Dates DEF RoundRec, RoundPc
    <3>3. Placed(u)
      BY Dates DEF IdleRound, Placed
    <3> QED BY <3>1, <3>2, <3>3
  <2>2. CASE EndRound(r)
    BY <1>0, <2>2 DEF EndRound
  <2> QED BY <2>1, <2>2
<1>2. RoundLease!LeaseTypeOK'
  BY LeaseTyped DEF StartRound, EndRound
<1>3. /\ UNCHANGED <<today, retrier, retryHolder, retryLate, table, progress, logged, queue, dropped,
                     budget>>
      /\ overlapped' \in BOOLEAN
  BY DEF StartRound, EndRound, dataVars, retryVars, Typed, TypeOK
<1>4. /\ table' \in [Date -> {"none", "rows", "blank"}]
      /\ progress' \in [status : {"IDLE", "RUNNING", "COMPLETED"}, key : 0 .. LastDate]
      /\ logged' \subseteq Date /\ queue' \in [Date -> Seq(RowState)]
      /\ dropped' \subseteq Date /\ budget' \in 0 .. FaultBudget
  BY <1>3 DEF Typed, TypeOK
<1> QED BY <1>1, <1>2, <1>3, <1>4, RoundMoves

\* Everything but the rounds: passes, calendar, administrator, leases that run out.
LEMMA TypedPass ==
  ASSUME Typed, NEW t \in Retrier, RetryStep(t) \/ PassThrows(t) \/ CrashPass(t)
  PROVE  Typed'
<1> USE TypedParts
<1> DEFINE p == retrier[t]
<1>0. /\ p \in PassRec
      /\ table \in [Date -> {"none", "rows", "blank"}]
      /\ progress \in [status : {"IDLE", "RUNNING", "COMPLETED"}, key : 0 .. LastDate]
      /\ logged \subseteq Date /\ budget \in 0 .. FaultBudget
  BY DEF Typed, TypeOK
<1>s. p = retrier[t]
  OBVIOUS
<1> HIDE DEF p
<1>1. \E u \in PassRec : retrier' = [retrier EXCEPT ![t] = u]
  <2>1. ASSUME NEW pc \in RetrierPc, NEW todo \in SUBSET RowRead, NEW w \in SUBSET RowRead,
               NEW u, u = [p EXCEPT !.pc = pc] \/ u = [p EXCEPT !.pc = pc, !.todo = todo]
                   \/ u = [p EXCEPT !.pc = pc, !.todo = todo, !.row = w]
                   \/ u = [p EXCEPT !.pc = pc, !.row = w] \/ u = [pc |-> pc, todo |-> todo, row |-> w],
               retrier' = [retrier EXCEPT ![t] = u]
        PROVE  \E v \in PassRec : retrier' = [retrier EXCEPT ![t] = v]
    BY <1>0, <2>1 DEF PassRec
  <2>2. CASE StartPass(t)
    <3>1. Pending \subseteq RowRead
      <4>1. ASSUME NEW d \in Date, NEW n \in DOMAIN queue[d]
            PROVE  [date |-> d, n |-> n, count |-> queue[d][n].count] \in RowRead
        <5>1. n \in Nat /\ queue[d][n] \in RowState
          BY LenProperties
        <5>2. queue[d][n].count \in Nat
          BY <5>1 DEF RowState
        <5> QED BY <5>1, <5>2 DEF RowRead
      <4> QED BY <4>1 DEF Pending
    <3> QED BY <1>s, <2>1, <2>2, <3>1 DEF StartPass, RetrierPc
  <2>3. CASE NextRow(t)
    <3>1. PICK w \in p.todo :
            retrier' = [retrier EXCEPT ![t].pc = "attempt", ![t].todo = @ \ {w}, ![t].row = {w}]
      BY <1>s, <2>3 DEF NextRow
    <3>2. p.todo \ {w} \subseteq RowRead /\ {w} \subseteq RowRead
      BY <1>0, <3>1 DEF PassRec
    <3> QED BY <1>s, <2>1, <3>1, <3>2 DEF RetrierPc
  <2>4. CASE Attempt(t) \/ Verify(t) \/ Fail(t)
    <3>1. (\E pc \in {"verify", "fail"} : RetryGoto(t, pc))
          \/ retrier' = [retrier EXCEPT ![t].pc = "next", ![t].row = {}]
      BY <2>4 DEF Attempt, Verify, Fail
    <3>2. ASSUME NEW pc \in {"verify", "fail"}, RetryGoto(t, pc)
          PROVE  \E u \in PassRec : retrier' = [retrier EXCEPT ![t] = u]
      <4>1. [p EXCEPT !.pc = pc] \in PassRec
        BY <1>0 DEF PassRec, RetrierPc
      <4> QED BY <3>2, <4>1, <1>s DEF RetryGoto
    <3>3. CASE retrier' = [retrier EXCEPT ![t].pc = "next", ![t].row = {}]
      <4>1. [p EXCEPT !.pc = "next", !.row = {}] \in PassRec
        BY <1>0 DEF PassRec, RetrierPc
      <4> QED BY <3>3, <4>1, <1>s
    <3> QED BY <3>1, <3>2, <3>3
  <2>5. CASE EndPass(t) \/ PassThrows(t) \/ CrashPass(t)
    <3>1. retrier' = [retrier EXCEPT ![t] = [pc |-> "idle", todo |-> {}, row |-> {}]]
      BY <2>5 DEF EndPass, PassThrows, CrashPass, EndOfPass
    <3>2. [pc |-> "idle", todo |-> {}, row |-> {}] \in PassRec
      BY DEF PassRec, RetrierPc
    <3> QED BY <3>1, <3>2
  <2> QED BY <2>2, <2>3, <2>4, <2>5 DEF RetryStep
<1>2. retrier' \in [Retrier -> PassRec]
  BY <1>1
<1>3. \A w \in p.todo \cup p.row : w.date \in Date /\ w.count \in Nat
  BY <1>0 DEF PassRec, RowRead
<1>4. queue' \in [Date -> Seq(RowState)]
  <2>1. ASSUME NEW w \in p.todo \cup p.row, NEW st \in Open \cup {"SUCCEEDED", "EXHAUSTED"},
               SetStatus(w, st)
        PROVE  queue' \in [Date -> Seq(RowState)]
    <3>1. [queue[w.date] EXCEPT ![w.n].status = st] \in Seq(RowState)
      BY <1>3, StatusWritten
    <3> QED BY <2>1, <3>1 DEF SetStatus
  <2>2. CASE Fail(t)
    <3>1. PICK w \in p.row : queue' = [queue EXCEPT ![w.date][w.n] =
            [count |-> Counted(w),
             status |-> IF Counted(w) >= MaxRetries THEN "EXHAUSTED" ELSE "PENDING"]]
      BY <1>s, <2>2 DEF Fail
    <3> DEFINE x == [count |-> Counted(w),
                     status |-> IF Counted(w) >= MaxRetries THEN "EXHAUSTED" ELSE "PENDING"]
    <3>2. x \in RowState
      BY <1>3 DEF RowState, Counted, Open
    <3>3. [queue[w.date] EXCEPT ![w.n] = x] \in Seq(RowState)
      BY <1>3, <3>2, RowWritten
    <3> QED BY <3>1, <3>3
  <2> QED BY <1>s, <2>1, <2>2 DEF RetryStep, StartPass, NextRow, Attempt, Verify, EndPass,
            PassThrows, CrashPass, RetryGoto, dataVars, Open
<1>5. table' \in [Date -> {"none", "rows", "blank"}] /\ logged' \subseteq Date
  <2>1. CASE Attempt(t)
    <3>1. PICK w \in p.row :
            /\ UNCHANGED table \/ \E what \in {"rows", "blank"} : Write(w.date, what)
            /\ UNCHANGED logged \/ logged' = logged \cup {w.date}
      BY <1>s, <2>1 DEF Attempt
    <3>2. w.date \in Date
      BY <1>3, <3>1
    <3> QED BY <1>0, <3>1, <3>2 DEF Write
  <2>2. CASE ~Attempt(t)
    BY <1>0, <2>2 DEF RetryStep, StartPass, NextRow, Verify, Fail, EndPass, PassThrows,
       CrashPass, dataVars
  <2> QED BY <2>1, <2>2
<1>6. budget' \in 0 .. FaultBudget
  <2>1. Spend => budget' \in 0 .. FaultBudget
    BY <1>0 DEF Spend
  <2> QED BY <1>0, <2>1 DEF RetryStep, StartPass, NextRow, Attempt, Verify, Fail, EndPass,
            PassThrows, CrashPass
<1>7. RetryLease!LeaseTypeOK'
  BY LeaseTyped DEF RetryStep, StartPass, NextRow, Attempt, Verify, Fail, EndPass, PassThrows,
     CrashPass, EndOfPass, RetryOnly
<1>8. UNCHANGED <<today, progress, round, roundHolder, roundLate, dropped, overlapped>>
  BY DEF RetryStep, StartPass, NextRow, Attempt, Verify, Fail, EndPass, PassThrows,
     CrashPass, EndOfPass, RetryOnly, dataVars, roundVars
<1>9. RoundLease!LeaseTypeOK'
  BY <1>8, LeaseTyped
<1> QED BY <1>2, <1>4, <1>5, <1>6, <1>7, <1>8, <1>9 DEF Typed, TypeOK, PassRec

LEMMA TypedRest ==
  ASSUME Typed, DayPasses \/ ResetExhausted \/ RoundLeaseExpires \/ RetryLeaseExpires \/ UNCHANGED vars
  PROVE  Typed'
<1> USE TypedParts
<1>1. today' \in Date
  BY IndexDailySyncAssumption DEF DayPasses, ResetExhausted, RoundLeaseExpires, RetryLeaseExpires, vars, Date
<1>2. queue' \in [Date -> Seq(RowState)]
  <2>1. CASE ResetExhausted
    <3> DEFINE row(d, n) == IF queue[d][n].status = "EXHAUSTED" THEN [status |-> "PENDING", count |-> 0]
                                                              ELSE queue[d][n]
    <3>1. ASSUME NEW d \in Date PROVE [n \in DOMAIN queue[d] |-> row(d, n)] \in Seq(RowState)
      <4>1. Len(queue[d]) \in Nat /\ DOMAIN queue[d] = 1 .. Len(queue[d])
            /\ queue[d] \in [1 .. Len(queue[d]) -> RowState]
        BY LenProperties
      <4>2. [status |-> "PENDING", count |-> 0] \in RowState
        BY DEF RowState, Open
      <4>3. [n \in DOMAIN queue[d] |-> row(d, n)] \in [1 .. Len(queue[d]) -> RowState]
        BY <4>1, <4>2
      <4> HIDE DEF row
      <4> QED BY <4>1, <4>3, SeqDef
    <3> QED BY <2>1, <3>1 DEF ResetExhausted
  <2> QED BY <2>1 DEF DayPasses, RoundLeaseExpires, RetryLeaseExpires, vars, dataVars
<1>3. budget' \in 0 .. FaultBudget
  <2>1. budget \in 0 .. FaultBudget /\ (Spend => budget' \in 0 .. FaultBudget)
    BY DEF Spend, Typed, TypeOK
  <2> QED BY <2>1 DEF DayPasses, ResetExhausted, RoundLeaseExpires, RetryLeaseExpires, vars
<1>4. RoundLease!LeaseTypeOK' /\ RetryLease!LeaseTypeOK'
  BY LeaseTyped DEF DayPasses, ResetExhausted, RoundLeaseExpires, RetryLeaseExpires, vars, roundVars,
     retryVars
<1>5. UNCHANGED <<table, progress, logged, round, retrier, dropped, overlapped>>
  BY DEF DayPasses, ResetExhausted, RoundLeaseExpires, RetryLeaseExpires, vars, dataVars, roundVars,
     retryVars
<1> QED BY <1>1, <1>2, <1>3, <1>4, <1>5 DEF Typed, TypeOK

LEMMA TypedStep == Typed /\ [Next]_vars => Typed'
BY TypedRound, TypedWrites, TypedEnds, TypedPass, TypedRest DEF Next, RoundStep

\* The variables keep their types: among them dates stay dates, and a checkpoint is never moved
\* past the last date of the calendar.
THEOREM TypeCorrect == Spec => []TypeOK
<1>1. Spec => []Typed
  BY TypedInit, TypedStep, PTL DEF Spec
<1>2. Typed => TypeOK
  BY DEF Typed
<1> QED BY <1>1, <1>2, PTL

-----------------------------------------------------------------------------
(* Leases *)

\* A step of a round other than its start is a step of one at work and leaves the others alone.
LEMMA RoundWorks ==
  ASSUME Typed, NEW r \in Round, RoundStep(r) \/ EnqueueFails(r) \/ RoundThrows(r) \/ CrashRound(r)
  PROVE  InRound(r) /\ \A q \in Round \ {r} : round'[q] = round[q]
<1> USE TypedParts
<1>1. InRound(r)
  BY DEF RoundStep, PlanRound, UpToDate, MarkRunning, Fetch, Refetch, Advance, Block, PersistRange,
     Cover, AdvanceAll, FindRow, WriteRow, AllQueued, Settle, Log, EndRound, EnqueueFails,
     RoundThrows, CrashRound, At, InRound
<1>2. \A q \in Round \ {r} : round'[q] = round[q]
  BY DEF RoundStep, PlanRound, UpToDate, MarkRunning, Fetch, Refetch, Advance, Block, PersistRange,
     Cover, AdvanceAll, FindRow, WriteRow, AllQueued, Settle, Log, EndRound, EnqueueFails,
     RoundThrows, CrashRound, Throw, Goto, GoOn, Queued
<1> QED BY <1>1, <1>2

LEMMA PassWorks ==
  ASSUME Typed, NEW t \in Retrier,
         NextRow(t) \/ Attempt(t) \/ Verify(t) \/ Fail(t) \/ EndPass(t) \/ PassThrows(t) \/ CrashPass(t)
  PROVE  retrier[t].pc # "idle" /\ \A q \in Retrier \ {t} : retrier'[q] = retrier[q]
<1> USE TypedParts
<1>1. retrier[t].pc # "idle"
  BY DEF NextRow, Attempt, Verify, Fail, EndPass, PassThrows, CrashPass, RetryAt
<1>2. \A q \in Retrier \ {t} : retrier'[q] = retrier[q]
  BY DEF NextRow, Attempt, Verify, Fail, EndPass, PassThrows, CrashPass, EndOfPass, RetryGoto
<1> QED BY <1>1, <1>2

RoundsHold == \A r \in Round : InRound(r) => r \in roundLate \/ roundHolder = r
PassesHold == \A t \in Retrier : retrier[t].pc # "idle" => t \in retryLate \/ retryHolder = t

LEMMA RoundsHoldStep ==
  ASSUME Typed, RoundsHold, [Next]_vars
  PROVE  RoundsHold'
<1> USE TypedParts, IndexDailySyncAssumption
<1>1. ASSUME NEW r \in Round, StartRound(r) PROVE RoundsHold'
  <2>1. roundHolder = NoOwner /\ roundHolder' = r /\ roundLate' = roundLate \ {r}
    BY <1>1 DEF StartRound, RoundLease!Acquire
  <2>2. \A q \in Round \ {r} : round'[q] = round[q]
    BY <1>1 DEF StartRound
  <2> QED BY <2>1, <2>2 DEF RoundsHold, InRound
<1>2. ASSUME NEW r \in Round, RoundStep(r) \/ EnqueueFails(r) \/ RoundThrows(r) \/ CrashRound(r)
      PROVE  RoundsHold'
  <2>1. InRound(r) /\ \A q \in Round \ {r} : round'[q] = round[q]
    BY <1>2, RoundWorks
  <2>2. CASE EndRound(r)
    <3>1. ~InRound(r)'
      BY <2>2 DEF EndRound, InRound, IdleRound
    <3>2. /\ roundHolder' = IF roundHolder = r THEN NoOwner ELSE roundHolder
          /\ roundLate' = roundLate \ {r}
      BY <2>2 DEF EndRound, RoundLease!Release
    <3> QED BY <2>1, <3>1, <3>2 DEF RoundsHold, InRound
  <2>3. CASE ~EndRound(r)
    <3>1. UNCHANGED <<roundHolder, roundLate>>
      BY <1>2, <2>3 DEF RoundStep, PlanRound, UpToDate, MarkRunning, Fetch, Refetch, Advance, Block,
         PersistRange, Cover, AdvanceAll, FindRow, WriteRow, AllQueued, Settle, Log, EnqueueFails,
         RoundThrows, CrashRound, RoundOnly
    <3> QED BY <2>1, <3>1 DEF RoundsHold, InRound
  <2> QED BY <2>2, <2>3
<1>3. CASE RoundLeaseExpires
  <2>1. UNCHANGED round /\ roundHolder' = NoOwner /\ roundLate' = roundLate \cup {roundHolder}
    BY <1>3 DEF RoundLeaseExpires, RoundLease!Expire
  <2> QED BY <2>1 DEF RoundsHold, InRound
<1>4. CASE UNCHANGED roundVars
  BY <1>4 DEF roundVars, RoundsHold, InRound
<1>5. \/ \E r \in Round : StartRound(r) \/ RoundStep(r) \/ EnqueueFails(r) \/ RoundThrows(r)
                         \/ CrashRound(r)
      \/ RoundLeaseExpires \/ UNCHANGED roundVars
  BY DEF Next, vars, RetryStep, StartPass, NextRow, Attempt, Verify, Fail, EndPass, PassThrows,
     CrashPass, RetryOnly, DayPasses, ResetExhausted, RetryLeaseExpires
<1> QED BY <1>1, <1>2, <1>3, <1>4, <1>5

LEMMA PassesHoldStep ==
  ASSUME Typed, PassesHold, [Next]_vars
  PROVE  PassesHold'
<1> USE TypedParts, IndexDailySyncAssumption
<1>1. ASSUME NEW t \in Retrier, StartPass(t) PROVE PassesHold'
  <2>1. retryHolder = NoOwner /\ retryHolder' = t /\ retryLate' = retryLate \ {t}
    BY <1>1 DEF StartPass, RetryLease!Acquire
  <2>2. \A q \in Retrier \ {t} : retrier'[q] = retrier[q]
    BY <1>1 DEF StartPass
  <2> QED BY <2>1, <2>2 DEF PassesHold
<1>2. ASSUME NEW t \in Retrier, NextRow(t) \/ Attempt(t) \/ Verify(t) \/ Fail(t) \/ CrashPass(t)
      PROVE  PassesHold'
  <2>1. retrier[t].pc # "idle" /\ \A q \in Retrier \ {t} : retrier'[q] = retrier[q]
    BY <1>2, PassWorks
  <2>2. UNCHANGED <<retryHolder, retryLate>>
    BY <1>2 DEF NextRow, Attempt, Verify, Fail, CrashPass, RetryOnly
  <2> QED BY <2>1, <2>2 DEF PassesHold
<1>3. ASSUME NEW t \in Retrier, EndPass(t) \/ PassThrows(t) PROVE PassesHold'
  <2>1. retrier[t].pc # "idle" /\ \A q \in Retrier \ {t} : retrier'[q] = retrier[q]
    BY <1>3, PassWorks
  <2>2. retrier'[t].pc = "idle"
    BY <1>3 DEF EndPass, PassThrows, EndOfPass
  <2>3. /\ retryHolder' = IF retryHolder = t THEN NoOwner ELSE retryHolder
        /\ retryLate' = retryLate \ {t}
    BY <1>3 DEF EndPass, PassThrows, EndOfPass, RetryLease!Release
  <2> QED BY <2>1, <2>2, <2>3 DEF PassesHold
<1>4. CASE RetryLeaseExpires
  <2>1. UNCHANGED retrier /\ retryHolder' = NoOwner /\ retryLate' = retryLate \cup {retryHolder}
    BY <1>4 DEF RetryLeaseExpires, RetryLease!Expire
  <2> QED BY <2>1 DEF PassesHold
<1>5. CASE UNCHANGED retryVars
  BY <1>5 DEF retryVars, PassesHold
<1>6. \/ \E t \in Retrier : RetryStep(t) \/ PassThrows(t) \/ CrashPass(t)
      \/ RetryLeaseExpires \/ UNCHANGED retryVars
  BY DEF Next, vars, StartRound, RoundStep, PlanRound, UpToDate, MarkRunning, Fetch, Refetch, Advance,
     Block, PersistRange, Cover, AdvanceAll, FindRow, WriteRow, AllQueued, Settle, Log, EndRound,
     EnqueueFails, RoundThrows, CrashRound, RoundOnly, DayPasses, ResetExhausted, RoundLeaseExpires
<1> QED BY <1>1, <1>2, <1>3, <1>4, <1>5, <1>6 DEF RetryStep

\* Whoever runs a round or a retry pass holds its lease or has lost it at work, however many
\* processes there are: the end of one run never frees the key a second process has acquired.
THEOREM LeasesGuardWork == Spec => []LeaseGuardsWork
<1>1. Spec => []Typed
  BY TypedInit, TypedStep, PTL DEF Spec
<1>2. Init => RoundsHold /\ PassesHold
  BY DEF Init, RoundsHold, PassesHold, InRound, IdleRound
<1>3. Typed /\ RoundsHold /\ PassesHold /\ [Next]_vars => (RoundsHold /\ PassesHold)'
  BY RoundsHoldStep, PassesHoldStep
<1>4. RoundsHold /\ PassesHold => LeaseGuardsWork
  BY DEF RoundsHold, PassesHold, LeaseGuardsWork
<1> QED BY <1>1, <1>2, <1>3, <1>4, PTL DEF Spec

-----------------------------------------------------------------------------
(* Repairs that were fetched *)

\* A pass works on one row, and one it is about to call repaired has had its date written.
OneRow(t) ==
  retrier[t].pc \in {"attempt", "verify", "fail"} =>
    \E w \in RowRead : retrier[t].row = {w} /\ (retrier[t].pc = "verify" => table[w.date] # "none")

Verified == \A t \in Retrier : OneRow(t)

\* What was written is only ever overwritten.
LEMMA StaysWritten ==
  ASSUME Typed, [Next]_vars
  PROVE  \A d \in Date : table[d] # "none" => table'[d] # "none"
<1>0. table \in [Date -> {"none", "rows", "blank"}]
  BY DEF Typed, TypeOK
<1>1. UNCHANGED table \/ \E d, what : what \in {"rows", "blank"} /\ Write(d, what)
  BY DEF Next, vars, dataVars, StartRound, RoundStep, PlanRound, UpToDate, MarkRunning, Fetch, Refetch,
     Advance, Block, PersistRange, Cover, AdvanceAll, FindRow, WriteRow, AllQueued, Settle, Log,
     EndRound, EnqueueFails, RoundThrows, CrashRound, RetryStep, StartPass, NextRow, Attempt, Verify,
     Fail, EndPass, PassThrows, CrashPass, DayPasses, ResetExhausted, RoundLeaseExpires,
     RetryLeaseExpires
<1> QED BY <1>0, <1>1 DEF Write

LEMMA VerifiedStep ==
  ASSUME Typed, Verified, [Next]_vars
  PROVE  Verified'
<1> USE TypedParts
<1>0. /\ \A d \in Date : table[d] # "none" => table'[d] # "none"
      /\ table \in [Date -> {"none", "rows", "blank"}]
  BY StaysWritten DEF Typed, TypeOK
<1>1. ASSUME NEW t \in Retrier, retrier'[t] = retrier[t] PROVE OneRow(t)'
  BY <1>0, <1>1 DEF Verified, OneRow, RowRead
<1>2. ASSUME NEW t \in Retrier, RetryStep(t) \/ PassThrows(t) \/ CrashPass(t) PROVE OneRow(t)'
  <2>1. CASE StartPass(t)
    <3>1. retrier'[t].pc = "next"
      BY <2>1 DEF StartPass, PassRec
    <3> QED BY <3>1 DEF OneRow
  <2>2. CASE NextRow(t)
    <3>1. PICK w \in retrier[t].todo :
            retrier' = [retrier EXCEPT ![t].pc = "attempt", ![t].todo = @ \ {w}, ![t].row = {w}]
      BY <2>2 DEF NextRow
    <3>2. w \in RowRead /\ retrier'[t].pc = "attempt" /\ retrier'[t].row = {w}
      BY <3>1 DEF PassRec
    <3> QED BY <3>2 DEF OneRow
  <2>3. CASE Attempt(t)
    <3>1. PICK w \in RowRead : retrier[t].row = {w}
      BY <2>3 DEF Attempt, RetryAt, Verified, OneRow
    <3>2. (Write(w.date, "rows") /\ RetryGoto(t, "verify")) \/ RetryGoto(t, "fail")
      BY <2>3, <3>1 DEF Attempt
    <3>3. retrier'[t].row = {w} /\ retrier'[t].pc \in {"verify", "fail"}
      BY <3>1, <3>2 DEF RetryGoto, PassRec
    <3>4. retrier'[t].pc = "verify" => Write(w.date, "rows")
      BY <3>2 DEF RetryGoto, PassRec
    <3>5. w.date \in Date
      BY DEF RowRead
    <3>6. retrier'[t].pc = "verify" => table'[w.date] = "rows"
      BY <1>0, <3>4, <3>5 DEF Write
    <3> QED BY <3>3, <3>6 DEF OneRow
  <2>4. CASE Verify(t)
    <3>1. PICK w \in RowRead : retrier[t].row = {w}
      BY <2>4 DEF Verify, RetryAt, Verified, OneRow
    <3>2. \/ retrier'[t].pc = "next"
          \/ retrier'[t].pc = "fail" /\ retrier'[t].row = {w}
      BY <2>4, <3>1 DEF Verify, RetryGoto, PassRec
    <3> QED BY <3>2 DEF OneRow
  <2>5. CASE Fail(t)
    <3>1. retrier'[t].pc = "next"
      BY <2>5 DEF Fail, PassRec
    <3> QED BY <3>1 DEF OneRow
  <2>6. CASE EndPass(t) \/ PassThrows(t) \/ CrashPass(t)
    <3>1. retrier'[t].pc = "idle"
      BY <2>6 DEF EndPass, PassThrows, CrashPass, EndOfPass
    <3> QED BY <3>1 DEF OneRow
  <2> QED BY <1>2, <2>1, <2>2, <2>3, <2>4, <2>5, <2>6 DEF RetryStep
<1>3. ASSUME NEW t \in Retrier, RetryStep(t) \/ PassThrows(t) \/ CrashPass(t)
      PROVE  \A q \in Retrier \ {t} : retrier'[q] = retrier[q]
  BY <1>3, PassWorks DEF RetryStep, StartPass
<1>4. CASE \E t \in Retrier : RetryStep(t) \/ PassThrows(t) \/ CrashPass(t)
  BY <1>1, <1>2, <1>3, <1>4 DEF Verified
<1>5. CASE ~\E t \in Retrier : RetryStep(t) \/ PassThrows(t) \/ CrashPass(t)
  <2>1. UNCHANGED retrier
    BY <1>5 DEF Next, vars, retryVars, StartRound, RoundStep, PlanRound, UpToDate, MarkRunning, Fetch,
     Refetch, Advance, Block, PersistRange, Cover, AdvanceAll, FindRow, WriteRow, AllQueued, Settle,
     Log, EndRound, EnqueueFails, RoundThrows, CrashRound, RoundOnly, DayPasses, ResetExhausted,
     RoundLeaseExpires, RetryLeaseExpires
  <2> QED BY <1>1, <2>1 DEF Verified
<1> QED BY <1>4, <1>5

\* The status of a row after a step: written by a pass that verified it, PENDING or unchanged.
LEMMA SucceededStep ==
  ASSUME Typed, Verified, SucceededIsStored, [Next]_vars
  PROVE  SucceededIsStored'
<1> USE TypedParts
<1>0. \A d \in Date : table[d] # "none" => table'[d] # "none"
  BY StaysWritten
<1> SUFFICES ASSUME NEW d \in Date, NEW n \in DOMAIN queue'[d], queue'[d][n].status = "SUCCEEDED"
             PROVE  table[d] # "none"
  BY <1>0 DEF SucceededIsStored
<1>1. CASE n \in DOMAIN queue[d] /\ queue'[d][n].status = queue[d][n].status
  BY <1>1 DEF SucceededIsStored
<1>2. ASSUME NEW w \in RowRead, NEW st \in Open \cup {"SUCCEEDED", "EXHAUSTED"}, SetStatus(w, st),
             st = "SUCCEEDED" => table[w.date] # "none"
      PROVE  table[d] # "none"
  <2>1. w.date \in Date
    BY DEF RowRead
  <2>2. CASE w.date = d
    <3>1. queue'[d] = [queue[d] EXCEPT ![w.n].status = st]
      BY <1>2, <2>2 DEF SetStatus
    <3>2. n \in DOMAIN queue[d] /\ queue'[d][n].status = IF n = w.n THEN st ELSE queue[d][n].status
      BY <3>1, StatusWritten
    <3> QED BY <1>1, <1>2, <2>2, <3>2
  <2>3. CASE w.date # d
    <3>1. queue'[d] = queue[d]
      BY <1>2, <2>1, <2>3 DEF SetStatus
    <3> QED BY <1>1, <3>1
  <2> QED BY <2>2, <2>3
<1>3. ASSUME NEW t \in Retrier, NextRow(t) \/ Verify(t) PROVE table[d] # "none"
  <2>1. CASE NextRow(t)
    <3>1. PICK w \in retrier[t].todo : SetStatus(w, "RETRYING")
      BY <2>1 DEF NextRow
    <3>2. w \in RowRead
      BY DEF PassRec
    <3> QED BY <1>2, <3>1, <3>2 DEF Open
  <2>2. CASE Verify(t)
    <3>1. PICK w \in RowRead : retrier[t].row = {w} /\ table[w.date] # "none"
      BY <2>2 DEF Verify, RetryAt, Verified, OneRow
    <3>2. SetStatus(w, "SUCCEEDED") \/ UNCHANGED queue
      BY <2>2, <3>1 DEF Verify
    <3> QED BY <1>1, <1>2, <3>1, <3>2
  <2> QED BY <1>3, <2>1, <2>2
<1>4. ASSUME NEW t \in Retrier, Fail(t) PROVE table[d] # "none"
  <2>1. PICK w \in RowRead : retrier[t].row = {w}
    BY <1>4 DEF Fail, RetryAt, Verified, OneRow
  <2> DEFINE x == [count |-> Counted(w),
                   status |-> IF Counted(w) >= MaxRetries THEN "EXHAUSTED" ELSE "PENDING"]
  <2>2. x \in RowState /\ x.status # "SUCCEEDED" /\ w.date \in Date
    BY <2>1 DEF RowState, Counted, Open, RowRead
  <2>3. queue' = [queue EXCEPT ![w.date][w.n] = x]
    BY <1>4, <2>1 DEF Fail
  <2> HIDE DEF x
  <2>4. CASE w.date = d
    <3>1. queue'[d] = [queue[d] EXCEPT ![w.n] = x]
      BY <2>3, <2>4
    <3>2. n \in DOMAIN queue[d] /\ queue'[d][n] = IF n = w.n THEN x ELSE queue[d][n]
      BY <2>2, <3>1, RowWritten
    <3> QED BY <1>1, <2>2, <3>2
  <2>5. CASE w.date # d
    BY <1>1, <2>2, <2>3, <2>5
  <2> QED BY <2>4, <2>5
<1>5. ASSUME NEW r \in Round, WriteRow(r) PROVE table[d] # "none"
  <2> DEFINE x == [status |-> "PENDING", count |-> 0]
  <2>1. x \in RowState /\ "PENDING" \in Open
    BY DEF RowState, Open
  <2>2. PICK e \in Date :
          queue' = IF round[r].found > 0
                   THEN [queue EXCEPT ![e][round[r].found].status = "PENDING"]
                   ELSE [queue EXCEPT ![e] = Append(@, x)]
    BY <1>5 DEF WriteRow
  <2>3. CASE e # d
    BY <1>1, <2>2, <2>3
  <2>4. CASE e = d /\ round[r].found > 0
    <3>1. queue'[d] = [queue[d] EXCEPT ![round[r].found].status = "PENDING"]
      BY <2>2, <2>4
    <3>2. /\ n \in DOMAIN queue[d]
          /\ queue'[d][n].status = IF n = round[r].found THEN "PENDING" ELSE queue[d][n].status
      BY <2>1, <3>1, StatusWritten
    <3> QED BY <1>1, <3>2
  <2>5. CASE e = d /\ ~(round[r].found > 0)
    <3>1. queue'[d] = Append(queue[d], x)
      BY <2>2, <2>5
    <3>2. queue'[d][n] = IF n \in DOMAIN queue[d] THEN queue[d][n] ELSE x
      BY <2>1, <3>1, RowAppended
    <3> QED BY <1>1, <3>2
  <2> QED BY <2>3, <2>4, <2>5
<1>6. CASE ResetExhausted
  <2>1. queue'[d] = [m \in DOMAIN queue[d] |->
          IF queue[d][m].status = "EXHAUSTED" THEN [status |-> "PENDING", count |-> 0]
                                              ELSE queue[d][m]]
    BY <1>6 DEF ResetExhausted
  <2>2. n \in DOMAIN queue[d] /\ queue'[d][n].status = queue[d][n].status
    BY <2>1
  <2> QED BY <1>1, <2>2
<1>7. CASE UNCHANGED queue
  BY <1>1, <1>7
<1>8. \/ \E t \in Retrier : NextRow(t) \/ Verify(t) \/ Fail(t)
      \/ \E r \in Round : WriteRow(r)
      \/ ResetExhausted \/ UNCHANGED queue
  BY DEF Next, vars, dataVars, StartRound, RoundStep, PlanRound, UpToDate, MarkRunning, Fetch, Refetch,
     Advance, Block, PersistRange, Cover, AdvanceAll, FindRow, AllQueued, Settle, Log, EndRound,
     EnqueueFails, RoundThrows, CrashRound, RetryStep, StartPass, Attempt, EndPass, PassThrows,
     CrashPass, DayPasses, RoundLeaseExpires, RetryLeaseExpires
<1> QED BY <1>3, <1>4, <1>5, <1>6, <1>7, <1>8

\* However many processes, faults and retries there are, no row of the retry queue becomes
\* SUCCEEDED before its own date has been written.
THEOREM RepairsWereFetched == Spec => []SucceededIsStored
<1>1. Spec => []Typed
  BY TypedInit, TypedStep, PTL DEF Spec
<1>2. Init => Verified /\ SucceededIsStored
  <2>1. DOMAIN << >> = {}
    OBVIOUS
  <2> QED BY <2>1 DEF Init, Verified, OneRow, SucceededIsStored
<1>3. Typed /\ Verified /\ SucceededIsStored /\ [Next]_vars => (Verified /\ SucceededIsStored)'
  BY VerifiedStep, SucceededStep
<1> QED BY <1>1, <1>2, <1>3, PTL DEF Spec

-----------------------------------------------------------------------------
(* The checkpoint stays before the first failed date *)

\* What a round's state says of the checkpoint: nothing failed, or what failed is after it.
Sound(s, key) ==
  /\ s.pc \in {"idle", "plan", "upToDate", "mark", "advance"} => s.failed = {}
  /\ s.pc \in {"fetch", "refetch", "advance", "block"} => ~s.full
  /\ s.pc \in {"persist", "cover", "advanceAll"} => s.full
  /\ ~s.full =>
       /\ \A d \in s.failed : key < d
       /\ s.pc \in {"mark", "fetch", "refetch", "advance", "block"} => key < s.at
       /\ s.pc = "block" => s.failed = {s.at}
       /\ ~s.blocked /\ s.pc # "block" => s.failed = {}

KeyRuns   == progress.key # 0 => progress.status = "RUNNING"
OneAtWork == \A r, q \in Round : InRound(r) /\ InRound(q) => r = q

Solid ==
  KeyRuns /\ (~overlapped => OneAtWork /\ \A r \in Round : Sound(round[r], progress.key))

LEMMA SoundNext ==
  ASSUME NEW u \in RoundRec, NEW key \in Nat, ~u.full, key <= u.at, u.at \in Nat,
         \A d \in u.failed : key < d, ~u.blocked => u.failed = {}
  PROVE  Sound(NextDate(u), key)
<1>1. CASE u.at < u.target
  BY <1>1 DEF NextDate, Sound, RoundRec
<1>2. CASE ~(u.at < u.target)
  BY <1>2 DEF NextDate, Sound, RoundRec
<1> QED BY <1>1, <1>2

LEMMA KeyRunsStep ==
  ASSUME Typed, KeyRuns, [Next]_vars
  PROVE  KeyRuns'
<1>0. progress \in [status : {"IDLE", "RUNNING", "COMPLETED"}, key : 0 .. LastDate]
  BY DEF Typed, TypeOK
<1>1. \/ UNCHANGED progress \/ Complete \/ (\E d : UpdateProgress(d))
      \/ progress' = [progress EXCEPT !.status = "RUNNING"]
  BY DEF Next, vars, dataVars, StartRound, RoundStep, PlanRound, UpToDate, MarkRunning, Fetch, Refetch,
     Advance, Block, PersistRange, Cover, AdvanceAll, FindRow, WriteRow, AllQueued, Settle, Log,
     EndRound, EnqueueFails, RoundThrows, CrashRound, RetryStep, StartPass, NextRow, Attempt, Verify,
     Fail, EndPass, PassThrows, CrashPass, DayPasses, ResetExhausted, RoundLeaseExpires,
     RetryLeaseExpires
<1> QED BY <1>0, <1>1 DEF KeyRuns, Complete, UpdateProgress

\* A round that works alone keeps its failures after the checkpoint.
LEMMA SoundRound ==
  ASSUME Typed, KeyRuns, NEW r \in Round, Sound(round[r], progress.key),
         RoundStep(r) \/ EnqueueFails(r) \/ RoundThrows(r) \/ CrashRound(r)
  PROVE  Sound(round'[r], progress'.key)
<1> USE TypedParts
<1> DEFINE s == round[r]
           key == progress.key
<1>0. /\ s \in RoundRec /\ Placed(s) /\ Sound(s, key) /\ key \in Nat
      /\ progress \in [status : {"IDLE", "RUNNING", "COMPLETED"}, key : 0 .. LastDate]
      /\ \A d \in s.failed : d \in Nat /\ 0 < d
  BY DEF Typed, TypeOK, RoundRec, Date
<1>s. s = round[r] /\ key = progress.key
  OBVIOUS
<1> HIDE DEF s, key
<1>1. ASSUME NEW u \in RoundRec, round' = [round EXCEPT ![r] = u], Sound(u, progress'.key)
      PROVE  Sound(round'[r], progress'.key)
  BY <1>1
<1>2. ASSUME NEW u \in RoundRec, GoOn(r, u), ~u.full, progress'.key \in Nat, progress'.key <= u.at,
             u.at \in Nat, \A d \in u.failed : progress'.key < d, ~u.blocked => u.failed = {}
      PROVE  Sound(round'[r], progress'.key)
  <2>1. round'[r] = NextDate(u)
    BY <1>2 DEF GoOn
  <2> QED BY <1>2, <2>1, SoundNext
<1>3. ASSUME NEW pc \in RoundPc, Goto(r, pc)
      PROVE  round'[r] = [s EXCEPT !.pc = pc]
  BY <1>3, <1>s DEF Goto
<1>4. CASE PlanRound(r)
  <2>1. progress'.key = key /\ s.pc = "plan"
    BY <1>4, <1>s DEF PlanRound, dataVars, At
  <2>2. CASE Goto(r, "release") \/ Goto(r, "upToDate")
    <3>1. round'[r] = [s EXCEPT !.pc = "release"] \/ round'[r] = [s EXCEPT !.pc = "upToDate"]
      BY <1>3, <2>2 DEF RoundPc
    <3> QED BY <1>0, <2>1, <3>1 DEF Sound, RoundRec
  <2>3. CASE ~(Goto(r, "release") \/ Goto(r, "upToDate"))
    <3>1. PICK d \in LastDone(r) :
            round' = [round EXCEPT ![r].start = d + 1, ![r].at = d + 1, ![r].pc = "mark"]
      BY <1>4, <2>3 DEF PlanRound
    <3>2. round'[r] = [s EXCEPT !.start = d + 1, !.at = d + 1, !.pc = "mark"]
      BY <3>1, <1>s
    <3>3. d \in Nat /\ key < d + 1
      <4>1. CASE Resumable
        BY <1>0, <1>s, <3>1, <4>1 DEF LastDone
      <4>2. CASE ~Resumable
        <5>1. key = 0
          BY <1>s, <4>2 DEF KeyRuns, Resumable
        <5>2. d \in 0 .. LastDate
          BY <3>1, <4>2 DEF LastDone, Latest
        <5> QED BY <5>1, <5>2
      <4> QED BY <4>1, <4>2
    <3> QED BY <1>0, <2>1, <3>2, <3>3 DEF Sound, RoundRec
  <2> QED BY <2>2, <2>3
<1>5. CASE UpToDate(r)
  <2>1. round'[r] = [s EXCEPT !.pc = "release"] /\ progress'.key = 0
    BY <1>3, <1>5 DEF UpToDate, Complete, RoundPc
  <2> QED BY <1>0, <1>5, <1>s, <2>1 DEF UpToDate, At, Sound, RoundRec
<1>6. CASE MarkRunning(r)
  <2>1. /\ round'[r] = [s EXCEPT !.pc = IF s.full THEN "persist" ELSE "fetch"]
        /\ progress'.key = key /\ s.pc = "mark"
    BY <1>0, <1>3, <1>6, <1>s DEF MarkRunning, RoundPc, At
  <2> QED BY <1>0, <2>1 DEF Sound, RoundRec
<1>7. CASE Fetch(r)
  <2>0. progress'.key = key /\ s.pc = "fetch" /\ ~s.full /\ s.at \in Nat /\ key < s.at
        /\ (~s.blocked => s.failed = {})
    BY <1>0, <1>7, <1>s DEF Fetch, At, Sound, RoundRec
  <2>1. CASE GoOn(r, s)
    BY <1>0, <1>2, <2>0, <2>1 DEF Sound
  <2>2. CASE Goto(r, "advance") /\ CheckpointDue(s)
    <3>1. round'[r] = [s EXCEPT !.pc = "advance"] /\ ~s.blocked
      BY <1>3, <2>2 DEF RoundPc, CheckpointDue
    <3> QED BY <1>0, <2>0, <3>1 DEF Sound, RoundRec
  <2>3. CASE Goto(r, "refetch")
    <3>1. round'[r] = [s EXCEPT !.pc = "refetch"]
      BY <1>3, <2>3 DEF RoundPc
    <3> QED BY <1>0, <2>0, <3>1 DEF Sound, RoundRec
  <2> QED BY <1>7, <1>s, <2>1, <2>2, <2>3 DEF Fetch
<1>8. CASE Refetch(r)
  <2>0. progress'.key = key /\ s.pc = "refetch" /\ ~s.full /\ s.at \in Date /\ s.at \in Nat
        /\ key < s.at /\ (~s.blocked => s.failed = {})
    BY <1>0, <1>8, <1>s, Dates DEF Refetch, At, Sound, Placed
  <2>1. CASE GoOn(r, s)
    BY <1>0, <1>2, <2>0, <2>1 DEF Sound
  <2> DEFINE v == [s EXCEPT !.failed = @ \cup {s.at}]
  <2>2. /\ v \in RoundRec /\ v.failed = s.failed \cup {s.at} /\ v.at = s.at /\ v.full = s.full
        /\ v.blocked = s.blocked /\ v.pc = s.pc
    BY <1>0, <2>0 DEF RoundRec
  <2>3. \A d \in v.failed : key < d
    BY <1>0, <2>0, <2>2 DEF Sound
  <2> HIDE DEF v
  <2>4. CASE GoOn(r, [v EXCEPT !.blocked = TRUE])
    <3> DEFINE u == [v EXCEPT !.blocked = TRUE]
    <3>1. /\ u \in RoundRec /\ u.failed = v.failed /\ u.at = v.at /\ u.full = v.full /\ u.blocked
      BY <2>2 DEF RoundRec
    <3> HIDE DEF u
    <3>2. GoOn(r, u)
      BY <2>4 DEF u
    <3> QED BY <1>0, <1>2, <2>0, <2>2, <2>3, <3>1, <3>2
  <2>5. CASE ~s.blocked /\ round' = [round EXCEPT ![r] = [v EXCEPT !.pc = "block"]]
    <3>1. round'[r] = [v EXCEPT !.pc = "block"]
      BY <2>5
    <3> QED BY <1>0, <2>0, <2>2, <2>3, <2>5, <3>1 DEF Sound, RoundRec
  <2> QED BY <1>8, <1>s, <2>1, <2>4, <2>5 DEF Refetch, v
<1>9. CASE Advance(r)
  <2>0. s.pc = "advance" /\ ~s.full /\ s.failed = {} /\ s.at \in Nat /\ key < s.at
    BY <1>0, <1>9, <1>s DEF Advance, At, Sound, RoundRec
  <2>1. CASE UpdateProgress(s.at) /\ GoOn(r, s)
    <3>1. progress'.key = s.at
      BY <2>1 DEF UpdateProgress
    <3>2. progress'.key \in Nat /\ progress'.key <= s.at /\ \A d \in s.failed : progress'.key < d
      BY <2>0, <3>1
    <3>3. s \in RoundRec /\ GoOn(r, s)
      BY <1>0, <2>1
    <3> QED BY <1>2, <2>0, <3>2, <3>3
  <2>2. CASE Goto(r, "refetch") /\ UNCHANGED progress
    <3>1. round'[r] = [s EXCEPT !.pc = "refetch"] /\ progress'.key = key
      BY <1>3, <1>s, <2>2 DEF RoundPc
    <3> QED BY <1>0, <2>0, <3>1 DEF Sound, RoundRec
  <2> QED BY <1>9, <1>s, <2>1, <2>2 DEF Advance
<1>10. CASE Block(r)
  <2>0. s.pc = "block" /\ ~s.full /\ s.failed = {s.at} /\ s.at \in Nat /\ 0 < s.at
    BY <1>0, <1>10, <1>s DEF Block, At, Sound
  <2> DEFINE u == [s EXCEPT !.blocked = TRUE]
  <2>1. u \in RoundRec /\ u.failed = {s.at} /\ u.at = s.at /\ ~u.full /\ u.blocked
    BY <1>0, <2>0 DEF RoundRec
  <2>2. progress'.key = s.at - 1 /\ GoOn(r, u)
    BY <1>10, <1>s DEF Block, UpdateProgress
  <2> HIDE DEF u
  <2> QED BY <1>2, <2>0, <2>1, <2>2
<1>11. CASE PersistRange(r)
  <2>1. s.pc = "persist" /\ s.full /\ (round'[r] = [s EXCEPT !.pc = "cover"]
          \/ round'[r] = [s EXCEPT !.at = s.at + 1])
    BY <1>0, <1>11, <1>s DEF PersistRange, At, Sound, Goto
  <2> QED BY <1>0, <2>1 DEF Sound, RoundRec
<1>12. CASE Cover(r)
  <2>1. s.full /\ round'[r].full = s.full /\ round'[r].pc = "enqueue"
    BY <1>0, <1>12, <1>s DEF Cover, At, Sound, RoundRec
  <2> QED BY <2>1 DEF Sound
<1>13. CASE AdvanceAll(r)
  <2>1. s.full /\ round'[r] = [s EXCEPT !.pc = "settle"]
    BY <1>0, <1>3, <1>13, <1>s DEF AdvanceAll, At, Sound, RoundPc
  <2> QED BY <1>0, <2>1 DEF Sound, RoundRec
<1>14. CASE FindRow(r)
  <2>1. PICK n : round'[r] = [s EXCEPT !.pc = "write", !.found = n]
    BY <1>14, <1>s DEF FindRow
  <2>2. s.pc = "enqueue" /\ progress'.key = key
    BY <1>14, <1>s DEF FindRow, At, dataVars
  <2> QED BY <1>0, <2>1, <2>2 DEF Sound, RoundRec
<1>15. CASE WriteRow(r) \/ EnqueueFails(r)
  <2>1. PICK d \in Date : round'[r] = [s EXCEPT !.failed = s.failed \ {d}, !.pc = "enqueue", !.found = 0]
    BY <1>15, <1>s DEF WriteRow, EnqueueFails, Queued
  <2>2. s.pc \in {"enqueue", "write"} /\ progress'.key = key
    BY <1>15, <1>s DEF WriteRow, EnqueueFails, At, dataVars
  <2> QED BY <1>0, <2>1, <2>2 DEF Sound, RoundRec
<1>16. CASE AllQueued(r)
  <2>1. /\ round'[r] = [s EXCEPT !.pc = IF s.full THEN "advanceAll" ELSE "settle"]
        /\ s.pc = "enqueue" /\ progress'.key = key
    BY <1>0, <1>3, <1>16, <1>s DEF AllQueued, At, RoundPc, dataVars
  <2> QED BY <1>0, <2>1 DEF Sound, RoundRec
<1>17. CASE Settle(r)
  <2>1. round'[r] = [s EXCEPT !.pc = "log"] /\ s.pc = "settle"
    BY <1>3, <1>17, <1>s DEF Settle, At, RoundPc
  <2>2. progress'.key = key \/ progress'.key = 0
    BY <1>17, <1>s DEF Settle, Complete
  <2> QED BY <1>0, <2>1, <2>2 DEF Sound, RoundRec
<1>18. CASE Log(r)
  <2>1. round'[r] = [s EXCEPT !.pc = "release"] /\ s.pc = "log" /\ progress'.key = key
    BY <1>3, <1>18, <1>s DEF Log, At, RoundPc
  <2> QED BY <1>0, <2>1 DEF Sound, RoundRec
<1>19. CASE EndRound(r) \/ CrashRound(r)
  <2>1. round'[r] = IdleRound
    BY <1>19 DEF EndRound, CrashRound
  <2> QED BY <2>1 DEF Sound, IdleRound
<1>20. CASE RoundThrows(r)
  <2>1. round'[r].failed = {} /\ round'[r].pc \in {"release", "plan"}
    BY <1>20 DEF RoundThrows, Throw, IdleRound
  <2> QED BY <2>1 DEF Sound
<1> QED BY <1>4, <1>5, <1>6, <1>7, <1>8, <1>9, <1>10, <1>11, <1>12, <1>13, <1>14, <1>15, <1>16,
           <1>17, <1>18, <1>19, <1>20 DEF RoundStep

LEMMA SolidStep ==
  ASSUME Typed, Solid, [Next]_vars
  PROVE  Solid'
<1> USE TypedParts
<1>0. KeyRuns'
  BY KeyRunsStep DEF Solid
<1>1. overlapped => overlapped'
  BY DEF Next, vars, StartRound, RoundStep, PlanRound, UpToDate, MarkRunning, Fetch, Refetch,
     Advance, Block, PersistRange, Cover, AdvanceAll, FindRow, WriteRow, AllQueued, Settle, Log,
     EndRound, EnqueueFails, RoundThrows, CrashRound, RoundOnly, RetryStep, StartPass, NextRow, Attempt,
     Verify, Fail, EndPass, PassThrows, CrashPass, RetryOnly, DayPasses, ResetExhausted,
     RoundLeaseExpires, RetryLeaseExpires
<1> SUFFICES ASSUME ~overlapped'
             PROVE  OneAtWork' /\ \A r \in Round : Sound(round'[r], progress'.key)
  BY <1>0 DEF Solid
<1>2. KeyRuns /\ OneAtWork /\ \A r \in Round : Sound(round[r], progress.key)
  BY <1>1 DEF Solid
<1>3. ASSUME NEW r \in Round, StartRound(r)
      PROVE  OneAtWork' /\ \A q \in Round : Sound(round'[q], progress'.key)
  <2>1. \A q \in Round \ {r} : ~InRound(q) /\ round'[q] = round[q]
    BY <1>3 DEF StartRound
  <2>2. round'[r].failed = {} /\ round'[r].pc = "plan" /\ progress' = progress
    BY <1>3 DEF StartRound, IdleRound, dataVars
  <2>3. OneAtWork'
    BY <2>1 DEF OneAtWork, InRound
  <2>4. Sound(round'[r], progress'.key)
    BY <2>2 DEF Sound
  <2> QED BY <1>2, <2>1, <2>2, <2>3, <2>4
<1>4. ASSUME NEW r \in Round, RoundStep(r) \/ EnqueueFails(r) \/ RoundThrows(r) \/ CrashRound(r)
      PROVE  OneAtWork' /\ \A q \in Round : Sound(round'[q], progress'.key)
  <2>1. InRound(r) /\ \A q \in Round \ {r} : round'[q] = round[q]
    BY <1>4, RoundWorks
  <2>2. \A q \in Round \ {r} : ~InRound(q)
    BY <1>2, <2>1 DEF OneAtWork
  <2>3. OneAtWork'
    BY <2>1, <2>2 DEF OneAtWork, InRound
  <2>4. Sound(round'[r], progress'.key)
    BY <1>2, <1>4, SoundRound
  <2>5. ASSUME NEW q \in Round \ {r} PROVE Sound(round'[q], progress'.key)
    BY <1>2, <2>1, <2>2 DEF Sound, InRound
  <2> QED BY <2>3, <2>4, <2>5
<1>5. CASE UNCHANGED <<round, progress>>
  BY <1>2, <1>5 DEF OneAtWork, InRound
<1>6. \/ \E r \in Round : StartRound(r) \/ RoundStep(r) \/ EnqueueFails(r) \/ RoundThrows(r)
                         \/ CrashRound(r)
      \/ UNCHANGED <<round, progress>>
  BY DEF Next, vars, dataVars, roundVars, RetryStep, StartPass, NextRow, Attempt, Verify, Fail,
     EndPass, PassThrows, CrashPass, RetryOnly, DayPasses, ResetExhausted, RoundLeaseExpires,
     RetryLeaseExpires
<1> QED BY <1>3, <1>4, <1>5, <1>6

\* Rounds that do not overlap keep the checkpoint before the first date that failed, for any
\* interval of the progress writes and whatever succeeds after that date.
THEOREM CheckpointBeforeGaps == Spec => []CheckpointIsSolid
<1>1. Spec => []Typed
  BY TypedInit, TypedStep, PTL DEF Spec
<1>2. Init => Solid
  BY DEF Init, Solid, KeyRuns, OneAtWork, InRound, Sound, IdleRound
<1>3. Solid => CheckpointIsSolid
  BY DEF Solid, Sound, CheckpointIsSolid
<1> QED BY <1>1, <1>2, <1>3, SolidStep, PTL DEF Spec
-----------------------------------------------------------------------------
(* No date is passed unseen *)

\* Dates that were written, have a row in the retry queue, or were left behind.
KnownDates ==
  {d \in Date : table[d] # "none" \/ DOMAIN queue[d] # {} \/ d \in dropped}

TouchedDates == {d \in Date : table[d] # "none" \/ DOMAIN queue[d] # {}}
PassedDates  == {d \in Date : Passed(d)}

Loop == {"mark", "fetch", "refetch", "advance", "block"}

\* The dates a round answers for: InHand, as a function of its state.
Hand(s) ==
  s.failed \cup
  (IF ~s.full /\ s.pc \in Loop THEN s.at .. s.target
   ELSE IF s.full /\ s.pc \in {"mark", "persist", "cover"} THEN 1 .. s.target ELSE {})

\* What a round has left behind its loop, or its check of the coverage, is known or failed.
Accounted(s, known) ==
  /\ ~s.full /\ s.pc \in Loop => \A d \in Date : d < s.at => d \in known \cup s.failed
  /\ s.pc = "advance" => s.at \in known
  /\ s.pc \in {"upToDate", "enqueue", "write", "advanceAll", "settle", "log"} =>
       \A d \in Date : d <= s.target => d \in known \cup s.failed
  /\ s.pc \in {"persist", "cover", "advanceAll", "settle", "log", "release"} => s.failed = {}

\* The row found for the date that is queued next exists.
FoundRow(s) ==
  s.pc = "write" /\ s.found > 0 =>
    \A d \in s.failed : (\A e \in s.failed : d <= e) => s.found \in DOMAIN queue[d]

\* A round knows every date the database has heard of.
InTime ==
  /\ progress.key <= today /\ \A d \in TouchedDates : d <= today
  /\ \A r \in Round : InRound(r) =>
       /\ round[r].target <= today /\ progress.key <= round[r].target
       /\ \A d \in round[r].failed : d <= round[r].target
       /\ \A d \in TouchedDates : d <= round[r].target

\* Rows are queued in the order of their dates, when nothing before them is open.
Ordered == \A e \in Date : DOMAIN queue[e] # {} => 1 .. e \subseteq KnownDates

\* A round without dates in hand has nothing to add: what is passed is known.
GapsOf(r) ==
  /\ Accounted(round[r], KnownDates) /\ FoundRow(round[r])
  /\ round[r].pc \in {"plan", "release"} => PassedDates \subseteq KnownDates

NoRoundGaps == (\A r \in Round : ~InRound(r)) => PassedDates \subseteq KnownDates

Gaps ==
  ~overlapped =>
    /\ InTime /\ Ordered /\ NoRoundGaps
    /\ \A r \in Round : InRound(r) => GapsOf(r)

\* Rows of the retry queue are never deleted, and only WriteRow adds one.
LEMMA QueueKept ==
  ASSUME Typed, [Next]_vars
  PROVE  /\ \A d \in Date : DOMAIN queue[d] \subseteq DOMAIN queue'[d]
         /\ (\E r \in Round : WriteRow(r)) \/ \A d \in Date : DOMAIN queue'[d] = DOMAIN queue[d]
<1> USE TypedParts
<1>a. ASSUME NEW e, NEW n, NEW st \in Open \cup {"SUCCEEDED", "EXHAUSTED"},
             queue' = [queue EXCEPT ![e][n].status = st]
      PROVE  \A d \in Date : DOMAIN queue'[d] = DOMAIN queue[d]
  <2> SUFFICES ASSUME NEW d \in Date PROVE DOMAIN queue'[d] = DOMAIN queue[d]
    OBVIOUS
  <2>1. CASE d = e
    <3>1. queue'[d] = [queue[d] EXCEPT ![n].status = st]
      BY <1>a, <2>1
    <3> QED BY <3>1, StatusWritten
  <2> QED BY <1>a, <2>1
<1>c. ASSUME NEW e, NEW n, NEW x \in RowState, queue' = [queue EXCEPT ![e][n] = x]
      PROVE  \A d \in Date : DOMAIN queue'[d] = DOMAIN queue[d]
  <2> SUFFICES ASSUME NEW d \in Date PROVE DOMAIN queue'[d] = DOMAIN queue[d]
    OBVIOUS
  <2>1. CASE d = e
    <3>1. queue'[d] = [queue[d] EXCEPT ![n] = x]
      BY <1>c, <2>1
    <3> QED BY <3>1, RowWritten
  <2> QED BY <1>c, <2>1
<1>1. ASSUME NEW t \in Retrier, NextRow(t) \/ Verify(t)
      PROVE  \A d \in Date : DOMAIN queue'[d] = DOMAIN queue[d]
  <2>1. PICK w : SetStatus(w, "RETRYING") \/ SetStatus(w, "SUCCEEDED") \/ UNCHANGED queue
    BY <1>1 DEF NextRow, Verify
  <2> QED BY <1>a, <2>1 DEF SetStatus, Open
<1>b. ASSUME NEW t \in Retrier, Fail(t)
      PROVE  \A d \in Date : DOMAIN queue'[d] = DOMAIN queue[d]
  <2>1. PICK w \in retrier[t].row :
          queue' = [queue EXCEPT ![w.date][w.n] =
            [count |-> Counted(w),
             status |-> IF Counted(w) >= MaxRetries THEN "EXHAUSTED" ELSE "PENDING"]]
    BY <1>b DEF Fail
  <2>2. [count |-> Counted(w),
         status |-> IF Counted(w) >= MaxRetries THEN "EXHAUSTED" ELSE "PENDING"] \in RowState
    BY DEF Counted, RowState, Open, PassRec, RowRead
  <2> QED BY <2>1, <2>2, <1>c
<1>2. CASE ResetExhausted
  BY <1>2 DEF ResetExhausted
<1>3. ASSUME NEW r \in Round, WriteRow(r)
      PROVE  \A d \in Date : DOMAIN queue[d] \subseteq DOMAIN queue'[d]
  <2> DEFINE x == [status |-> "PENDING", count |-> 0]
  <2>1. x \in RowState
    BY DEF RowState, Open
  <2>2. PICK e \in Date :
          queue' = IF round[r].found > 0
                   THEN [queue EXCEPT ![e][round[r].found].status = "PENDING"]
                   ELSE [queue EXCEPT ![e] = Append(@, x)]
    BY <1>3 DEF WriteRow
  <2>3. CASE round[r].found > 0
    BY <1>a, <2>2, <2>3 DEF Open
  <2>4. CASE ~(round[r].found > 0)
    <3>1. DOMAIN queue[e] \subseteq DOMAIN Append(queue[e], x)
      BY <2>1, RowAppended
    <3>2. queue' = [queue EXCEPT ![e] = Append(queue[e], x)]
      BY <2>2, <2>4
    <3> QED BY <3>1, <3>2
  <2> QED BY <2>3, <2>4
<1>4. CASE UNCHANGED queue
  BY <1>4
<1>5. \/ \E t \in Retrier : NextRow(t) \/ Verify(t) \/ Fail(t)
      \/ \E r \in Round : WriteRow(r)
      \/ ResetExhausted \/ UNCHANGED queue
  BY DEF Next, vars, dataVars, StartRound, RoundStep, PlanRound, UpToDate, MarkRunning, Fetch, Refetch,
     Advance, Block, PersistRange, Cover, AdvanceAll, FindRow, AllQueued, Settle, Log, EndRound,
     EnqueueFails, RoundThrows, CrashRound, RetryStep, StartPass, Attempt, EndPass, PassThrows,
     CrashPass, DayPasses, RoundLeaseExpires, RetryLeaseExpires
<1> QED BY <1>1, <1>b, <1>2, <1>3, <1>4, <1>5

\* Once known, a date stays so.
LEMMA KnownStays ==
  ASSUME Typed, [Next]_vars
  PROVE  KnownDates \subseteq KnownDates'
<1>1. \A d \in Date : table[d] # "none" => table'[d] # "none"
  BY StaysWritten
<1>2. \A d \in Date : DOMAIN queue[d] # {} => DOMAIN queue'[d] # {}
  BY QueueKept
<1>3. dropped \subseteq dropped'
  BY DEF Next, vars, StartRound, RoundStep, PlanRound, UpToDate, MarkRunning, Fetch, Refetch,
     Advance, Block, PersistRange, Cover, AdvanceAll, FindRow, WriteRow, AllQueued, Settle, Log,
     EndRound, EnqueueFails, RoundThrows, CrashRound, Throw, RetryStep, StartPass, NextRow, Attempt,
     Verify, Fail, EndPass, PassThrows, CrashPass, RetryOnly, DayPasses, ResetExhausted,
     RoundLeaseExpires, RetryLeaseExpires
<1> QED BY <1>1, <1>2, <1>3 DEF KnownDates

\* The rows a pass has read are rows of the queue.
RowsExist ==
  \A t \in Retrier : \A w \in retrier[t].todo \cup retrier[t].row :
    w.date \in Date /\ w.n \in DOMAIN queue[w.date]

LEMMA RowsExistStep ==
  ASSUME Typed, RowsExist, [Next]_vars
  PROVE  RowsExist'
<1> USE TypedParts
<1>0. \A d \in Date : DOMAIN queue[d] \subseteq DOMAIN queue'[d]
  BY QueueKept
<1>1. ASSUME NEW t \in Retrier,
             retrier'[t].todo \cup retrier'[t].row \subseteq retrier[t].todo \cup retrier[t].row
      PROVE  \A w \in retrier'[t].todo \cup retrier'[t].row :
               w.date \in Date /\ w.n \in DOMAIN queue'[w.date]
  BY <1>0, <1>1 DEF RowsExist
<1>2. ASSUME NEW t \in Retrier, StartPass(t)
      PROVE  \A w \in retrier'[t].todo \cup retrier'[t].row :
               w.date \in Date /\ w.n \in DOMAIN queue'[w.date]
  <2>1. retrier'[t].todo = Pending /\ retrier'[t].row = retrier[t].row
    BY <1>2 DEF StartPass
  <2>2. \A w \in Pending : w.date \in Date /\ w.n \in DOMAIN queue[w.date]
    BY DEF Pending
  <2> QED BY <1>0, <2>1, <2>2 DEF RowsExist
<1>3. ASSUME NEW t \in Retrier, StartPass(t) PROVE \A q \in Retrier \ {t} : retrier'[q] = retrier[q]
  BY <1>3 DEF StartPass
<1>4. ASSUME NEW t \in Retrier, NextRow(t) \/ Attempt(t) \/ Verify(t) \/ Fail(t) \/ EndPass(t)
               \/ PassThrows(t) \/ CrashPass(t)
      PROVE  retrier'[t].todo \cup retrier'[t].row \subseteq retrier[t].todo \cup retrier[t].row
  <2>0. retrier[t] \in PassRec
    BY <1>4
  <2>1. CASE NextRow(t)
    <3>1. PICK w \in retrier[t].todo :
            retrier'[t] = [retrier[t] EXCEPT !.pc = "attempt", !.todo = @ \ {w}, !.row = {w}]
      BY <2>1 DEF NextRow
    <3> QED BY <2>0, <3>1 DEF PassRec
  <2>2. CASE Attempt(t) \/ Verify(t) \/ Fail(t)
    <3>1. \/ \E pc : retrier'[t] = [retrier[t] EXCEPT !.pc = pc]
          \/ retrier'[t] = [retrier[t] EXCEPT !.pc = "next", !.row = {}]
      BY <2>2 DEF Attempt, Verify, Fail, RetryGoto
    <3> QED BY <2>0, <3>1 DEF PassRec
  <2>3. CASE EndPass(t) \/ PassThrows(t) \/ CrashPass(t)
    BY <2>3 DEF EndPass, PassThrows, CrashPass, EndOfPass
  <2> QED BY <1>4, <2>1, <2>2, <2>3
<1>5. CASE \E t \in Retrier : RetryStep(t) \/ PassThrows(t) \/ CrashPass(t)
  <2>1. PICK t \in Retrier : RetryStep(t) \/ PassThrows(t) \/ CrashPass(t)
    BY <1>5
  <2>2. \A q \in Retrier \ {t} : retrier'[q] = retrier[q]
    BY <1>3, <2>1, PassWorks DEF RetryStep
  <2>3. \A q \in Retrier \ {t} : \A w \in retrier'[q].todo \cup retrier'[q].row :
          w.date \in Date /\ w.n \in DOMAIN queue'[w.date]
    BY <1>1, <2>2
  <2>4. \A w \in retrier'[t].todo \cup retrier'[t].row :
          w.date \in Date /\ w.n \in DOMAIN queue'[w.date]
    BY <1>1, <1>2, <1>4, <2>1 DEF RetryStep
  <2> QED BY <2>3, <2>4 DEF RowsExist
<1>6. CASE UNCHANGED retrier
  BY <1>1, <1>6 DEF RowsExist
<1>7. UNCHANGED retrier \/ \E t \in Retrier : RetryStep(t) \/ PassThrows(t) \/ CrashPass(t)
  BY DEF Next, vars, retryVars, StartRound, RoundStep, PlanRound, UpToDate, MarkRunning, Fetch, Refetch,
     Advance, Block, PersistRange, Cover, AdvanceAll, FindRow, WriteRow, AllQueued, Settle, Log,
     EndRound, EnqueueFails, RoundThrows, CrashRound, RoundOnly, DayPasses, ResetExhausted,
     RoundLeaseExpires, RetryLeaseExpires
<1> QED BY <1>5, <1>6, <1>7

\* What a step of a round may write: nothing after the date it was planned for.
LEMMA RoundWrites ==
  ASSUME Typed, NEW r \in Round, RoundStep(r) \/ EnqueueFails(r) \/ RoundThrows(r) \/ CrashRound(r),
         progress.key <= round[r].target, \A d \in round[r].failed : d <= round[r].target, InRound(r)
  PROVE  /\ today' = today
         /\ round'[r].pc # "idle" => round'[r].target = round[r].target
         /\ \A d \in round'[r].failed : d <= round[r].target
         /\ progress'.key <= round[r].target
         /\ \A d \in TouchedDates' : d \in TouchedDates \/ d <= round[r].target
<1> USE TypedParts
<1> DEFINE s == round[r]
<1>0. /\ s \in RoundRec /\ Placed(s) /\ s.target \in Date /\ s.target \in Nat
      /\ progress \in [status : {"IDLE", "RUNNING", "COMPLETED"}, key : 0 .. LastDate]
      /\ \A d \in s.failed : d \in Nat
  BY DEF Typed, TypeOK, RoundRec, Date, Placed, InRound
<1>s. s = round[r]
  OBVIOUS
<1> HIDE DEF s
<1>1. today' = today
  BY DEF RoundStep, PlanRound, UpToDate, MarkRunning, Fetch, Refetch, Advance, Block, PersistRange,
     Cover, AdvanceAll, FindRow, WriteRow, AllQueued, Settle, Log, EndRound, EnqueueFails,
     RoundThrows, CrashRound, RoundOnly
<1>2. ASSUME NEW u \in RoundRec, GoOn(r, u), u.target = s.target, \A d \in u.failed : d <= s.target
      PROVE  round'[r].target = s.target /\ \A d \in round'[r].failed : d <= s.target
  BY <1>2 DEF GoOn, NextDate, RoundRec
<1>3. ASSUME NEW pc, Goto(r, pc)
      PROVE  round'[r].target = s.target /\ \A d \in round'[r].failed : d <= s.target
  <2>1. round'[r] = [s EXCEPT !.pc = pc]
    BY <1>3, <1>s DEF Goto
  <2> QED BY <1>0, <1>s, <2>1 DEF RoundRec
<1>4. /\ round'[r].pc # "idle" => round'[r].target = s.target
      /\ \A d \in round'[r].failed : d <= s.target
  <2>1. CASE PlanRound(r)
    <3>1. \/ \E pc : Goto(r, pc)
          \/ \E d : round'[r] = [s EXCEPT !.start = d + 1, !.at = d + 1, !.pc = "mark"]
      BY <2>1, <1>s DEF PlanRound
    <3> QED BY <1>0, <1>3, <1>s, <3>1 DEF RoundRec
  <2>2. CASE UpToDate(r) \/ MarkRunning(r) \/ AdvanceAll(r) \/ AllQueued(r) \/ Settle(r) \/ Log(r)
    BY <1>3, <2>2 DEF UpToDate, MarkRunning, AdvanceAll, AllQueued, Settle, Log
  <2>3. CASE Fetch(r) \/ Advance(r)
    <3>1. GoOn(r, s) \/ \E pc : Goto(r, pc)
      BY <2>3, <1>s DEF Fetch, Advance
    <3> QED BY <1>0, <1>2, <1>3, <1>s, <3>1
  <2>4. CASE Refetch(r)
    <3> DEFINE v == [s EXCEPT !.failed = @ \cup {s.at}]
    <3>1. s.at \in Date /\ s.at <= s.target
      BY <1>0, <1>s, <2>4 DEF Refetch, At, Placed
    <3>2. v \in RoundRec /\ v.target = s.target /\ v.failed = s.failed \cup {s.at}
      BY <1>0, <3>1 DEF RoundRec
    <3>3. \A d \in v.failed : d <= s.target
      BY <1>s, <3>1, <3>2
    <3> HIDE DEF v
    <3>4. CASE GoOn(r, s)
      BY <1>0, <1>2, <1>s, <3>4
    <3>5. CASE GoOn(r, [v EXCEPT !.blocked = TRUE])
      <4> DEFINE u == [v EXCEPT !.blocked = TRUE]
      <4>1. u \in RoundRec /\ u.target = s.target /\ u.failed = v.failed
        BY <3>2 DEF RoundRec
      <4>2. GoOn(r, u)
        BY <3>5
      <4> HIDE DEF u
      <4> QED BY <1>2, <3>3, <4>1, <4>2
    <3>6. CASE round' = [round EXCEPT ![r] = [v EXCEPT !.pc = "block"]]
      <4>1. round'[r] = [v EXCEPT !.pc = "block"]
        BY <3>6
      <4> QED BY <3>2, <3>3, <4>1 DEF RoundRec
    <3> QED BY <2>4, <1>s, <3>4, <3>5, <3>6 DEF Refetch, v
  <2>5. CASE Block(r)
    <3> DEFINE u == [s EXCEPT !.blocked = TRUE]
    <3>1. u \in RoundRec /\ u.target = s.target /\ u.failed = s.failed
      BY <1>0 DEF RoundRec
    <3>2. GoOn(r, u)
      BY <2>5, <1>s DEF Block
    <3> HIDE DEF u
    <3> QED BY <1>2, <1>s, <3>1, <3>2
  <2>6. CASE PersistRange(r)
    <3>1. Goto(r, "cover") \/ round'[r] = [s EXCEPT !.at = @ + 1]
      BY <2>6, <1>s DEF PersistRange
    <3> QED BY <1>0, <1>3, <1>s, <3>1 DEF RoundRec
  <2>7. CASE Cover(r)
    <3> DEFINE m == {d \in 1 .. s.target : table[d] # "rows"}
    <3>1. round'[r] = [s EXCEPT !.pc = "enqueue", !.failed = m, !.blocked = m # {}]
      BY <2>7, <1>s DEF Cover
    <3>2. \A d \in m : d <= s.target
      BY <1>0
    <3> HIDE DEF m
    <3> QED BY <1>0, <3>1, <3>2 DEF RoundRec
  <2>8. CASE FindRow(r)
    <3>1. PICK n : round'[r] = [s EXCEPT !.pc = "write", !.found = n]
      BY <2>8, <1>s DEF FindRow
    <3> QED BY <1>0, <1>s, <3>1 DEF RoundRec
  <2>9. CASE WriteRow(r) \/ EnqueueFails(r)
    <3>1. PICK d \in Date :
            round'[r] = [s EXCEPT !.failed = s.failed \ {d}, !.pc = "enqueue", !.found = 0]
      BY <2>9, <1>s DEF WriteRow, EnqueueFails, Queued
    <3> QED BY <1>0, <1>s, <3>1 DEF RoundRec
  <2>10. CASE EndRound(r) \/ CrashRound(r)
    BY <2>10 DEF EndRound, CrashRound, IdleRound
  <2>11. CASE RoundThrows(r)
    BY <2>11, <1>s DEF RoundThrows, Throw, IdleRound
  <2> QED BY <2>1, <2>2, <2>3, <2>4, <2>5, <2>6, <2>7, <2>8, <2>9, <2>10, <2>11 DEF RoundStep
<1>5. progress'.key <= s.target
  <2>1. CASE UNCHANGED progress \/ Complete \/ progress' = [progress EXCEPT !.status = "RUNNING"]
    <3>1. progress'.key \in {0, progress.key}
      BY <1>0, <2>1 DEF Complete
    <3> QED BY <1>0, <1>s, <3>1
  <2>2. CASE Advance(r) \/ Block(r) \/ AdvanceAll(r)
    <3>1. s.pc \in {"advance", "block"} => s.at \in Date /\ s.at \in Nat /\ s.at <= s.target
      BY <1>0, Dates DEF Placed
    <3>2. CASE Advance(r)
      <4>1. progress'.key = s.at \/ UNCHANGED progress
        BY <1>s, <3>2 DEF Advance, UpdateProgress
      <4> QED BY <1>s, <2>1, <3>1, <3>2, <4>1 DEF Advance, At
    <3>3. CASE Block(r)
      BY <1>0, <1>s, <3>1, <3>3 DEF Block, UpdateProgress, At
    <3>4. CASE AdvanceAll(r)
      BY <1>0, <1>s, <3>4 DEF AdvanceAll, UpdateProgress
    <3> QED BY <2>2, <3>2, <3>3, <3>4
  <2>3. \/ UNCHANGED progress \/ Complete \/ progress' = [progress EXCEPT !.status = "RUNNING"]
        \/ Advance(r) \/ Block(r) \/ AdvanceAll(r)
    BY DEF dataVars, RoundStep, PlanRound, UpToDate, MarkRunning, Fetch, Refetch,
     PersistRange, Cover, FindRow, WriteRow, AllQueued, Settle, Log,
     EndRound, EnqueueFails, RoundThrows, CrashRound
  <2> QED BY <2>1, <2>2, <2>3
<1>6. \A d \in TouchedDates' : d \in TouchedDates \/ d <= s.target
  <2>0. table \in [Date -> {"none", "rows", "blank"}]
    BY DEF Typed, TypeOK
  <2>1. CASE UNCHANGED <<table, queue>>
    BY <2>1 DEF TouchedDates
  <2>2. ASSUME NEW d, NEW what, d <= s.target, Write(d, what), UNCHANGED queue
        PROVE  \A e \in TouchedDates' : e \in TouchedDates \/ e <= s.target
    BY <2>0, <2>2 DEF Write, TouchedDates
  <2>3. CASE Fetch(r) \/ Refetch(r) \/ PersistRange(r)
    <3>1. s.pc \in {"fetch", "refetch"} => s.at \in Date /\ s.at \in Nat /\ s.at <= s.target
      BY <1>0, Dates DEF Placed
    <3>2. s.at \in 0 .. LastDate + 1
      BY <1>0 DEF RoundRec
    <3>3. UNCHANGED queue /\ (UNCHANGED table \/ Write(s.at, "rows") \/ Write(s.at, "blank"))
      BY <1>s, <2>3 DEF Fetch, Refetch, PersistRange
    <3>4. UNCHANGED table \/ s.at <= s.target
      BY <1>0, <1>s, <2>3, <3>1, <3>2 DEF Fetch, Refetch, PersistRange, At
    <3> QED BY <2>1, <2>2, <3>3, <3>4
  <2>4. CASE WriteRow(r)
    <3>1. PICK d \in Date : d \in s.failed /\ \A e \in Date \ {d} : queue'[e] = queue[e]
      BY <1>s, <2>4 DEF WriteRow, First
    <3> QED BY <1>s, <2>4, <3>1 DEF WriteRow, TouchedDates
  <2>5. UNCHANGED <<table, queue>> \/ Fetch(r) \/ Refetch(r) \/ PersistRange(r) \/ WriteRow(r)
    BY DEF dataVars, RoundStep, PlanRound, UpToDate, MarkRunning, Advance, Block,
     Cover, AdvanceAll, FindRow, AllQueued, Settle, Log, EndRound, EnqueueFails, RoundThrows, CrashRound
  <2> QED BY <2>1, <2>3, <2>4, <2>5
<1> QED BY <1>1, <1>4, <1>5, <1>6, <1>s

\* Everything but the rounds: passes only write dates that have a row.
LEMMA OthersWrite ==
  ASSUME Typed, RowsExist, Verified, [Next]_vars,
         \A r \in Round : ~(StartRound(r) \/ RoundStep(r) \/ EnqueueFails(r) \/ RoundThrows(r) \/ CrashRound(r))
  PROVE  /\ UNCHANGED <<round, progress, dropped, overlapped>> /\ today' \in Date /\ today <= today'
         /\ \A d \in Date : DOMAIN queue'[d] = DOMAIN queue[d]
         /\ TouchedDates' = TouchedDates
         /\ \A d \in Date : Stored(d)' => Stored(d) \/ DOMAIN queue[d] # {}
<1> USE TypedParts
<1>1. UNCHANGED <<round, progress, dropped, overlapped>>
  BY DEF Next, vars, dataVars, roundVars, RetryStep, StartPass, NextRow, Attempt, Verify, Fail,
     EndPass, PassThrows, CrashPass, RetryOnly, DayPasses, ResetExhausted, RoundLeaseExpires,
     RetryLeaseExpires
<1>2. today' \in Date /\ today <= today'
  <2>1. today' = today \/ (today < LastDate /\ today' = today + 1)
    BY DEF Next, vars, RetryStep, StartPass, NextRow, Attempt, Verify, Fail,
       EndPass, PassThrows, CrashPass, RetryOnly, DayPasses, ResetExhausted, RoundLeaseExpires,
       RetryLeaseExpires
  <2> QED BY <2>1 DEF Date
<1>3. \A d \in Date : DOMAIN queue'[d] = DOMAIN queue[d]
  BY QueueKept DEF RoundStep
<1>4. \A d \in Date : table'[d] # table[d] => DOMAIN queue[d] # {}
  <2>1. CASE UNCHANGED table
    BY <2>1
  <2>2. ASSUME NEW t \in Retrier, Attempt(t)
        PROVE  \A d \in Date : table'[d] # table[d] => DOMAIN queue[d] # {}
    <3>1. PICK w \in retrier[t].row :
            UNCHANGED table \/ Write(w.date, "rows") \/ Write(w.date, "blank")
      BY <2>2 DEF Attempt
    <3>2. w.date \in Date /\ w.n \in DOMAIN queue[w.date]
      BY DEF RowsExist
    <3> QED BY <3>1, <3>2 DEF Write, Typed, TypeOK
  <2>3. UNCHANGED table \/ \E t \in Retrier : Attempt(t)
    BY DEF Next, vars, dataVars, RetryStep, StartPass, NextRow, Verify, Fail,
       EndPass, PassThrows, CrashPass, DayPasses, ResetExhausted, RoundLeaseExpires, RetryLeaseExpires
  <2> QED BY <2>1, <2>2, <2>3
<1>5. TouchedDates' = TouchedDates
  <2>1. \A d \in Date : table[d] # "none" => table'[d] # "none"
    BY StaysWritten
  <2> QED BY <1>3, <1>4, <2>1 DEF TouchedDates
<1>6. \A d \in Date : Stored(d)' => Stored(d) \/ DOMAIN queue[d] # {}
  BY <1>4 DEF Stored
<1> QED BY <1>1, <1>2, <1>3, <1>5, <1>6

LEMMA InTimeStep ==
  ASSUME Typed, OneAtWork, RowsExist, Verified, InTime, [Next]_vars, ~overlapped'
  PROVE  InTime'
<1> USE TypedParts
<1>0. /\ progress.key \in Nat /\ today \in Nat /\ \A d \in Date : d \in Nat
      /\ \A r \in Round : round[r].target \in Nat
  BY DEF Typed, TypeOK, Date, RoundRec
<1>1. ASSUME NEW r \in Round, StartRound(r) PROVE InTime'
  <2>1. \A q \in Round \ {r} : ~InRound(q) /\ round'[q] = round[q]
    BY <1>1 DEF StartRound
  <2>2. /\ round'[r].target = today /\ round'[r].failed = {}
        /\ UNCHANGED <<today, progress, table, queue>>
    BY <1>1 DEF StartRound, IdleRound, dataVars
  <2> QED BY <1>0, <2>1, <2>2 DEF InTime, InRound, TouchedDates
<1>2. ASSUME NEW r \in Round, RoundStep(r) \/ EnqueueFails(r) \/ RoundThrows(r) \/ CrashRound(r)
      PROVE  InTime'
  <2>1. InRound(r) /\ \A q \in Round \ {r} : ~InRound(q) /\ round'[q] = round[q]
    BY <1>2, RoundWorks DEF OneAtWork
  <2>2. round[r].target <= today /\ \A d \in TouchedDates : d <= round[r].target
    BY <2>1 DEF InTime
  <2>3. /\ today' = today
        /\ round'[r].pc # "idle" => round'[r].target = round[r].target
        /\ \A d \in round'[r].failed : d <= round[r].target
        /\ progress'.key <= round[r].target
        /\ \A d \in TouchedDates' : d \in TouchedDates \/ d <= round[r].target
    BY <1>2, <2>1, RoundWrites DEF InTime
  <2>4. \A d \in TouchedDates' : d \in Date /\ d <= round[r].target
    BY <2>2, <2>3 DEF TouchedDates
  <2>5. progress'.key \in Nat
    BY TypedStep DEF Typed, TypeOK
  <2>6. progress'.key <= today' /\ \A d \in TouchedDates' : d <= today'
    BY <1>0, <2>2, <2>3, <2>4, <2>5
  <2>7. ASSUME NEW q \in Round, InRound(q)'
        PROVE  /\ round'[q].target <= today' /\ progress'.key <= round'[q].target
               /\ \A d \in round'[q].failed : d <= round'[q].target
               /\ \A d \in TouchedDates' : d <= round'[q].target
    BY <2>1, <2>2, <2>3, <2>4, <2>7 DEF InRound
  <2> QED BY <2>6, <2>7 DEF InTime
<1>3. CASE \A r \in Round :
             ~(StartRound(r) \/ RoundStep(r) \/ EnqueueFails(r) \/ RoundThrows(r) \/ CrashRound(r))
  <2>1. /\ UNCHANGED <<round, progress>> /\ today' \in Date /\ today <= today'
        /\ TouchedDates' = TouchedDates
    BY <1>3, OthersWrite
  <2>2. \A d \in TouchedDates : d \in Nat
    BY <1>0 DEF TouchedDates
  <2> QED BY <1>0, <2>1, <2>2 DEF InTime, InRound
<1> QED BY <1>1, <1>2, <1>3

LEMMA AccountedStays ==
  ASSUME NEW s, NEW K, NEW L, K \subseteq L, Accounted(s, K)
  PROVE  Accounted(s, L)
BY DEF Accounted

LEMMA NextAccounted ==
  ASSUME NEW v \in RoundRec, ~v.full, v.at \in Nat, v.target \in Nat, NEW K,
         \A d \in Date : d <= v.at => d \in K \cup v.failed
  PROVE  Accounted(NextDate(v), K)
<1>0. \A d \in Date : d \in Nat
  BY DEF Date
<1>1. CASE v.at < v.target
  BY <1>0, <1>1 DEF NextDate, Accounted, RoundRec, Loop
<1>2. CASE ~(v.at < v.target)
  BY <1>0, <1>2 DEF NextDate, Accounted, RoundRec, Loop
<1> QED BY <1>1, <1>2

\* A date that is passed is not after the target of a round at work.
LEMMA PassedInTime ==
  ASSUME Typed, InTime, NEW r \in Round, InRound(r)
  PROVE  \A d \in PassedDates : d <= round[r].target
<1> SUFFICES ASSUME NEW d \in Date, Passed(d) PROVE d <= round[r].target
  BY DEF PassedDates
<1>0. /\ d \in Nat /\ \A e \in Date : e \in Nat
      /\ round[r].target \in Nat /\ progress.key \in Nat
  BY TypedParts DEF Typed, TypeOK, RoundRec, Date
<1>1. CASE Resumable
  BY <1>0, <1>1 DEF Passed, InTime
<1>2. CASE ~Resumable
  <2>1. PICK e \in Date : d <= e /\ Stored(e)
    BY <1>2 DEF Passed
  <2>2. e \in TouchedDates
    BY <2>1 DEF Stored, TouchedDates
  <2> QED BY <1>0, <2>1, <2>2 DEF InTime
<1> QED BY <1>1, <1>2

\* What a round has not left behind it has in hand.
LEMMA InHandOrKnown ==
  ASSUME NEW s \in RoundRec, Placed(s), NEW K, Accounted(s, K),
         s.pc \in {"fetch", "refetch", "advance", "block"} => ~s.full,
         s.pc \in {"persist", "cover", "advanceAll"} => s.full,
         s.pc \notin {"idle", "plan", "release"}, NEW d \in Date, d <= s.target
  PROVE  d \in K \cup Hand(s)
<1>0. d \in Nat /\ 1 <= d /\ s.at \in Nat /\ s.target \in Nat
  BY IndexDailySyncAssumption DEF Date, RoundRec
<1>1. CASE ~s.full /\ s.pc \in Loop
  <2>1. s.at \in Nat
    BY IndexDailySyncAssumption DEF RoundRec
  <2> QED BY <1>0, <1>1, <2>1 DEF Accounted, Hand
<1>2. CASE s.full /\ s.pc \in {"mark", "persist", "cover"}
  BY <1>0, <1>2 DEF Hand
<1>3. CASE s.pc \in {"upToDate", "enqueue", "write", "advanceAll", "settle", "log"}
  BY <1>3 DEF Accounted, Hand
<1> QED BY <1>1, <1>2, <1>3 DEF RoundRec, RoundPc, Loop

\* Wherever a round goes, what it leaves behind is known or failed.
LEMMA AccountedRound ==
  ASSUME Typed, KeyRuns, NEW r \in Round, InRound(r), Sound(round[r], progress.key), GapsOf(r),
         RoundStep(r) \/ EnqueueFails(r) \/ RoundThrows(r) \/ CrashRound(r), [Next]_vars
  PROVE  Accounted(round'[r], KnownDates')
<1> USE TypedParts
<1> DEFINE s == round[r]
           K == KnownDates
           L == KnownDates'
<1>0. /\ s \in RoundRec /\ Placed(s) /\ Sound(s, progress.key) /\ Accounted(s, K)
      /\ s.target \in Date /\ s.target \in Nat /\ s.failed \subseteq Date
      /\ s.pc \in {"plan", "release"} => PassedDates \subseteq K
      /\ s.pc \in {"fetch", "refetch", "advance", "block"} => s.at \in Date
      /\ s.at \in Nat
  BY IndexDailySyncAssumption DEF Typed, RoundRec, Date, Placed, InRound, GapsOf
<1>1. K \subseteq L /\ Accounted(s, L)
  BY <1>0, KnownStays, AccountedStays
<1>2. /\ \A d \in Date : d \in Nat /\ 1 <= d
      /\ table \in [Date -> {"none", "rows", "blank"}]
  BY DEF Date, Typed, TypeOK
<1>s. s = round[r] /\ K = KnownDates
  OBVIOUS
<1>t. \A d \in Date : table'[d] # "none" \/ DOMAIN queue'[d] # {} \/ d \in dropped' => d \in L
  BY DEF KnownDates
<1> SUFFICES Accounted(round'[r], L)
  OBVIOUS
<1> HIDE DEF s, K, L
<1>3. ASSUME NEW pc, Goto(r, pc)
      PROVE  round'[r] = [s EXCEPT !.pc = pc]
  BY <1>3, <1>s DEF Goto
<1>4. ASSUME NEW v \in RoundRec, GoOn(r, v), ~v.full, v.at \in Nat, v.target \in Nat,
             \A d \in Date : d <= v.at => d \in L \cup v.failed
      PROVE  Accounted(round'[r], L)
  <2>1. round'[r] = NextDate(v)
    BY <1>4 DEF GoOn
  <2> QED BY <1>4, <2>1, NextAccounted
<1>5. CASE PlanRound(r)
  <2>0. s.pc = "plan" /\ s.failed = {} /\ PassedDates \subseteq L
    BY <1>0, <1>1, <1>5, <1>s DEF PlanRound, At, Sound
  <2>1. CASE Goto(r, "release")
    <3>1. round'[r] = [s EXCEPT !.pc = "release"]
      BY <1>3, <2>1
    <3> QED BY <1>0, <2>0, <3>1 DEF Accounted, RoundRec, Loop
  <2>2. CASE ~Goto(r, "release")
    <3>1. PICK d \in LastDone(r) :
            IF d >= s.target THEN Goto(r, "upToDate")
            ELSE round' = [round EXCEPT ![r].start = d + 1, ![r].at = d + 1, ![r].pc = "mark"]
      BY <1>5, <1>s, <2>2 DEF PlanRound
    <3>2. d \in Nat /\ (d > 0 => \A e \in Date : e <= d => e \in PassedDates)
      <4>1. CASE Resumable
        <5>1. d = progress.key /\ progress.key \in Nat
          BY <3>1, <4>1 DEF LastDone, Typed, TypeOK
        <5> QED BY <4>1, <5>1 DEF PassedDates, Passed
      <4>2. CASE ~Resumable
        <5>1. d = 0 \/ d \in Latest
          BY <3>1, <4>2 DEF LastDone
        <5>2. d \in Nat /\ (d # 0 => Stored(d))
          BY <5>1 DEF Latest
        <5>3. Stored(d) => d \in Date
          BY DEF Stored
        <5> QED BY <4>2, <5>2, <5>3 DEF PassedDates, Passed
      <4> QED BY <4>1, <4>2
    <3>3. \A e \in Date : e <= d => e \in L
      BY <1>2, <2>0, <3>2
    <3>4. CASE d >= s.target
      <4>1. round'[r] = [s EXCEPT !.pc = "upToDate"]
        BY <1>3, <3>1, <3>4
      <4>2. \A e \in Date : e <= s.target => e \in L
        BY <1>0, <1>2, <3>2, <3>3, <3>4
      <4> QED BY <1>0, <4>1, <4>2 DEF Accounted, RoundRec, Loop
    <3>5. CASE ~(d >= s.target)
      <4>1. round'[r] = [s EXCEPT !.start = d + 1, !.at = d + 1, !.pc = "mark"]
        BY <1>s, <3>1, <3>5
      <4>2. \A e \in Date : e < d + 1 => e \in L
        BY <1>2, <3>2, <3>3
      <4> QED BY <1>0, <4>1, <4>2 DEF Accounted, RoundRec, Loop
    <3> QED BY <3>4, <3>5
  <2> QED BY <2>1, <2>2
<1>6. CASE UpToDate(r)
  <2>1. round'[r] = [s EXCEPT !.pc = "release"] /\ s.pc = "upToDate"
    BY <1>3, <1>6, <1>s DEF UpToDate, At
  <2> QED BY <1>0, <2>1 DEF Accounted, Sound, RoundRec, Loop
<1>7. CASE MarkRunning(r)
  <2>1. s.pc = "mark" /\ round'[r] = [s EXCEPT !.pc = IF s.full THEN "persist" ELSE "fetch"]
    BY <1>3, <1>7, <1>s DEF MarkRunning, At
  <2> QED BY <1>0, <1>1, <2>1 DEF Accounted, Sound, RoundRec, Loop
<1>8. ASSUME s.pc \in {"fetch", "refetch"}, \E what \in {"rows", "blank"} : Write(s.at, what)
      PROVE  \A d \in Date : d <= s.at => d \in L \cup s.failed
  <2>1. s.at \in L
    BY <1>0, <1>2, <1>8, <1>t DEF Write
  <2>2. \A d \in Date : d < s.at => d \in L \cup s.failed
    BY <1>0, <1>1, <1>8 DEF Accounted, Sound, Loop
  <2> QED BY <1>0, <1>2, <2>1, <2>2
<1>9. CASE Fetch(r)
  <2>0. s.pc = "fetch" /\ ~s.full
    BY <1>0, <1>9, <1>s DEF Fetch, At, Sound
  <2>1. CASE GoOn(r, s)
    <3>1. \E what \in {"rows", "blank"} : Write(s.at, what)
      <4>1. CASE ~\E what \in {"rows", "blank"} : Write(s.at, what)
        <5>1. round'[r] = [s EXCEPT !.pc = "refetch"] /\ round'[r] = NextDate(s)
          BY <1>3, <1>9, <1>s, <2>1, <4>1 DEF Fetch, GoOn
        <5> QED BY <1>0, <5>1 DEF NextDate, RoundRec
      <4> QED BY <4>1
    <3> QED BY <1>0, <1>4, <1>8, <2>0, <2>1, <3>1
  <2>2. CASE Goto(r, "advance") /\ CheckpointDue(s) /\ \E what \in {"rows", "blank"} : Write(s.at, what)
    <3>1. round'[r] = [s EXCEPT !.pc = "advance"] /\ s.at \in L
      BY <1>0, <1>2, <1>3, <1>t, <2>0, <2>2 DEF Write
    <3> QED BY <1>0, <1>1, <2>0, <3>1 DEF Accounted, RoundRec, Loop
  <2>3. CASE Goto(r, "refetch")
    <3>1. round'[r] = [s EXCEPT !.pc = "refetch"]
      BY <1>3, <2>3
    <3> QED BY <1>0, <1>1, <2>0, <3>1 DEF Accounted, RoundRec, Loop
  <2> QED BY <1>9, <1>s, <2>1, <2>2, <2>3 DEF Fetch
<1>10. CASE Refetch(r)
  <2>0. s.pc = "refetch" /\ ~s.full /\ s.at \in Date
    BY <1>0, <1>10, <1>s DEF Refetch, At, Sound
  <2> DEFINE v == [s EXCEPT !.failed = @ \cup {s.at}]
  <2>1. /\ v \in RoundRec /\ v.failed = s.failed \cup {s.at} /\ v.at = s.at /\ v.full = s.full
        /\ v.target = s.target /\ v.pc = s.pc
    BY <1>0, <2>0 DEF RoundRec
  <2>2. \A d \in Date : d <= v.at => d \in L \cup v.failed
    <3>1. \A d \in Date : d < s.at => d \in L \cup s.failed
      BY <1>0, <1>1, <2>0 DEF Accounted, Loop
    <3> HIDE DEF v
    <3> QED BY <1>0, <1>2, <2>1, <3>1
  <2>3. \A d \in Date : d < v.at => d \in L \cup v.failed
    BY <1>0, <1>2, <2>2, <2>1
  <2>4. CASE GoOn(r, s) /\ \E what \in {"rows", "blank"} : Write(s.at, what)
    BY <1>0, <1>4, <1>8, <2>0, <2>4
  <2> HIDE DEF v
  <2>5. CASE GoOn(r, [v EXCEPT !.blocked = TRUE])
    <3> DEFINE w == [v EXCEPT !.blocked = TRUE]
    <3>1. w \in RoundRec /\ w.failed = v.failed /\ w.at = v.at /\ w.full = v.full /\ w.target = v.target
      BY <2>1 DEF RoundRec
    <3>2. GoOn(r, w)
      BY <2>5
    <3> HIDE DEF w
    <3> QED BY <1>0, <1>4, <2>0, <2>1, <2>2, <3>1, <3>2
  <2>6. CASE round' = [round EXCEPT ![r] = [v EXCEPT !.pc = "block"]]
    <3>1. round'[r] = [v EXCEPT !.pc = "block"]
      BY <2>6
    <3> QED BY <2>0, <2>1, <2>3, <3>1 DEF Accounted, RoundRec, Loop
  <2> QED BY <1>10, <1>s, <2>4, <2>5, <2>6 DEF Refetch, v
<1>11. CASE Advance(r)
  <2>0. s.pc = "advance" /\ ~s.full /\ s.at \in L
    BY <1>0, <1>1, <1>11, <1>s DEF Advance, At, Sound, Accounted
  <2>1. \A d \in Date : d <= s.at => d \in L \cup s.failed
    <3>1. \A d \in Date : d < s.at => d \in L \cup s.failed
      BY <1>1, <2>0 DEF Accounted, Loop
    <3> QED BY <1>0, <1>2, <2>0, <3>1
  <2>2. CASE GoOn(r, s)
    BY <1>0, <1>4, <2>0, <2>1, <2>2
  <2>3. CASE Goto(r, "refetch")
    <3>1. round'[r] = [s EXCEPT !.pc = "refetch"]
      BY <1>3, <2>3
    <3> QED BY <1>0, <1>1, <2>0, <3>1 DEF Accounted, RoundRec, Loop
  <2> QED BY <1>11, <1>s, <2>2, <2>3 DEF Advance
<1>12. CASE Block(r)
  <2>0. s.pc = "block" /\ ~s.full /\ s.failed = {s.at}
    BY <1>0, <1>12, <1>s DEF Block, At, Sound
  <2> DEFINE w == [s EXCEPT !.blocked = TRUE]
  <2>1. w \in RoundRec /\ w.failed = s.failed /\ w.at = s.at /\ w.full = s.full /\ w.target = s.target
    BY <1>0 DEF RoundRec
  <2>2. GoOn(r, w)
    BY <1>12, <1>s DEF Block
  <2>3. \A d \in Date : d <= s.at => d \in L \cup s.failed
    BY <1>0, <1>1, <1>2, <2>0 DEF Accounted, Loop
  <2> HIDE DEF w
  <2> QED BY <1>0, <1>4, <2>0, <2>1, <2>2, <2>3
<1>13. CASE PersistRange(r)
  <2>1. s.pc = "persist" /\ s.full /\ (round'[r] = [s EXCEPT !.pc = "cover"]
          \/ round'[r] = [s EXCEPT !.at = s.at + 1])
    BY <1>0, <1>13, <1>s DEF PersistRange, At, Sound, Goto
  <2> QED BY <1>0, <2>1 DEF Accounted, RoundRec, Loop
<1>14. CASE Cover(r)
  <2> DEFINE m == {d \in 1 .. s.target : table[d] # "rows"}
  <2>1. s.full /\ round'[r] = [s EXCEPT !.pc = "enqueue", !.failed = m, !.blocked = m # {}]
    BY <1>0, <1>14, <1>s DEF Cover, At, Sound
  <2>2. UNCHANGED table
    BY <1>14 DEF Cover, dataVars
  <2>3. ASSUME NEW d \in Date, d <= s.target, d \notin m PROVE d \in L
    <3>1. d \in 1 .. s.target
      BY <1>0, <1>2, <2>3
    <3>2. table'[d] # "none"
      BY <2>2, <2>3, <3>1
    <3> QED BY <1>t, <3>2
  <2> HIDE DEF m
  <2> QED BY <1>0, <2>1, <2>3 DEF Accounted, RoundRec, Loop
<1>15. CASE AdvanceAll(r) \/ Settle(r) \/ Log(r)
  <2>1. \/ s.pc = "advanceAll" /\ round'[r] = [s EXCEPT !.pc = "settle"]
        \/ s.pc = "settle" /\ round'[r] = [s EXCEPT !.pc = "log"]
        \/ s.pc = "log" /\ round'[r] = [s EXCEPT !.pc = "release"]
    BY <1>3, <1>15, <1>s DEF AdvanceAll, Settle, Log, At
  <2> QED BY <1>0, <1>1, <2>1 DEF Accounted, RoundRec, Loop
<1>16. CASE FindRow(r)
  <2>1. PICK n : round'[r] = [s EXCEPT !.pc = "write", !.found = n] /\ s.pc = "enqueue"
    BY <1>16, <1>s DEF FindRow, At
  <2> QED BY <1>0, <1>1, <2>1 DEF Accounted, RoundRec, Loop
<1>17. CASE AllQueued(r)
  <2>1. /\ round'[r] = [s EXCEPT !.pc = IF s.full THEN "advanceAll" ELSE "settle"]
        /\ s.pc = "enqueue" /\ s.failed = {}
    BY <1>3, <1>17, <1>s DEF AllQueued, At
  <2> QED BY <1>0, <1>1, <2>1 DEF Accounted, RoundRec, Loop
<1>18. CASE WriteRow(r) \/ EnqueueFails(r)
  <2>1. PICK d \in Date :
          /\ round'[r] = [s EXCEPT !.failed = s.failed \ {d}, !.pc = "enqueue", !.found = 0]
          /\ s.pc \in {"enqueue", "write"} /\ First(r, d)
          /\ \/ d \in dropped'
             \/ /\ s.pc = "write"
                /\ queue' = IF s.found > 0
                   THEN [queue EXCEPT ![d][s.found].status = "PENDING"]
                   ELSE [queue EXCEPT ![d] = Append(@, [status |-> "PENDING", count |-> 0])]
    BY <1>18, <1>s DEF WriteRow, EnqueueFails, Queued, At
  <2>2. d \in L
    <3>1. CASE d \in dropped'
      BY <1>t, <3>1
    <3>2. CASE s.pc = "write" /\ s.found > 0
      <4>1. s.found \in DOMAIN queue[d]
        BY <1>s, <2>1, <3>2 DEF GapsOf, FoundRow, First
      <4> QED BY <1>t, <4>1, QueueKept
    <3>3. CASE d \notin dropped' /\ ~(s.found > 0)
      <4>1. [status |-> "PENDING", count |-> 0] \in RowState
        BY DEF RowState, Open
      <4>2. queue'[d] = Append(queue[d], [status |-> "PENDING", count |-> 0])
        BY <2>1, <3>3
      <4>3. DOMAIN queue'[d] # {}
        BY <4>1, <4>2, RowAppended
      <4> QED BY <1>t, <4>3
    <3> QED BY <2>1, <3>1, <3>2, <3>3
  <2>3. ~(s.pc \in {"settle", "log", "release", "persist", "cover", "advanceAll"})
    BY <2>1
  <2> QED BY <1>0, <1>1, <2>1, <2>2 DEF Accounted, RoundRec, Loop
<1>19. CASE EndRound(r) \/ CrashRound(r)
  <2>1. round'[r] = IdleRound
    BY <1>19 DEF EndRound, CrashRound
  <2> QED BY <2>1 DEF Accounted, IdleRound, Loop
<1>20. CASE RoundThrows(r)
  <2>1. round'[r].failed = {} /\ round'[r].pc \in {"release", "plan"}
    BY <1>20 DEF RoundThrows, Throw, IdleRound
  <2> QED BY <2>1 DEF Accounted, Loop
<1>21. QED BY <1>5, <1>6, <1>7, <1>9, <1>10, <1>11, <1>12, <1>13, <1>14, <1>15, <1>16, <1>17, <1>18,
              <1>19, <1>20 DEF RoundStep

\* The steps that end the work on dates, and the one that looks for a row.
LEMMA RoundEnds ==
  ASSUME Typed, NEW r \in Round, InRound(r),
         RoundStep(r) \/ EnqueueFails(r) \/ RoundThrows(r) \/ CrashRound(r)
  PROVE  /\ round'[r].pc = "write" => FindRow(r)
         /\ round'[r].pc \in {"idle", "plan", "release"} =>
              \/ PlanRound(r) \/ UpToDate(r) \/ Log(r) \/ EndRound(r)
              \/ RoundThrows(r) \/ CrashRound(r)
<1> USE TypedParts
<1> DEFINE s == round[r]
<1>0. s \in RoundRec
  OBVIOUS
<1>1. ASSUME NEW pc, Goto(r, pc) PROVE round'[r].pc = pc
  <2>1. round'[r] = [s EXCEPT !.pc = pc]
    BY <1>1 DEF Goto
  <2> QED BY <1>0, <2>1 DEF RoundRec
<1>2. ASSUME NEW u \in RoundRec, GoOn(r, u) PROVE round'[r].pc \in {"fetch", "enqueue"}
  BY <1>2 DEF GoOn, NextDate, RoundRec
<1>3. CASE MarkRunning(r) \/ AdvanceAll(r) \/ AllQueued(r) \/ Settle(r)
  <2>1. \/ Goto(r, "persist") \/ Goto(r, "fetch") \/ Goto(r, "settle") \/ Goto(r, "advanceAll")
        \/ Goto(r, "log")
    BY <1>3 DEF MarkRunning, AdvanceAll, AllQueued, Settle
  <2> QED BY <1>1, <2>1
<1>4. CASE Fetch(r) \/ Advance(r)
  <2>1. GoOn(r, s) \/ Goto(r, "advance") \/ Goto(r, "refetch")
    BY <1>4 DEF Fetch, Advance
  <2> QED BY <1>0, <1>1, <1>2, <2>1
<1>5. CASE Refetch(r)
  <2> DEFINE v == [s EXCEPT !.failed = @ \cup {s.at}]
  <2>1. s.at \in Date
    BY <1>5 DEF Refetch, At, Typed, Placed
  <2>2. v \in RoundRec
    BY <1>0, <2>1 DEF RoundRec
  <2>3. [v EXCEPT !.blocked = TRUE] \in RoundRec /\ [v EXCEPT !.pc = "block"].pc = "block"
    BY <2>2 DEF RoundRec
  <2>4. GoOn(r, s) \/ GoOn(r, [v EXCEPT !.blocked = TRUE]) \/ round'[r] = [v EXCEPT !.pc = "block"]
    BY <1>5 DEF Refetch
  <2> HIDE DEF v
  <2>5. CASE GoOn(r, s)
    BY <1>0, <1>2, <2>5
  <2>6. CASE GoOn(r, [v EXCEPT !.blocked = TRUE])
    BY <1>2, <2>3, <2>6
  <2> QED BY <2>3, <2>4, <2>5, <2>6
<1>6. CASE Block(r)
  <2>1. [s EXCEPT !.blocked = TRUE] \in RoundRec
    BY <1>0 DEF RoundRec
  <2> QED BY <1>2, <1>6, <2>1 DEF Block
<1>7. CASE PersistRange(r)
  <2>1. Goto(r, "cover") \/ (round'[r] = [s EXCEPT !.at = @ + 1] /\ s.pc = "persist")
    BY <1>7 DEF PersistRange, At
  <2>2. CASE Goto(r, "cover")
    BY <1>1, <2>2
  <2>3. CASE round'[r] = [s EXCEPT !.at = @ + 1] /\ s.pc = "persist"
    BY <1>0, <2>3 DEF RoundRec
  <2> QED BY <2>1, <2>2, <2>3
<1>8. CASE Cover(r)
  <2>1. \E m : round'[r] = [s EXCEPT !.pc = "enqueue", !.failed = m, !.blocked = m # {}]
    BY <1>8 DEF Cover
  <2> QED BY <1>0, <2>1 DEF RoundRec
<1>9. CASE WriteRow(r) \/ EnqueueFails(r)
  <2>1. \E d \in Date : round'[r] = [s EXCEPT !.failed = @ \ {d}, !.pc = "enqueue", !.found = 0]
    BY <1>9 DEF WriteRow, EnqueueFails, Queued
  <2> QED BY <1>0, <2>1 DEF RoundRec
<1>10. CASE PlanRound(r)
  <2>1. \/ Goto(r, "release") \/ Goto(r, "upToDate")
        \/ \E d : round'[r] = [s EXCEPT !.start = d + 1, !.at = d + 1, !.pc = "mark"]
    BY <1>10 DEF PlanRound
  <2>2. CASE Goto(r, "release") \/ Goto(r, "upToDate")
    BY <1>1, <1>10, <2>2
  <2>3. CASE \E d : round'[r] = [s EXCEPT !.start = d + 1, !.at = d + 1, !.pc = "mark"]
    BY <1>0, <2>3 DEF RoundRec
  <2> QED BY <2>1, <2>2, <2>3
<1>11. CASE UpToDate(r) \/ Log(r)
  <2>1. Goto(r, "release")
    BY <1>11 DEF UpToDate, Log
  <2> QED BY <1>1, <1>11, <2>1
<1>12. CASE EndRound(r) \/ CrashRound(r) \/ RoundThrows(r)
  <2>1. round'[r].pc # "write"
    <3>1. CASE EndRound(r) \/ CrashRound(r)
      BY <3>1 DEF EndRound, CrashRound, IdleRound
    <3>2. CASE RoundThrows(r)
      BY <3>2 DEF RoundThrows, Throw, IdleRound
    <3> QED BY <1>12, <3>1, <3>2
  <2> QED BY <1>12, <2>1
<1>13. CASE FindRow(r)
  <2>1. \E n : round'[r] = [s EXCEPT !.pc = "write", !.found = n]
    BY <1>13 DEF FindRow
  <2> QED BY <1>0, <1>13, <2>1 DEF RoundRec
<1> QED BY <1>3, <1>4, <1>5, <1>6, <1>7, <1>8, <1>9, <1>10, <1>11, <1>12, <1>13 DEF RoundStep

LEMMA FoundStays ==
  ASSUME Typed, NEW r \in Round, InRound(r),
         RoundStep(r) \/ EnqueueFails(r) \/ RoundThrows(r) \/ CrashRound(r)
  PROVE  FoundRow(round[r])'
<1> USE TypedParts
<1>1. CASE round'[r].pc = "write"
  <2>f. FindRow(r)
    BY <1>1, RoundEnds
  <2>0. PICK d \in Date : \E n \in {0} \cup OpenRows(d) :
          First(r, d) /\ round'[r] = [round[r] EXCEPT !.pc = "write", !.found = n]
    BY <2>f DEF FindRow
  <2>1. PICK n \in {0} \cup OpenRows(d) :
          First(r, d) /\ round'[r] = [round[r] EXCEPT !.pc = "write", !.found = n]
    BY <2>0
  <2>2. round'[r].found = n /\ round'[r].failed = round[r].failed
    BY <2>1 DEF RoundRec
  <2>3. queue' = queue
    BY <2>f DEF FindRow, dataVars
  <2>4. \A e \in round[r].failed : e \in Date /\ e \in Nat
    BY DEF RoundRec, Date
  <2>5. ASSUME NEW e \in round[r].failed, \A f \in round[r].failed : e <= f PROVE e = d
    BY <2>1, <2>4, <2>5 DEF First, Date
  <2>6. n > 0 => n \in DOMAIN queue[d]
    BY DEF OpenRows
  <2> QED BY <2>2, <2>3, <2>5, <2>6 DEF FoundRow
<1> QED BY <1>1 DEF FoundRow

\* A row is added for the first failed date: what is before it is known.
LEMMA OrderedStep ==
  ASSUME Typed, Ordered, [Next]_vars,
         \A r \in Round : WriteRow(r) => GapsOf(r) /\ \A d \in round[r].failed : d <= round[r].target
  PROVE  Ordered'
<1> USE TypedParts
<1>1. KnownDates \subseteq KnownDates'
  BY KnownStays
<1>2. CASE \A d \in Date : DOMAIN queue'[d] = DOMAIN queue[d]
  BY <1>1, <1>2 DEF Ordered
<1>3. ASSUME NEW r \in Round, WriteRow(r) PROVE Ordered'
  <2>1. PICK d \in Date :
          First(r, d) /\ \A e \in Date \ {d} : queue'[e] = queue[e]
    <3>1. PICK d \in Date : First(r, d) /\ \E x : queue' = [queue EXCEPT ![d] = x]
      BY <1>3 DEF WriteRow
    <3> QED BY <3>1
  <2>2. /\ round[r].pc = "write" /\ d <= round[r].target /\ round[r].target \in Nat
        /\ \A e \in round[r].failed : d <= e
    <3>1. round[r] \in RoundRec /\ d \in round[r].failed /\ \A e \in round[r].failed : d <= e
      BY <2>1 DEF First
    <3>2. round[r].pc = "write" /\ d <= round[r].target
      BY <1>3, <3>1 DEF WriteRow, At
    <3> QED BY <3>1, <3>2 DEF RoundRec
  <2>3. \A e \in Date : e <= round[r].target => e \in KnownDates \cup round[r].failed
    BY <1>3, <2>2 DEF GapsOf, Accounted
  <2>4. \A e \in 1 .. d : e \in Date /\ e \in Nat /\ d \in Nat
    BY DEF Date
  <2>5. \A e \in 1 .. d : e # d => e \in KnownDates
    <3> SUFFICES ASSUME NEW e \in 1 .. d, e # d PROVE e \in KnownDates
      OBVIOUS
    <3>1. e \in Date /\ e \in Nat /\ d \in Nat /\ e <= d
      BY <2>4
    <3>2. e <= round[r].target /\ ~(d <= e)
      BY <2>2, <3>1
    <3> QED BY <2>2, <2>3, <3>1, <3>2
  <2>6. DOMAIN queue'[d] # {} => 1 .. d \subseteq KnownDates'
    BY <1>1, <2>5 DEF KnownDates
  <2>7. ASSUME NEW e \in Date, DOMAIN queue'[e] # {} PROVE 1 .. e \subseteq KnownDates'
    BY <1>1, <2>1, <2>6, <2>7 DEF Ordered
  <2> QED BY <2>7 DEF Ordered
<1> QED BY <1>2, <1>3, QueueKept

\* What is passed depends on the table and the checkpoint.
LEMMA PassedStays ==
  ASSUME UNCHANGED <<table, progress>>
  PROVE  PassedDates' = PassedDates
<1>1. \A d : Stored(d)' = Stored(d)
  BY DEF Stored
<1>2. Resumable' = Resumable
  BY DEF Resumable
<1>3. \A d : Passed(d)' = Passed(d)
  BY <1>1, <1>2 DEF Passed
<1> QED BY <1>3 DEF PassedDates

\* A round that ends, or plans again, leaves no date behind that nobody knows.
LEMMA EndsWithoutGaps ==
  ASSUME Typed, Typed', NEW r \in Round, InRound(r), InTime, InTime', [Next]_vars,
         Sound(round[r], progress.key), GapsOf(r),
         RoundStep(r) \/ EnqueueFails(r) \/ RoundThrows(r) \/ CrashRound(r),
         round'[r].pc \in {"idle", "plan", "release"}
  PROVE  PassedDates' \subseteq KnownDates'
<1> USE TypedParts
<1>0. /\ round[r] \in RoundRec /\ Placed(round[r]) /\ progress.key \in Nat
      /\ round[r].failed \subseteq Date /\ \A d \in Date : d \in Nat
  <2>1. round[r] \in RoundRec /\ Placed(round[r]) /\ \A d \in Date : d \in Nat
    BY DEF Typed, Date
  <2>2. progress.key \in Nat
    BY DEF Typed, TypeOK
  <2> QED BY <2>1, <2>2 DEF RoundRec
<1>1. KnownDates \subseteq KnownDates'
  BY KnownStays
<1>2. UNCHANGED <<table, progress>> => PassedDates' = PassedDates
  BY PassedStays
<1>3. CASE PlanRound(r) \/ EndRound(r)
  <2>1. round[r].pc \in {"plan", "release"} /\ UNCHANGED <<table, progress>>
    BY <1>3 DEF PlanRound, EndRound, At, dataVars
  <2> QED BY <1>1, <1>2, <2>1 DEF GapsOf
<1>4. CASE UpToDate(r) \/ Log(r)
  <2>1. round[r].pc \in {"upToDate", "log"} /\ Goto(r, "release")
    BY <1>4 DEF UpToDate, Log, At
  <2>2. round'[r] = [round[r] EXCEPT !.pc = "release"]
    BY <2>1 DEF Goto
  <2>3. round'[r].pc = "release" /\ round'[r].target = round[r].target
    BY <1>0, <2>2 DEF RoundRec
  <2>4. \A d \in PassedDates' : d \in Date /\ d <= round[r].target
    <3>1. InRound(r)'
      BY <2>3 DEF InRound
    <3>2. /\ progress'.key <= round'[r].target /\ round'[r].target \in Nat /\ progress'.key \in Nat
          /\ \A e \in TouchedDates' : e <= round'[r].target
      BY <3>1, <1>0, <2>3 DEF InTime, Typed, TypeOK, RoundRec
    <3>3. ASSUME NEW d \in Date, Passed(d)' PROVE d <= round'[r].target
      <4>1. CASE Resumable'
        BY <1>0, <3>2, <3>3, <4>1 DEF Passed
      <4>2. CASE ~Resumable'
        <5>1. PICK e \in Date : d <= e /\ Stored(e)'
          BY <3>3, <4>2 DEF Passed
        <5>2. e \in TouchedDates'
          BY <5>1 DEF Stored, TouchedDates
        <5> QED BY <1>0, <3>2, <5>1, <5>2
      <4> QED BY <4>1, <4>2
    <3> QED BY <2>3, <3>3 DEF PassedDates
  <2>5. \A d \in Date : d <= round[r].target => d \in KnownDates
    BY <2>1 DEF GapsOf, Accounted, Sound
  <2> QED BY <1>1, <2>4, <2>5
<1>5. CASE RoundThrows(r) \/ CrashRound(r)
  <2>1. UNCHANGED <<table, progress>> /\ dropped' = dropped \cup Lost(r)
    BY <1>5 DEF RoundThrows, CrashRound, Throw, dataVars
  <2>2. SUFFICES ASSUME NEW d \in PassedDates PROVE d \in KnownDates'
    BY <1>2, <2>1
  <2>3. CASE round[r].pc \in {"plan", "release"}
    BY <1>1, <2>3 DEF GapsOf
  <2>4. CASE round[r].pc \notin {"plan", "release"}
    <3>1. d \in Date /\ d <= round[r].target /\ Passed(d)
      BY PassedInTime DEF PassedDates
    <3>2. d \in KnownDates \cup Hand(round[r])
      BY <1>0, <2>4, <3>1, InHandOrKnown DEF GapsOf, Sound, InRound
    <3>3. CASE d \in Hand(round[r])
      <4>1. d \in InHand(r)
        BY <3>3 DEF Hand, InHand, Loop
      <4>2. round[r].full \/ ~Resumable
        <5> SUFFICES ASSUME ~round[r].full, Resumable PROVE FALSE
          OBVIOUS
        <5>1. d <= progress.key
          BY <3>1 DEF Passed
        <5>2. /\ \A e \in round[r].failed : progress.key < e
              /\ round[r].pc \in Loop => progress.key < round[r].at
          BY DEF Sound, Loop
        <5>3. d \in round[r].failed \/ (round[r].pc \in Loop /\ round[r].at <= d)
          BY <1>0, <3>1, <3>3 DEF Hand, RoundRec
        <5>4. round[r].at \in Nat
          BY <1>0 DEF RoundRec
        <5> QED BY <1>0, <3>1, <5>1, <5>2, <5>3, <5>4
      <4> QED BY <2>1, <3>1, <4>1, <4>2 DEF Lost, KnownDates
    <3> QED BY <1>1, <3>2, <3>3
  <2> QED BY <2>3, <2>4
<1> QED BY <1>3, <1>4, <1>5, RoundEnds

LEMMA GapsStep ==
  ASSUME Typed, Verified, RowsExist, Solid, Gaps, [Next]_vars
  PROVE  Gaps'
<1> USE TypedParts
<1> SUFFICES ASSUME ~overlapped'
             PROVE  (InTime /\ Ordered /\ NoRoundGaps /\ \A r \in Round : InRound(r) => GapsOf(r))'
  BY DEF Gaps
<1>1. Typed' /\ KnownDates \subseteq KnownDates'
  BY TypedStep, KnownStays
<1>2. ~overlapped
  BY DEF Next, vars, StartRound, RoundStep, PlanRound, UpToDate, MarkRunning, Fetch, Refetch,
     Advance, Block, PersistRange, Cover, AdvanceAll, FindRow, WriteRow, AllQueued, Settle, Log,
     EndRound, EnqueueFails, RoundThrows, CrashRound, RoundOnly, RetryStep, StartPass, NextRow, Attempt,
     Verify, Fail, EndPass, PassThrows, CrashPass, RetryOnly, DayPasses, ResetExhausted,
     RoundLeaseExpires, RetryLeaseExpires
<1>3. /\ KeyRuns /\ OneAtWork /\ \A r \in Round : Sound(round[r], progress.key)
      /\ InTime /\ Ordered /\ NoRoundGaps /\ \A r \in Round : InRound(r) => GapsOf(r)
  BY <1>2 DEF Solid, Gaps
<1>4. InTime'
  BY <1>3, InTimeStep
<1>5. Ordered'
  <2>1. \A r \in Round : WriteRow(r) => InRound(r)
    BY DEF WriteRow, At, InRound
  <2>2. \A r \in Round : WriteRow(r) => GapsOf(r) /\ \A d \in round[r].failed : d <= round[r].target
    BY <1>3, <2>1 DEF InTime
  <2> QED BY <1>3, <2>2, OrderedStep
<1>6. UNCHANGED <<table, progress>> => PassedDates' = PassedDates
  BY PassedStays
<1>7. ASSUME NEW r \in Round, StartRound(r)
      PROVE  (NoRoundGaps /\ \A q \in Round : InRound(q) => GapsOf(q))'
  <2>1. \A q \in Round : ~InRound(q)
    BY <1>7 DEF StartRound, At, InRound
  <2>2. \A q \in Round \ {r} : ~InRound(q)'
    <3>1. \A q \in Round \ {r} : round'[q] = round[q]
      BY <1>7 DEF StartRound
    <3> QED BY <2>1, <3>1 DEF InRound
  <2>3. round'[r].pc = "plan"
    BY <1>7 DEF StartRound, IdleRound
  <2>4. PassedDates' \subseteq KnownDates'
    BY <1>1, <1>3, <1>6, <1>7, <2>1 DEF NoRoundGaps, StartRound, dataVars
  <2>5. GapsOf(r)'
    BY <2>3, <2>4 DEF GapsOf, Accounted, FoundRow, Loop
  <2> QED BY <2>2, <2>4, <2>5 DEF NoRoundGaps
<1>8. ASSUME NEW r \in Round, RoundStep(r) \/ EnqueueFails(r) \/ RoundThrows(r) \/ CrashRound(r)
      PROVE  (NoRoundGaps /\ \A q \in Round : InRound(q) => GapsOf(q))'
  <2>1. InRound(r) /\ \A q \in Round \ {r} : ~InRound(q)'
    <3>1. InRound(r) /\ \A q \in Round \ {r} : round'[q] = round[q]
      BY <1>8, RoundWorks
    <3> QED BY <1>3, <3>1 DEF OneAtWork, InRound
  <2>2. GapsOf(r)
    BY <1>3, <2>1
  <2>3. Accounted(round'[r], KnownDates')
    BY <1>3, <1>8, <2>1, <2>2, AccountedRound
  <2>4. FoundRow(round[r])'
    BY <1>8, <2>1, FoundStays
  <2>5. round'[r].pc \in {"idle", "plan", "release"} => PassedDates' \subseteq KnownDates'
    BY <1>1, <1>3, <1>4, <1>8, <2>1, <2>2, EndsWithoutGaps
  <2>6. GapsOf(r)'
    BY <2>3, <2>4, <2>5 DEF GapsOf
  <2>7. NoRoundGaps'
    BY <2>5 DEF NoRoundGaps, InRound
  <2> QED BY <2>1, <2>6, <2>7
<1>9. CASE \A r \in Round :
             ~(StartRound(r) \/ RoundStep(r) \/ EnqueueFails(r) \/ RoundThrows(r) \/ CrashRound(r))
  <2>1. /\ UNCHANGED <<round, progress>>
        /\ \A d \in Date : DOMAIN queue'[d] = DOMAIN queue[d]
        /\ \A d \in Date : Stored(d)' => Stored(d) \/ DOMAIN queue[d] # {}
    BY <1>9, OthersWrite
  <2>2. ASSUME PassedDates \subseteq KnownDates PROVE PassedDates' \subseteq KnownDates'
    <3> SUFFICES ASSUME NEW d \in Date, Passed(d)' PROVE d \in KnownDates'
      BY DEF PassedDates
    <3>1. CASE Resumable
      <4>1. Resumable' /\ progress' = progress
        BY <2>1, <3>1 DEF Resumable
      <4>2. d \in PassedDates
        BY <3>1, <4>1 DEF PassedDates, Passed
      <4> QED BY <1>1, <2>2, <4>2
    <3>2. CASE ~Resumable
      <4>1. PICK e \in Date : d <= e /\ Stored(e)'
        BY <2>1, <3>2 DEF Passed, Resumable
      <4>2. CASE Stored(e)
        BY <1>1, <2>2, <3>2, <4>1, <4>2 DEF PassedDates, Passed
      <4>3. CASE DOMAIN queue[e] # {}
        <5>1. d \in 1 .. e
          BY <4>1 DEF Date
        <5> QED BY <1>1, <1>3, <4>3, <5>1 DEF Ordered
      <4> QED BY <2>1, <4>1, <4>2, <4>3
    <3> QED BY <3>1, <3>2
  <2>3. NoRoundGaps'
    BY <1>3, <2>1, <2>2 DEF NoRoundGaps, InRound
  <2>4. ASSUME NEW q \in Round, InRound(q)' PROVE GapsOf(q)'
    <3>1. InRound(q) /\ GapsOf(q) /\ round'[q] = round[q]
      BY <1>3, <2>1, <2>4 DEF InRound
    <3>2. Accounted(round'[q], KnownDates')
      BY <1>1, <3>1, AccountedStays DEF GapsOf
    <3>3. FoundRow(round[q])'
      <4>1. \A d \in round[q].failed : d \in Date
        BY DEF RoundRec
      <4>2. \A d \in round[q].failed : DOMAIN queue'[d] = DOMAIN queue[d]
        BY <2>1, <4>1
      <4>3. FoundRow(round[q])
        BY <3>1 DEF GapsOf
      <4> SUFFICES ASSUME round[q].pc = "write", round[q].found > 0, NEW d \in round[q].failed,
                          \A e \in round[q].failed : d <= e
                   PROVE  round[q].found \in DOMAIN queue'[d]
        BY <3>1 DEF FoundRow
      <4>4. round[q].found \in DOMAIN queue[d]
        BY <4>3 DEF FoundRow
      <4> QED BY <4>2, <4>4
    <3> QED BY <2>2, <3>1, <3>2, <3>3 DEF GapsOf
  <2> QED BY <1>4, <1>5, <2>3, <2>4
<1> QED BY <1>4, <1>5, <1>7, <1>8, <1>9

\* Dates a round passes are known.
LEMMA GapsKnown ==
  ASSUME Typed, Solid, Gaps
  PROVE  GapIsKnown
<1> USE TypedParts
<1> SUFFICES ASSUME ~overlapped, NEW d \in Date, Passed(d), table[d] = "none"
             PROVE  queue[d] # <<>> \/ d \in dropped \/ \E r \in Round : d \in InHand(r)
  BY DEF GapIsKnown
<1>1. d \in KnownDates => queue[d] # <<>> \/ d \in dropped
  <2>1. DOMAIN queue[d] # {} => queue[d] # <<>>
    OBVIOUS
  <2> QED BY <2>1 DEF KnownDates
<1>2. CASE \A r \in Round : ~InRound(r)
  BY <1>1, <1>2 DEF Gaps, NoRoundGaps, PassedDates
<1>3. ASSUME NEW r \in Round, InRound(r)
      PROVE  queue[d] # <<>> \/ d \in dropped \/ d \in InHand(r)
  <2>1. /\ GapsOf(r) /\ InTime /\ Sound(round[r], progress.key)
        /\ round[r] \in RoundRec /\ Placed(round[r])
    BY <1>3 DEF Gaps, Solid, Typed
  <2>2. CASE round[r].pc \in {"plan", "release"}
    BY <1>1, <2>1, <2>2 DEF GapsOf, PassedDates
  <2>3. CASE round[r].pc \notin {"plan", "release"}
    <3>1. d <= round[r].target
      BY <1>3, <2>1, PassedInTime DEF PassedDates
    <3>2. d \in KnownDates \cup Hand(round[r])
      BY <1>3, <2>1, <2>3, <3>1, InHandOrKnown DEF GapsOf, Sound, InRound
    <3>3. Hand(round[r]) = InHand(r)
      BY DEF Hand, InHand, Loop
    <3> QED BY <1>1, <3>2, <3>3
  <2> QED BY <2>2, <2>3
<1> QED BY <1>2, <1>3

LEMMA GapsInit == Init => RowsExist /\ Solid /\ Gaps
<1> SUFFICES ASSUME Init PROVE RowsExist /\ Solid /\ Gaps
  OBVIOUS
<1>1. DOMAIN << >> = {}
  OBVIOUS
<1>2. RowsExist
  BY DEF Init, RowsExist
<1>3. Solid /\ \A r \in Round : ~InRound(r)
  BY DEF Init, Solid, KeyRuns, OneAtWork, InRound, Sound, IdleRound
<1>4. TouchedDates = {}
  BY <1>1 DEF Init, TouchedDates
<1>5. InTime
  BY <1>3, <1>4 DEF Init, InTime
<1>6. Ordered
  BY <1>1 DEF Init, Ordered
<1>7. PassedDates = {}
  BY DEF Init, PassedDates, Passed, Resumable, Stored
<1> QED BY <1>2, <1>3, <1>5, <1>6, <1>7 DEF Gaps, NoRoundGaps

\* As long as rounds do not overlap, a date that was never written and that the next round will
\* not look at has a row in the retry queue, is in the hands of a round, or was left behind at a
\* place the model names: for any number of dates, crashes, failures and passes at work.
THEOREM NoDatePassedUnseen == Spec => []GapIsKnown
<1>1. Spec => []Typed
  BY TypedInit, TypedStep, PTL DEF Spec
<1>2. Init => Verified
  BY DEF Init, Verified, OneRow
<1>3. Typed /\ Verified /\ [Next]_vars => Verified'
  BY VerifiedStep
<1>4. Typed /\ RowsExist /\ [Next]_vars => RowsExist'
  BY RowsExistStep
<1>5. Typed /\ Solid /\ [Next]_vars => Solid'
  BY SolidStep
<1>6. Typed /\ Verified /\ RowsExist /\ Solid /\ Gaps /\ [Next]_vars => Gaps'
  BY GapsStep
<1>7. Typed /\ Solid /\ Gaps => GapIsKnown
  BY GapsKnown
<1> QED BY <1>1, <1>2, <1>3, <1>4, <1>5, <1>6, <1>7, GapsInit, PTL DEF Spec
=============================================================================
