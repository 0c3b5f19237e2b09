-------------------------- MODULE AgentStreamProofs --------------------------
(***************************************************************************)
(* For any number of tabs and requests, any limits and any length of the   *)
(* log: a tab reads the log without a hole, a terminal stream has written  *)
(* all of it, and the count of connections is exact and bounded.           *)
(***************************************************************************)
EXTENDS AgentStream, FiniteSetTheorems, TLAPS

Open == {s \in Session : session[s].pc \in Active}

LogHasNoHole == nextSeq \in Nat \ {0} /\ log = 1 .. nextSeq - 1

OneReader == \A t, u \in Tab : reading[t] = reading[u] /\ reading[t] # NoSession => t = u

\* A tab has applied, or is about to read, all its session has yielded.
CursorIsTold ==
  \A t \in Tab : reading[t] # NoSession =>
    session[reading[t]].cursor = received[t] + Len(wire[reading[t]])

CursorInLog == /\ \A s \in Session : session[s].cursor < nextSeq
               /\ \A t \in Tab : received[t] < nextSeq

\* What was read is the cursor's continuation, without a hole.
BatchContinues ==
  \A s \in Session : \A q \in session[s].batch :
    /\ session[s].cursor < q /\ q < nextSeq
    /\ \A p \in Nat : session[s].cursor < p /\ p <= q => p \in session[s].batch

\* A run seen over was read with the last sequence it will ever have.
OverIsFinal == \A s \in Session : session[s].over => ended /\ session[s].latest = nextSeq - 1

\* Only a session about to be closed, or closed, has a reason.
ReasonAtEnd == \A s \in Session : session[s].reason # "none" => session[s].pc \in {"closing", "closed"}

Counted == IsFiniteSet(Open) /\ ConnectionsBounded

Told == OneReader /\ WireContinues /\ CursorIsTold

Read == LogHasNoHole /\ CursorInLog /\ BatchContinues /\ OverIsFinal

Over == ReasonAtEnd /\ NoGapReported /\ TerminalIsComplete

\* What a tab was told, what the sessions have read, how they ended, who is counted: the
\* invariant the proofs induct on.
IInv == TypeOK /\ Told /\ Read /\ Over /\ Counted
-----------------------------------------------------------------------------
(* Types *)

LEMMA BoundsHold ==
  /\ MaxConnections \in Nat \ {0} /\ ReplayLimit \in Nat \ {0}
  /\ LogLimit \in Nat /\ FaultBudget \in Nat /\ NoSession \notin Session
BY AgentStreamAssumption

LEMMA TypedInit == Init => TypeOK
<1> SUFFICES ASSUME Init PROVE TypeOK
  OBVIOUS
<1>1. Closed \in SessionState
  BY DEF Closed, SessionState, Pc, Reason
<1>2. session \in [Session -> SessionState] /\ wire \in [Session -> Seq(Nat)]
  BY <1>1 DEF Init
<1>3. log \subseteq Nat /\ nextSeq \in Nat
  BY DEF Init, LogInit
<1>4. /\ count \in Nat /\ received \in [Tab -> Nat]
      /\ reading \in [Tab -> Session \cup {NoSession}] /\ budget \in 0 .. FaultBudget
  BY BoundsHold DEF Init
<1>5. ended \in BOOLEAN /\ down \in BOOLEAN
  BY Zenon DEF Init, LogInit
<1> QED BY <1>2, <1>3, <1>4, <1>5 DEF TypeOK

\* What is read next is a part of the log.
LEMMA NextEventsInLog ==
  ASSUME NEW s \in Session
  PROVE  NextEvents(s) \subseteq log
BY DEF NextEvents

\* The changes the steps make to a session's record keep its type.
LEMMA TypedPc ==
  ASSUME session \in [Session -> SessionState], NEW s \in Session, NEW pc \in Pc
  PROVE  [session EXCEPT ![s].pc = pc] \in [Session -> SessionState]
BY DEF SessionState

LEMMA TypedThrough ==
  ASSUME session \in [Session -> SessionState], NEW s \in Session, NEW pc \in Pc, NEW n \in Nat
  PROVE  [session EXCEPT ![s].pc = pc, ![s].through = n] \in [Session -> SessionState]
<1>1. [session[s] EXCEPT !.pc = pc, !.through = n] \in SessionState
  BY DEF SessionState
<1> QED BY <1>1

LEMMA TypedEnds ==
  ASSUME session \in [Session -> SessionState], NEW s \in Session, NEW why \in Reason, Ends(s, why)
  PROVE  session' \in [Session -> SessionState]
<1>1. [session[s] EXCEPT !.pc = "closing", !.reason = why] \in SessionState
  BY DEF SessionState, Pc
<1> QED BY <1>1 DEF Ends

LEMMA TypedPoll ==
  ASSUME session \in [Session -> SessionState], NEW s \in Session, NEW pc \in Pc,
         NEW n \in Nat, NEW b \in BOOLEAN
  PROVE  [session EXCEPT ![s].pc = pc, ![s].latest = n, ![s].over = b] \in [Session -> SessionState]
<1>1. [session[s] EXCEPT !.pc = pc, !.latest = n, !.over = b] \in SessionState
  BY DEF SessionState
<1> QED BY <1>1

LEMMA TypedFetch ==
  ASSUME session \in [Session -> SessionState], NEW s \in Session, NEW pc \in Pc,
         NEW batch \in SUBSET Nat, NEW b \in BOOLEAN
  PROVE  [session EXCEPT ![s].pc = pc, ![s].batch = batch, ![s].full = b] \in [Session -> SessionState]
<1>1. [session[s] EXCEPT !.pc = pc, !.batch = batch, !.full = b] \in SessionState
  BY DEF SessionState
<1> QED BY <1>1

LEMMA TypedYield ==
  ASSUME session \in [Session -> SessionState], NEW s \in Session, NEW pc \in Pc,
         NEW n \in Nat, NEW batch \in SUBSET Nat, NEW why \in Reason
  PROVE  [session EXCEPT ![s].cursor = n, ![s].batch = batch, ![s].pc = pc, ![s].reason = why]
           \in [Session -> SessionState]
<1>1. [session[s] EXCEPT !.cursor = n, !.batch = batch, !.pc = pc, !.reason = why] \in SessionState
  BY DEF SessionState
<1> QED BY <1>1

\* A session's step changes its own record, the wire and the count.
LEMMA TypedSession ==
  ASSUME TypeOK, LogHasNoHole, Counted, NEW s \in Session, SessionStep(s)
  PROVE  TypeOK'
<1> USE DEF TypeOK
<1>1. session[s] \in SessionState /\ nextSeq - 1 \in Nat /\ count + 1 \in Nat
  BY DEF LogHasNoHole
<1>2. {"register", "readRun", "readEvents", "yield", "closing", "closed", "refused"} \subseteq Pc
  BY DEF Pc
<1>3. {"other", "terminal", "idle_timeout", "sequence_gap"} \subseteq Reason
  BY DEF Reason
<1>4. CASE GetRun(s) \/ Register(s) \/ ReadRun(s)
  <2>1. session' \in [Session -> SessionState]
    <3>1. CASE GetRun(s)
      BY <1>1, <1>2, <3>1, TypedThrough DEF GetRun
    <3>2. CASE Register(s)
      <4>1. \/ session' = [session EXCEPT ![s].pc = "refused"]
            \/ session' = [session EXCEPT ![s].pc = "readRun"]
        BY <3>2, Zenon DEF Register
      <4>2. /\ [session EXCEPT ![s].pc = "refused"] \in [Session -> SessionState]
            /\ [session EXCEPT ![s].pc = "readRun"] \in [Session -> SessionState]
        BY <1>2, TypedPc
      <4> QED BY <4>1, <4>2
    <3>3. CASE ReadRun(s)
      <4>1. \/ Ends(s, "other")
            \/ session' = [session EXCEPT ![s].pc = "readEvents", ![s].latest = nextSeq - 1,
                                          ![s].over = ended]
        BY <3>3, Zenon DEF ReadRun
      <4>2. CASE Ends(s, "other")
        BY <1>3, <4>2, TypedEnds
      <4>3. CASE session' = [session EXCEPT ![s].pc = "readEvents", ![s].latest = nextSeq - 1,
                                            ![s].over = ended]
        BY <1>1, <1>2, <4>3, TypedPoll
      <4> QED BY <4>1, <4>2, <4>3
    <3> QED BY <1>4, <3>1, <3>2, <3>3
  <2>2. count' \in Nat
    BY <1>1, <1>4 DEF GetRun, Register, ReadRun
  <2> QED BY <1>4, <2>1, <2>2 DEF GetRun, Register, ReadRun, logVars
<1>5. CASE ReadEvents(s)
  <2>1. NextEvents(s) \in SUBSET Nat /\ (NextEvents(s) # {}) \in BOOLEAN
    BY NextEventsInLog
  <2>2. budget' \in 0 .. FaultBudget
    BY <1>5, BoundsHold DEF ReadEvents, SpendFault
  <2>3. session' \in [Session -> SessionState]
    <3>1. CASE session' = [session EXCEPT ![s].pc = "yield", ![s].batch = NextEvents(s),
                                          ![s].full = NextEvents(s) # {}]
      <4> DEFINE batch == NextEvents(s)
                 full  == NextEvents(s) # {}
      <4>1. batch \in SUBSET Nat /\ full \in BOOLEAN
        BY <2>1
      <4>2. session' = [session EXCEPT ![s].pc = "yield", ![s].batch = batch, ![s].full = full]
        BY <3>1
      <4> HIDE DEF batch, full
      <4> QED BY <1>2, <4>1, <4>2, TypedFetch
    <3>2. CASE Ends(s, "other")
      BY <1>3, <3>2, TypedEnds
    <3> QED BY <1>5, <3>1, <3>2 DEF ReadEvents
  <2> QED BY <1>5, <2>2, <2>3 DEF ReadEvents, logVars
<1>6. CASE EndOfBatch(s)
  <2> DEFINE next == IF session[s].cursor >= session[s].through \/ ~session[s].full THEN 0
                     ELSE session[s].through
  <2>1. next \in Nat
    BY <1>1 DEF SessionState
  <2>2. CASE session' = [session EXCEPT ![s].pc = "readRun", ![s].through = next]
    <3> HIDE DEF next
    <3>1. session' \in [Session -> SessionState]
      BY <1>2, <2>1, <2>2, TypedThrough
    <3> QED BY <1>6, <3>1 DEF EndOfBatch, logVars
  <2>3. CASE Ends(s, "terminal") \/ Ends(s, "idle_timeout")
    BY <1>3, <1>6, <2>3, TypedEnds DEF EndOfBatch, logVars
  <2> QED BY <1>6, <2>2, <2>3 DEF EndOfBatch
<1>7. CASE Close(s)
  <2>1. s \in Open
    BY <1>7 DEF Close, At, Open, Active
  <2>2. count = Cardinality(Open) /\ Cardinality(Open) \in Nat /\ Cardinality(Open) # 0
    BY <2>1, FS_EmptySet, FS_CardinalityType DEF Counted, ConnectionsBounded, Open
  <2>3. session' \in [Session -> SessionState]
    BY <1>2, <1>7, TypedPc DEF Close
  <2> QED BY <1>7, <2>2, <2>3 DEF Close, logVars
<1>8. ASSUME NEW q \in session[s].batch, YieldEvent(s, q) PROVE TypeOK'
  <2>1. q \in Nat /\ session[s].batch \ {q} \in SUBSET Nat /\ session[s].pc \in Pc
        /\ session[s].reason \in Reason
    BY <1>1 DEF SessionState
  <2>2. budget' \in 0 .. FaultBudget
    BY <1>8, BoundsHold DEF YieldEvent, SpendFault
  <2>3. wire' \in [Session -> Seq(Nat)]
    <3>1. Append(wire[s], q) \in Seq(Nat)
      BY <2>1
    <3> QED BY <1>8, <3>1 DEF YieldEvent
  <2>4. session' \in [Session -> SessionState]
    <3> DEFINE pc == IF IsTerminal(q) THEN "closing" ELSE session[s].pc
               why == IF IsTerminal(q) THEN "terminal" ELSE session[s].reason
    <3>1. pc \in Pc /\ why \in Reason
      BY <1>2, <1>3, <2>1
    <3>2. CASE session' = [session EXCEPT ![s].cursor = q, ![s].batch = @ \ {q},
                                          ![s].pc = pc, ![s].reason = why]
      <4>1. session' = [session EXCEPT ![s].cursor = q, ![s].batch = session[s].batch \ {q},
                                       ![s].pc = pc, ![s].reason = why]
        BY <3>2
      <4> HIDE DEF pc, why
      <4> QED BY <2>1, <3>1, <4>1, TypedYield
    <3>3. CASE Ends(s, "other") \/ Ends(s, "sequence_gap")
      BY <1>3, <3>3, TypedEnds
    <3> QED BY <1>8, <3>2, <3>3 DEF YieldEvent
  <2> QED BY <1>8, <2>2, <2>3, <2>4 DEF YieldEvent, logVars
<1> QED BY <1>4, <1>5, <1>6, <1>7, <1>8 DEF SessionStep

LEMMA TypedRest ==
  ASSUME TypeOK,
         \/ RunAppends \/ Shutdown \/ Restart
         \/ \E s \in Session : NoticeGone(s) \/ TokenExpires(s)
         \/ \E t \in Tab : TabStep(t) \/ Disconnect(t)
  PROVE  TypeOK'
<1> USE DEF TypeOK
<1>1. CASE RunAppends
  BY <1>1 DEF RunAppends, AppendEvents, streamVars
<1>2. CASE Shutdown \/ Restart
  <2>1. \A s \in Session : /\ [session[s] EXCEPT !.aborted = @ \/ session[s].pc \in Active] \in SessionState
                           /\ [session[s] EXCEPT !.pc = IF @ = "idle" THEN @ ELSE "closed"] \in SessionState
    BY DEF SessionState, Pc
  <2>2. session' \in [Session -> SessionState]
    BY <1>2, <2>1 DEF Shutdown, Restart
  <2>3. budget' \in 0 .. FaultBudget /\ count' \in Nat /\ down' \in BOOLEAN
    <3>1. CASE Shutdown
      BY <3>1, BoundsHold DEF Shutdown, SpendFault
    <3>2. CASE Restart
      <4>1. budget' = budget \/ SpendFault
        BY <3>2, Zenon DEF Restart
      <4>2. down' \in BOOLEAN
        BY <3>2, Zenon DEF Restart
      <4> QED BY <3>2, <4>1, <4>2, BoundsHold DEF Restart, SpendFault
    <3> QED BY <1>2, <3>1, <3>2
  <2> QED BY <1>2, <2>2, <2>3 DEF Shutdown, Restart, logVars
<1>3. ASSUME NEW s \in Session, NoticeGone(s) \/ TokenExpires(s) PROVE TypeOK'
  <2>1. [session[s] EXCEPT !.aborted = TRUE] \in SessionState
    BY DEF SessionState
  <2>2. session' \in [Session -> SessionState]
    BY <1>3, <2>1 DEF NoticeGone, TokenExpires
  <2>3. budget' \in 0 .. FaultBudget
    BY <1>3, BoundsHold DEF NoticeGone, TokenExpires, SpendFault
  <2> QED BY <1>3, <2>2, <2>3 DEF NoticeGone, TokenExpires, logVars
<1>4. ASSUME NEW t \in Tab, TabStep(t) \/ Disconnect(t) PROVE TypeOK'
  <2>1. ASSUME NEW s \in Session, Connect(t, s) PROVE TypeOK'
    <3>1. [Closed EXCEPT !.pc = "getRun", !.cursor = received[t]] \in SessionState
      BY DEF Closed, SessionState, Pc, Reason
    <3> QED BY <2>1, <3>1 DEF Connect, logVars
  <2>2. CASE ApplyEvent(t)
    <3>1. wire[reading[t]] \in Seq(Nat) /\ reading[t] \in Session
      BY <2>2 DEF ApplyEvent
    <3> QED BY <2>2, <3>1 DEF ApplyEvent, logVars
  <2>3. CASE SeeEnd(t) \/ Disconnect(t)
    <3>1. reading' \in [Tab -> Session \cup {NoSession}]
      BY <2>3 DEF SeeEnd, Disconnect
    <3>3. wire' \in [Session -> Seq(Nat)]
      <4>1. <<>> \in Seq(Nat)
        OBVIOUS
      <4> QED BY <2>3, <4>1 DEF SeeEnd, Disconnect
    <3>2. budget' \in 0 .. FaultBudget
      BY <2>3, BoundsHold DEF SeeEnd, Disconnect, SpendFault
    <3> QED BY <2>3, <3>1, <3>2, <3>3 DEF SeeEnd, Disconnect, logVars
  <2> QED BY <1>4, <2>1, <2>2, <2>3 DEF TabStep
<1> QED BY <1>1, <1>2, <1>3, <1>4
-----------------------------------------------------------------------------
(* What a step does *)

SameReading(o) ==
  /\ session'[o].cursor = session[o].cursor /\ session'[o].batch = session[o].batch
  /\ session'[o].over = session[o].over     /\ session'[o].latest = session[o].latest

Quiet == UNCHANGED <<log, nextSeq, ended, wire, received, reading>>

Others(s) == \A o \in Session : o # s => session'[o] = session[o]

\* Sessions move on, are aborted or die; none reads, writes or ends for a reason.
ControlStep ==
  /\ Quiet
  /\ \A o \in Session : /\ SameReading(o) /\ session'[o].reason = session[o].reason
                        /\ session[o].pc \in {"closing", "closed"} =>
                             session'[o].pc \in {"closing", "closed"}

Ending(s, why) ==
  /\ Quiet /\ Others(s) /\ SameReading(s)
  /\ session'[s].reason = why /\ session'[s].pc = "closing"
  /\ why \in {"terminal", "idle_timeout", "other"}
  /\ why = "terminal" => session[s].over /\ session[s].cursor >= session[s].latest

Polling(s) ==
  /\ Quiet /\ Others(s)
  /\ session[s].pc = "readRun" /\ session'[s].reason = session[s].reason
  /\ session'[s].cursor = session[s].cursor /\ session'[s].batch = session[s].batch
  /\ session'[s].over = ended /\ session'[s].latest = nextSeq - 1

Fetching(s) ==
  /\ Quiet /\ Others(s)
  /\ session[s].pc = "readEvents" /\ session'[s].reason = session[s].reason
  /\ session'[s].cursor = session[s].cursor /\ session'[s].batch = NextEvents(s)
  /\ session'[s].over = session[s].over /\ session'[s].latest = session[s].latest

Writing(s, q) ==
  /\ UNCHANGED <<log, nextSeq, ended, received, reading>> /\ Others(s)
  /\ session[s].pc = "yield" /\ q \in session[s].batch /\ q = session[s].cursor + 1
  /\ wire' = [wire EXCEPT ![s] = Append(@, q)]
  /\ session'[s].cursor = q /\ session'[s].batch = session[s].batch \ {q}
  /\ session'[s].over = session[s].over /\ session'[s].latest = session[s].latest
  /\ IsTerminal(q) => session'[s].pc = "closing" /\ session'[s].reason = "terminal"
  /\ ~IsTerminal(q) => session'[s].pc = session[s].pc /\ session'[s].reason = session[s].reason

Leaving(t) ==
  /\ UNCHANGED <<log, nextSeq, ended, session, received>>
  /\ reading[t] \in Session
  /\ reading' = [reading EXCEPT ![t] = NoSession]
  /\ \A o \in Session : o # reading[t] => wire'[o] = wire[o]

LEMMA EverySessionStep ==
  ASSUME TypeOK, BatchContinues, NEW s \in Session, SessionStep(s)
  PROVE  \/ ControlStep \/ Polling(s) \/ Fetching(s)
         \/ \E why \in Reason : Ending(s, why)
         \/ \E q \in Nat : Writing(s, q)
<1> USE DEF TypeOK
<1>1. session[s] \in SessionState
  OBVIOUS
<1>2. CASE GetRun(s) \/ Register(s) \/ Close(s)
  <2>1. Quiet
    BY <1>2 DEF GetRun, Register, Close, Quiet, logVars
  <2>2. CASE GetRun(s)
    BY <2>1, <2>2 DEF GetRun, At, ControlStep, SameReading, SessionState
  <2>3. CASE Register(s)
    <3>1. \/ session' = [session EXCEPT ![s].pc = "refused"]
          \/ session' = [session EXCEPT ![s].pc = "readRun"]
      BY <2>3, Zenon DEF Register
    <3>2. session[s].pc = "register"
      BY <2>3 DEF Register, At
    <3>3. \A o \in Session : SameReading(o) /\ session'[o].reason = session[o].reason
      <4>1. CASE session' = [session EXCEPT ![s].pc = "refused"]
        BY <4>1 DEF SameReading, SessionState
      <4>2. CASE session' = [session EXCEPT ![s].pc = "readRun"]
        BY <4>2 DEF SameReading, SessionState
      <4> QED BY <3>1, <4>1, <4>2
    <3>4. \A o \in Session : session[o].pc \in {"closing", "closed"} => session'[o].pc = session[o].pc
      BY <3>1, <3>2
    <3> QED BY <2>1, <3>3, <3>4 DEF ControlStep
  <2>4. CASE Close(s)
    BY <2>1, <2>4 DEF Close, At, ControlStep, SameReading, SessionState
  <2> QED BY <1>2, <2>2, <2>3, <2>4
<1>3. ASSUME NEW why \in {"terminal", "idle_timeout", "other"}, Ends(s, why), Quiet,
             why = "terminal" => session[s].over /\ session[s].cursor >= session[s].latest
      PROVE  \E w \in Reason : Ending(s, w)
  <2>1. Ending(s, why)
    BY <1>3 DEF Ends, Ending, Others, SameReading, SessionState
  <2> QED BY <2>1 DEF Reason
<1>4. CASE ReadRun(s)
  <2>1. Quiet /\ session[s].pc = "readRun"
    BY <1>4 DEF ReadRun, At, Quiet, logVars
  <2>2. \/ Ends(s, "other")
        \/ session' = [session EXCEPT ![s].pc = "readEvents", ![s].latest = nextSeq - 1,
                                      ![s].over = ended]
    BY <1>4, Zenon DEF ReadRun
  <2>3. CASE session' = [session EXCEPT ![s].pc = "readEvents", ![s].latest = nextSeq - 1,
                                        ![s].over = ended]
    BY <2>1, <2>3 DEF Polling, Others, SessionState
  <2> QED BY <1>3, <2>1, <2>2, <2>3
<1>5. CASE ReadEvents(s)
  <2>1. Quiet /\ session[s].pc = "readEvents"
    BY <1>5 DEF ReadEvents, At, Quiet, logVars
  <2>2. CASE session' = [session EXCEPT ![s].pc = "yield", ![s].batch = NextEvents(s),
                                        ![s].full = NextEvents(s) # {}]
    <3>1. session'[s] = [session[s] EXCEPT !.pc = "yield", !.batch = NextEvents(s),
                                           !.full = NextEvents(s) # {}]
      BY <2>2
    <3>2. Others(s)
      BY <2>2 DEF Others
    <3> QED BY <1>1, <2>1, <3>1, <3>2 DEF Fetching, SessionState
  <2> QED BY <1>3, <1>5, <2>1, <2>2 DEF ReadEvents
<1>6. CASE EndOfBatch(s)
  <2>1. Quiet /\ session[s].pc = "yield"
    BY <1>6 DEF EndOfBatch, At, Quiet, logVars
  <2> DEFINE done == session[s].over /\ session[s].cursor >= session[s].latest
  <2>2. \/ \E n : session' = [session EXCEPT ![s].pc = "readRun", ![s].through = n]
        \/ Ends(s, IF done THEN "terminal" ELSE "idle_timeout")
    BY <1>6, Zenon DEF EndOfBatch
  <2>3. ASSUME NEW n, session' = [session EXCEPT ![s].pc = "readRun", ![s].through = n]
        PROVE  ControlStep
    BY <2>1, <2>3 DEF ControlStep, SameReading, SessionState
  <2>4. CASE Ends(s, IF done THEN "terminal" ELSE "idle_timeout")
    <3>1. CASE done
      <4>1. Ends(s, "terminal")
        BY <2>4, <3>1
      <4> QED BY <1>3, <2>1, <3>1, <4>1
    <3>2. CASE ~done
      <4>1. Ends(s, "idle_timeout")
        BY <2>4, <3>2
      <4> QED BY <1>3, <2>1, <4>1
    <3> QED BY <3>1, <3>2
  <2> QED BY <2>2, <2>3, <2>4
<1>7. ASSUME NEW q \in session[s].batch, YieldEvent(s, q)
      PROVE  (\E why \in Reason : Ending(s, why)) \/ Writing(s, q)
  <2>1. q \in Nat /\ session[s].cursor \in Nat
    BY <1>1 DEF SessionState
  <2>2. q = session[s].cursor + 1
    <3>1. session[s].cursor < q
      BY DEF BatchContinues
    <3>2. session[s].cursor + 1 \in Nat /\ session[s].cursor < session[s].cursor + 1
          /\ session[s].cursor + 1 <= q
      BY <2>1, <3>1
    <3>3. session[s].cursor + 1 \in session[s].batch
      BY <3>2 DEF BatchContinues
    <3>4. q <= session[s].cursor + 1
      BY <1>7, <3>3 DEF YieldEvent
    <3> QED BY <2>1, <3>1, <3>4
  <2>3. session[s].pc = "yield" /\ UNCHANGED <<log, nextSeq, ended, received, reading>>
    BY <1>7 DEF YieldEvent, At, logVars
  <2> DEFINE pc == IF IsTerminal(q) THEN "closing" ELSE session[s].pc
             why == IF IsTerminal(q) THEN "terminal" ELSE session[s].reason
  <2>4. \/ /\ wire' = [wire EXCEPT ![s] = Append(@, q)]
           /\ session' = [session EXCEPT ![s].cursor = q, ![s].batch = @ \ {q},
                                         ![s].pc = pc, ![s].reason = why]
        \/ Ends(s, "other") /\ UNCHANGED wire
    BY <1>7, <2>2 DEF YieldEvent
  <2>5. ASSUME wire' = [wire EXCEPT ![s] = Append(@, q)],
               session' = [session EXCEPT ![s].cursor = q, ![s].batch = @ \ {q},
                                          ![s].pc = pc, ![s].reason = why]
        PROVE  Writing(s, q)
    <3>1. session' = [session EXCEPT ![s] = [session[s] EXCEPT
                        !.cursor = q, !.batch = @ \ {q}, !.pc = pc, !.reason = why]]
      BY <2>5
    <3>2. Others(s)
      BY <3>1 DEF Others
    <3>3. /\ session'[s].cursor = q /\ session'[s].batch = session[s].batch \ {q}
          /\ session'[s].over = session[s].over /\ session'[s].latest = session[s].latest
          /\ session'[s].pc = pc /\ session'[s].reason = why
      <4> HIDE DEF pc, why
      <4> QED BY <1>1, <3>1 DEF SessionState
    <3> QED BY <2>2, <2>3, <2>5, <3>2, <3>3 DEF Writing
  <2>6. CASE Ends(s, "other") /\ UNCHANGED wire
    BY <1>3, <2>3, <2>6 DEF Quiet
  <2> QED BY <2>4, <2>5, <2>6
<1>8. \A q \in session[s].batch : q \in Nat
  BY <1>1 DEF SessionState
<1> QED BY <1>2, <1>4, <1>5, <1>6, <1>7, <1>8 DEF SessionStep

LEMMA EveryStep ==
  ASSUME TypeOK, BatchContinues, Next
  PROVE  \/ RunAppends \/ ControlStep
         \/ \E s \in Session : Polling(s) \/ Fetching(s)
         \/ \E s \in Session, why \in Reason : Ending(s, why)
         \/ \E s \in Session, q \in Nat : Writing(s, q)
         \/ \E t \in Tab, s \in Session : Connect(t, s)
         \/ \E t \in Tab : ApplyEvent(t) \/ Leaving(t)
<1> USE DEF TypeOK
<1>1. ASSUME NEW s \in Session, NoticeGone(s) \/ TokenExpires(s) PROVE ControlStep
  <2>1. session' = [session EXCEPT ![s].aborted = TRUE] /\ Quiet
    BY <1>1 DEF NoticeGone, TokenExpires, Quiet, logVars
  <2> QED BY <2>1 DEF ControlStep, SameReading, SessionState
<1>2. CASE Shutdown
  <2>1. \A o \in Session : session'[o] = [session[o] EXCEPT !.aborted = @ \/ session[o].pc \in Active]
    BY <1>2 DEF Shutdown
  <2> QED BY <1>2, <2>1 DEF Shutdown, ControlStep, Quiet, SameReading, SessionState, logVars
<1>3. CASE Restart
  <2>1. \A o \in Session : session'[o] = [session[o] EXCEPT !.pc = IF @ = "idle" THEN @ ELSE "closed"]
    BY <1>3 DEF Restart
  <2>2. Quiet
    BY <1>3 DEF Restart, Quiet, logVars
  <2>3. ASSUME NEW o \in Session PROVE SameReading(o) /\ session'[o].reason = session[o].reason
    <3> DEFINE pc == IF session[o].pc = "idle" THEN "idle" ELSE "closed"
    <3>1. session'[o] = [session[o] EXCEPT !.pc = pc]
      BY <2>1
    <3> HIDE DEF pc
    <3> QED BY <3>1 DEF SameReading, SessionState
  <2>4. \A o \in Session : session'[o].pc = IF session[o].pc = "idle" THEN "idle" ELSE "closed"
    BY <2>1 DEF SessionState
  <2> QED BY <2>2, <2>3, <2>4 DEF ControlStep
<1>4. ASSUME NEW t \in Tab, SeeEnd(t) \/ Disconnect(t) PROVE Leaving(t)
  <2>1. reading[t] \in Session
    BY <1>4 DEF SeeEnd, Disconnect
  <2> QED BY <1>4, <2>1 DEF SeeEnd, Disconnect, Leaving, logVars
<1> QED BY <1>1, <1>2, <1>3, <1>4, EverySessionStep DEF Next, TabStep
-----------------------------------------------------------------------------
(* What the sessions have read *)

\* readStreamBatch reads the log on from the cursor, without a hole.
LEMMA NextEventsContinue ==
  ASSUME TypeOK, LogHasNoHole, NEW s \in Session, NEW q \in NextEvents(s)
  PROVE  /\ session[s].cursor < q /\ q < nextSeq
         /\ \A p \in Nat : session[s].cursor < p /\ p <= q => p \in NextEvents(s)
<1> DEFINE after == {r \in log : /\ r > session[s].cursor
                                 /\ session[s].through # 0 => r <= session[s].through}
<1>1. session[s].cursor \in Nat /\ session[s].through \in Nat /\ q \in Nat /\ nextSeq \in Nat
  BY NextEventsInLog DEF TypeOK, SessionState
<1>2. q \in after /\ q \in 1 .. nextSeq - 1
  BY DEF NextEvents, LogHasNoHole
<1>3. ASSUME NEW p \in Nat, session[s].cursor < p, p <= q PROVE p \in NextEvents(s)
  <2>1. p \in after
    BY <1>1, <1>2, <1>3 DEF LogHasNoHole
  <2>2. IsFiniteSet({r \in after : r <= q})
    <3>1. {r \in after : r <= q} \in SUBSET (1 .. nextSeq - 1)
      BY DEF LogHasNoHole
    <3> QED BY <1>1, <3>1, FS_Interval, FS_Subset
  <2>3. {r \in after : r <= p} \in SUBSET {r \in after : r <= q}
    BY <1>1, <1>3 DEF LogHasNoHole
  <2>4. /\ Cardinality({r \in after : r <= p}) <= Cardinality({r \in after : r <= q})
        /\ Cardinality({r \in after : r <= p}) \in Nat /\ Cardinality({r \in after : r <= q}) \in Nat
    BY <2>2, <2>3, FS_Subset, FS_CardinalityType
  <2>5. Cardinality({r \in after : r <= q}) <= ReplayLimit
    BY DEF NextEvents
  <2>6. Cardinality({r \in after : r <= p}) <= ReplayLimit
    <3> HIDE DEF after
    <3> QED BY <2>4, <2>5, BoundsHold
  <2> QED BY <2>1, <2>6 DEF NextEvents
<1> QED BY <1>1, <1>2, <1>3

LEMMA ReadInit == Init => Read
BY DEF Init, LogInit, Closed, Read, LogHasNoHole, CursorInLog, BatchContinues, OverIsFinal

LEMMA LogHolds ==
  ASSUME TypeOK, LogHasNoHole, BatchContinues, [Next]_vars
  PROVE  /\ LogHasNoHole' /\ nextSeq <= nextSeq'
         /\ ended => ended' /\ nextSeq' = nextSeq
<1>1. CASE RunAppends
  <2>1. PICK k \in {1, 2} : AppendEvents(k)
    BY <1>1 DEF RunAppends
  <2>2. nextSeq' = nextSeq + k /\ log' = (1 .. nextSeq - 1) \cup (nextSeq .. nextSeq + k - 1)
    BY <2>1 DEF AppendEvents, LogHasNoHole
  <2>3. log' = 1 .. nextSeq' - 1
    BY <2>2 DEF LogHasNoHole
  <2> QED BY <2>1, <2>2, <2>3 DEF AppendEvents, LogHasNoHole
<1>2. CASE UNCHANGED <<log, nextSeq, ended>>
  BY <1>2 DEF LogHasNoHole
<1> QED BY <1>1, <1>2, EveryStep
        DEF ControlStep, Quiet, Ending, Polling, Fetching, Writing, Connect, ApplyEvent, Leaving, vars, logVars

LEMMA ReadHolds ==
  ASSUME TypeOK, Told, Read, [Next]_vars
  PROVE  Read'
<1> USE DEF Read
<1>1. LogHasNoHole' /\ nextSeq <= nextSeq' /\ (ended => ended' /\ nextSeq' = nextSeq)
  BY LogHolds
<1>2. /\ nextSeq \in Nat /\ nextSeq' \in Nat /\ \A t \in Tab : received[t] \in Nat
      /\ \A s \in Session : /\ session[s].cursor \in Nat /\ session[s].batch \subseteq Nat
                            /\ session[s].latest \in Nat
  BY <1>1 DEF TypeOK, SessionState, LogHasNoHole
\* A step that leaves what was read and applied alone.
<1>3. ASSUME \A o \in Session : SameReading(o), received' = received PROVE Read'
  BY <1>1, <1>2, <1>3 DEF SameReading, CursorInLog, BatchContinues, OverIsFinal
<1>4. CASE RunAppends \/ ControlStep \/ UNCHANGED vars
  BY <1>3, <1>4 DEF RunAppends, ControlStep, Quiet, vars, streamVars, SameReading
<1>5. ASSUME NEW s \in Session, NEW why \in Reason, Ending(s, why) PROVE Read'
  BY <1>3, <1>5 DEF Ending, Quiet, Others, SameReading
<1>6. ASSUME NEW t \in Tab, Leaving(t) PROVE Read'
  BY <1>3, <1>6 DEF Leaving, SameReading
<1>7. ASSUME NEW s \in Session, Polling(s) PROVE Read'
  <2>1. Quiet /\ Others(s) /\ received' = received
    BY <1>7 DEF Polling, Quiet
  <2>2. CursorInLog' /\ BatchContinues'
    BY <1>2, <1>7, <2>1 DEF Polling, Quiet, Others, CursorInLog, BatchContinues
  <2>3. OverIsFinal'
    BY <1>7, <2>1 DEF Polling, Quiet, Others, OverIsFinal
  <2> QED BY <1>1, <2>2, <2>3
<1>8. ASSUME NEW s \in Session, Fetching(s) PROVE Read'
  <2>1. Quiet /\ Others(s)
    BY <1>8 DEF Fetching
  <2>2. CursorInLog' /\ OverIsFinal'
    BY <1>2, <1>8, <2>1 DEF Fetching, Quiet, Others, CursorInLog, OverIsFinal
  <2>3. ASSUME NEW o \in Session, NEW q \in session'[o].batch
        PROVE  /\ session'[o].cursor < q /\ q < nextSeq'
               /\ \A p \in Nat : session'[o].cursor < p /\ p <= q => p \in session'[o].batch
    <3>1. CASE o = s
      BY <1>8, <2>1, <2>3, <3>1, NextEventsContinue DEF Fetching, Quiet
    <3>2. CASE o # s
      BY <2>1, <2>3, <3>2 DEF Quiet, Others, BatchContinues
    <3> QED BY <3>1, <3>2
  <2> QED BY <1>1, <2>2, <2>3 DEF BatchContinues
<1>9. ASSUME NEW s \in Session, NEW q \in Nat, Writing(s, q) PROVE Read'
  <2>1. Others(s) /\ UNCHANGED <<nextSeq, ended, received>>
    BY <1>9 DEF Writing
  <2>2. q < nextSeq /\ q = session[s].cursor + 1
    BY <1>9 DEF Writing, BatchContinues
  <2>3. CursorInLog' /\ OverIsFinal'
    BY <1>2, <1>9, <2>1, <2>2 DEF Writing, Others, CursorInLog, OverIsFinal
  <2>4. ASSUME NEW o \in Session, NEW r \in session'[o].batch
        PROVE  /\ session'[o].cursor < r /\ r < nextSeq'
               /\ \A p \in Nat : session'[o].cursor < p /\ p <= r => p \in session'[o].batch
    <3>1. CASE o = s
      <4>1. /\ session'[s].cursor = session[s].cursor + 1
            /\ session'[s].batch = session[s].batch \ {session[s].cursor + 1}
            /\ r \in session[s].batch /\ r # session[s].cursor + 1 /\ r \in Nat
        BY <1>2, <1>9, <2>2, <2>4, <3>1 DEF Writing
      <4>2. session[s].cursor < r /\ r < nextSeq
        BY <4>1 DEF BatchContinues
      <4>3. \A p \in Nat : session[s].cursor < p /\ p <= r => p \in session[s].batch
        BY <4>1 DEF BatchContinues
      <4> QED BY <1>2, <2>1, <3>1, <4>1, <4>2, <4>3
    <3>2. CASE o # s
      BY <2>1, <2>4, <3>2 DEF Others, BatchContinues
    <3> QED BY <3>1, <3>2
  <2> QED BY <1>1, <2>3, <2>4 DEF BatchContinues
<1>10. ASSUME NEW t \in Tab, NEW s \in Session, Connect(t, s) PROVE Read'
  <2>1. /\ UNCHANGED <<nextSeq, ended, received>> /\ Others(s)
        /\ session'[s] = [Closed EXCEPT !.pc = "getRun", !.cursor = received[t]]
    BY <1>10 DEF Connect, logVars, TypeOK, Others
  <2>2. session'[s].cursor = received[t] /\ session'[s].batch = {} /\ ~session'[s].over
    BY <2>1 DEF Closed
  <2>3. CursorInLog' /\ OverIsFinal' /\ BatchContinues'
    BY <2>1, <2>2 DEF Others, CursorInLog, OverIsFinal, BatchContinues
  <2> QED BY <1>1, <2>3
<1>11. ASSUME NEW t \in Tab, ApplyEvent(t) PROVE Read'
  <2>1. /\ UNCHANGED <<nextSeq, ended, session>> /\ reading[t] \in Session
        /\ wire[reading[t]] \in Seq(Nat) /\ wire[reading[t]] # <<>>
        /\ received' = [received EXCEPT ![t] = Head(wire[reading[t]])]
    BY <1>11 DEF ApplyEvent, logVars, TypeOK
  <2>2. /\ Len(wire[reading[t]]) \in Nat /\ 1 <= Len(wire[reading[t]])
        /\ Head(wire[reading[t]]) = wire[reading[t]][1]
    BY <2>1
  <2>3. Head(wire[reading[t]]) = received[t] + 1
    BY <1>11, <2>2 DEF ApplyEvent, Told, WireContinues
  <2>4. received[t] + Len(wire[reading[t]]) < nextSeq
    BY <1>11, <2>1 DEF ApplyEvent, Told, CursorIsTold, CursorInLog
  <2>5. received[t] + 1 < nextSeq
    BY <1>2, <2>2, <2>4
  <2>6. CursorInLog'
    BY <2>1, <2>3, <2>5 DEF CursorInLog, TypeOK
  <2>7. BatchContinues' /\ OverIsFinal'
    BY <2>1 DEF BatchContinues, OverIsFinal
  <2> QED BY <1>1, <2>6, <2>7
<1> QED BY <1>4, <1>5, <1>6, <1>7, <1>8, <1>9, <1>10, <1>11, EveryStep
-----------------------------------------------------------------------------
(* What a tab was told *)

LEMMA ToldInit == Init => Told
BY BoundsHold DEF Init, Told, OneReader, WireContinues, CursorIsTold

LEMMA ToldHolds ==
  ASSUME TypeOK, Told, Read, [Next]_vars
  PROVE  Told'
<1> USE DEF Told
<1>1. /\ \A t \in Tab : received[t] \in Nat /\ reading[t] \in Session \cup {NoSession}
      /\ \A s \in Session : wire[s] \in Seq(Nat) /\ session[s].cursor \in Nat
  BY DEF TypeOK, SessionState
<1>2. ASSUME \A o \in Session : session'[o].cursor = session[o].cursor, UNCHANGED <<wire, received, reading>>
      PROVE  Told'
  BY <1>1, <1>2 DEF OneReader, WireContinues, CursorIsTold
<1>3. CASE RunAppends \/ ControlStep \/ UNCHANGED vars
  BY <1>2, <1>3 DEF RunAppends, ControlStep, Quiet, vars, streamVars, SameReading
<1>4. ASSUME NEW s \in Session, (\E why \in Reason : Ending(s, why)) \/ Polling(s) \/ Fetching(s)
      PROVE  Told'
  BY <1>2, <1>4 DEF Ending, Polling, Fetching, Quiet, Others, SameReading
<1>5. ASSUME NEW s \in Session, NEW q \in Nat, Writing(s, q) PROVE Told'
  <2>1. /\ UNCHANGED <<received, reading>> /\ Others(s) /\ q = session[s].cursor + 1
        /\ wire' = [wire EXCEPT ![s] = Append(@, q)] /\ session'[s].cursor = q
    BY <1>5 DEF Writing
  <2>2. ASSUME NEW t \in Tab, reading[t] # NoSession
        PROVE  /\ session'[reading[t]].cursor = received[t] + Len(wire'[reading[t]])
               /\ \A i \in 1 .. Len(wire'[reading[t]]) : wire'[reading[t]][i] = received[t] + i
    <3>1. /\ reading[t] \in Session
          /\ session[reading[t]].cursor = received[t] + Len(wire[reading[t]])
          /\ \A i \in 1 .. Len(wire[reading[t]]) : wire[reading[t]][i] = received[t] + i
      BY <1>1, <2>2 DEF CursorIsTold, WireContinues
    <3>2. CASE reading[t] = s
      <4>1. wire'[s] = Append(wire[s], q) /\ Len(wire'[s]) = Len(wire[s]) + 1 /\ Len(wire[s]) \in Nat
        BY <1>1, <2>1 DEF TypeOK
      <4>2. q = received[t] + (Len(wire[s]) + 1)
        <5>1. session[s].cursor = received[t] + Len(wire[s])
          BY <3>1, <3>2
        <5>2. received[t] \in Nat /\ Len(wire[s]) \in Nat /\ q = session[s].cursor + 1
          BY <1>1, <2>1, <4>1
        <5> QED BY <5>1, <5>2
      <4>3. ASSUME NEW i \in 1 .. Len(wire'[s]) PROVE wire'[s][i] = received[t] + i
        <5>1. CASE i = Len(wire[s]) + 1
          BY <1>1, <4>1, <4>2, <5>1
        <5>2. CASE i # Len(wire[s]) + 1
          <6>1. i \in 1 .. Len(wire[s]) /\ wire'[s][i] = wire[s][i]
            BY <1>1, <4>1, <5>2
          <6> QED BY <3>1, <3>2, <6>1
        <5> QED BY <5>1, <5>2
      <4> QED BY <2>1, <3>2, <4>1, <4>2, <4>3
    <3>3. CASE reading[t] # s
      <4>1. wire'[reading[t]] = wire[reading[t]] /\ session'[reading[t]] = session[reading[t]]
        BY <2>1, <3>1, <3>3 DEF Others, TypeOK
      <4> QED BY <3>1, <4>1
    <3> QED BY <3>2, <3>3
  <2> QED BY <2>1, <2>2 DEF OneReader, WireContinues, CursorIsTold
<1>6. ASSUME NEW t \in Tab, NEW s \in Session, Connect(t, s) PROVE Told'
  <2>1. /\ UNCHANGED received /\ Others(s)
        /\ session'[s] = [Closed EXCEPT !.pc = "getRun", !.cursor = received[t]]
        /\ wire' = [wire EXCEPT ![s] = <<>>] /\ reading' = [reading EXCEPT ![t] = s]
        /\ \A u \in Tab : reading[u] # s
    BY <1>6 DEF Connect, TypeOK, Others
  <2>2. session'[s].cursor = received[t] /\ wire'[s] = <<>> /\ Len(wire'[s]) = 0
    BY <2>1 DEF Closed, TypeOK
  <2>3. /\ reading'[t] = s
        /\ \A u \in Tab : u # t => /\ reading'[u] = reading[u] /\ reading[u] # s
                                   /\ reading[u] # NoSession =>
                                        /\ wire'[reading[u]] = wire[reading[u]]
                                        /\ session'[reading[u]] = session[reading[u]]
    BY <1>1, <2>1 DEF TypeOK, Others
  <2>4. OneReader'
    BY <2>3 DEF OneReader
  <2>5. ASSUME NEW u \in Tab, reading'[u] # NoSession
        PROVE  /\ session'[reading'[u]].cursor = received[u] + Len(wire'[reading'[u]])
               /\ \A i \in 1 .. Len(wire'[reading'[u]]) : wire'[reading'[u]][i] = received[u] + i
    <3>1. CASE u = t
      BY <1>1, <2>2, <2>3, <3>1
    <3>2. CASE u # t
      BY <2>3, <2>5, <3>2 DEF CursorIsTold, WireContinues
    <3> QED BY <3>1, <3>2
  <2> QED BY <2>1, <2>4, <2>5 DEF CursorIsTold, WireContinues
<1>7. ASSUME NEW t \in Tab, ApplyEvent(t) PROVE Told'
  <2> DEFINE s == reading[t]
  <2>1. /\ UNCHANGED <<session, reading>> /\ s \in Session /\ s # NoSession
        /\ wire[s] \in Seq(Nat) /\ wire[s] # <<>>
        /\ received' = [received EXCEPT ![t] = Head(wire[s])]
        /\ wire' = [wire EXCEPT ![s] = Tail(wire[s])]
    BY <1>7 DEF ApplyEvent, TypeOK
  <2>2. /\ Len(wire[s]) \in Nat /\ 1 <= Len(wire[s]) /\ Len(Tail(wire[s])) = Len(wire[s]) - 1
        /\ Head(wire[s]) = wire[s][1]
        /\ \A i \in 1 .. Len(Tail(wire[s])) : Tail(wire[s])[i] = wire[s][i + 1]
    BY <2>1
  <2>3. received'[t] = received[t] + 1 /\ wire'[s] = Tail(wire[s])
    BY <2>1, <2>2 DEF WireContinues, TypeOK
  <2>4. /\ session'[s].cursor = received'[t] + Len(wire'[s])
        /\ \A i \in 1 .. Len(wire'[s]) : wire'[s][i] = received'[t] + i
    <3>1. session[s].cursor = received[t] + Len(wire[s])
      BY <2>1 DEF CursorIsTold
    <3>2. ASSUME NEW i \in 1 .. Len(wire[s]) - 1 PROVE wire[s][i + 1] = received[t] + 1 + i
      <4>1. i + 1 \in 1 .. Len(wire[s])
        BY <2>2
      <4>2. wire[s][i + 1] = received[t] + (i + 1)
        BY <2>1, <4>1 DEF WireContinues
      <4> QED BY <1>1, <4>2
    <3>3. session'[s].cursor = received'[t] + Len(wire'[s])
      <4>1. received[t] \in Nat /\ received'[t] = received[t] + 1 /\ Len(wire'[s]) = Len(wire[s]) - 1
        BY <1>1, <2>2, <2>3
      <4>2. session'[s].cursor = received[t] + Len(wire[s])
        BY <2>1, <3>1
      <4> HIDE DEF s
      <4> QED BY <2>2, <4>1, <4>2
    <3>4. ASSUME NEW i \in 1 .. Len(wire'[s]) PROVE wire'[s][i] = received'[t] + i
      <4>1. i \in 1 .. Len(wire[s]) - 1 /\ i \in 1 .. Len(Tail(wire[s])) /\ wire'[s] = Tail(wire[s])
        BY <2>2, <2>3
      <4>2. wire'[s][i] = wire[s][i + 1] /\ wire[s][i + 1] = received[t] + 1 + i
        BY <2>2, <3>2, <4>1
      <4> QED BY <2>3, <4>2
    <3> QED BY <3>3, <3>4
  <2>5. ASSUME NEW u \in Tab, reading[u] # NoSession, u # t
        PROVE  /\ session'[reading[u]].cursor = received'[u] + Len(wire'[reading[u]])
               /\ \A i \in 1 .. Len(wire'[reading[u]]) : wire'[reading[u]][i] = received'[u] + i
    <3>1. reading[u] # s /\ reading[u] \in Session
      BY <1>1, <2>1, <2>5 DEF OneReader
    <3>2. wire'[reading[u]] = wire[reading[u]] /\ received'[u] = received[u]
      BY <2>1, <2>5, <3>1 DEF TypeOK
    <3> QED BY <2>1, <2>5, <3>2 DEF CursorIsTold, WireContinues
  <2> QED BY <2>1, <2>4, <2>5 DEF OneReader, CursorIsTold, WireContinues
<1>8. ASSUME NEW t \in Tab, Leaving(t) PROVE Told'
  <2>1. /\ UNCHANGED <<session, received>> /\ reading[t] \in Session
        /\ reading' = [reading EXCEPT ![t] = NoSession]
        /\ \A o \in Session : o # reading[t] => wire'[o] = wire[o]
    BY <1>8 DEF Leaving
  <2>2. ASSUME NEW u \in Tab, reading'[u] # NoSession
        PROVE  /\ reading'[u] = reading[u] /\ reading[u] \in Session
               /\ wire'[reading[u]] = wire[reading[u]]
    <3>1. u # t /\ reading'[u] = reading[u]
      BY <2>1, <2>2 DEF TypeOK
    <3>2. reading[u] # reading[t] /\ reading[u] \in Session
      BY <1>1, <2>1, <2>2, <3>1, BoundsHold DEF OneReader
    <3> QED BY <2>1, <3>1, <3>2
  <2>3. OneReader'
    BY <2>2 DEF OneReader
  <2>4. WireContinues' /\ CursorIsTold'
    BY <2>1, <2>2 DEF WireContinues, CursorIsTold
  <2> QED BY <2>3, <2>4
<1> QED BY <1>3, <1>4, <1>5, <1>6, <1>7, <1>8, EveryStep DEF Read
-----------------------------------------------------------------------------
(* How a session ended *)

LEMMA OverInit == Init => Over
BY DEF Init, Closed, Over, ReasonAtEnd, NoGapReported, TerminalIsComplete

LEMMA OverHolds ==
  ASSUME TypeOK, Read, Over, [Next]_vars
  PROVE  Over'
<1> USE DEF Over
<1>1. /\ LogHasNoHole' /\ nextSeq <= nextSeq' /\ (ended => ended' /\ nextSeq' = nextSeq)
      /\ nextSeq \in Nat
  BY LogHolds DEF Read, LogHasNoHole
<1>2. ASSUME \A o \in Session : /\ session'[o].reason = session[o].reason
                                /\ session[o].pc \in {"closing", "closed"} =>
                                     /\ session'[o].pc \in {"closing", "closed"}
                                     /\ session'[o].cursor = session[o].cursor
      PROVE  Over'
  BY <1>1, <1>2 DEF ReasonAtEnd, NoGapReported, TerminalIsComplete
<1>3. CASE RunAppends \/ ControlStep \/ UNCHANGED vars
  BY <1>2, <1>3 DEF RunAppends, ControlStep, vars, streamVars, SameReading
<1>4. ASSUME NEW s \in Session, Polling(s) \/ Fetching(s) PROVE Over'
  BY <1>2, <1>4 DEF Polling, Fetching, Others
<1>5. ASSUME NEW t \in Tab, ApplyEvent(t) \/ Leaving(t) PROVE Over'
  BY <1>2, <1>5 DEF ApplyEvent, Leaving
\* One session ends, or starts anew.
<1>6. ASSUME NEW s \in Session, Others(s),
             session'[s].reason # "none" => session'[s].pc \in {"closing", "closed"},
             session'[s].reason # "sequence_gap",
             session'[s].reason = "terminal" => ended' /\ session'[s].cursor = nextSeq' - 1
      PROVE  Over'
  BY <1>1, <1>6 DEF Others, ReasonAtEnd, NoGapReported, TerminalIsComplete
<1>7. ASSUME NEW s \in Session, NEW why \in Reason, Ending(s, why) PROVE Over'
  <2>1. Others(s) /\ session'[s].reason = why /\ session'[s].pc = "closing"
        /\ why \in {"terminal", "idle_timeout", "other"}
    BY <1>7 DEF Ending
  <2>2. why = "terminal" => ended' /\ session'[s].cursor = nextSeq' - 1
    <3>1. SUFFICES ASSUME why = "terminal" PROVE ended' /\ session'[s].cursor = nextSeq' - 1
      OBVIOUS
    <3>2. /\ session[s].over /\ session[s].cursor >= session[s].latest
          /\ session'[s].cursor = session[s].cursor
      BY <1>7, <3>1 DEF Ending, SameReading
    <3>3. ended /\ session[s].latest = nextSeq - 1 /\ session[s].cursor < nextSeq
          /\ session[s].cursor \in Nat
      BY <3>2 DEF Read, OverIsFinal, CursorInLog, TypeOK, SessionState
    <3> QED BY <1>1, <3>2, <3>3
  <2> QED BY <1>6, <2>1, <2>2
<1>8. ASSUME NEW s \in Session, NEW q \in Nat, Writing(s, q) PROVE Over'
  <2>1. CASE IsTerminal(q)
    BY <1>1, <1>6, <1>8, <2>1 DEF Writing, IsTerminal
  <2>2. CASE ~IsTerminal(q)
    BY <1>2, <1>8, <2>2 DEF Writing, Others
  <2> QED BY <2>1, <2>2
<1>9. ASSUME NEW t \in Tab, NEW s \in Session, Connect(t, s) PROVE Over'
  <2>1. Others(s) /\ session'[s] = [Closed EXCEPT !.pc = "getRun", !.cursor = received[t]]
    BY <1>9 DEF Connect, TypeOK, Others
  <2>2. session'[s].reason = "none"
    BY <2>1 DEF Closed
  <2> QED BY <1>6, <2>1, <2>2
<1> QED BY <1>3, <1>4, <1>5, <1>7, <1>8, <1>9, EveryStep DEF Read
-----------------------------------------------------------------------------
(* Who is counted *)

LEMMA CountedInit == Init => Counted
<1> SUFFICES ASSUME Init PROVE Counted
  OBVIOUS
<1>1. Open = {}
  BY DEF Init, Open, Active, Closed
<1>2. IsFiniteSet(Open) /\ Cardinality(Open) = 0
  BY <1>1, FS_EmptySet
<1>3. count = 0
  BY DEF Init
<1> QED BY <1>2, <1>3, BoundsHold DEF Counted, ConnectionsBounded, Open

LEMMA CountedHolds ==
  ASSUME TypeOK, Counted, [Next]_vars
  PROVE  Counted'
<1> USE DEF Active
<1>1. /\ IsFiniteSet(Open) /\ count = Cardinality(Open) /\ count <= MaxConnections
      /\ count \in Nat /\ MaxConnections \in Nat
  BY BoundsHold DEF Counted, ConnectionsBounded, Open, TypeOK
<1>2. ASSUME Open' = Open, count' = count PROVE Counted'
  BY <1>1, <1>2 DEF Counted, ConnectionsBounded, Open
<1>3. ASSUME NEW s \in Session, Register(s) PROVE Counted'
  <2>1. session[s].pc = "register" /\ s \notin Open
    BY <1>3 DEF Register, At, Open
  <2>2. CASE down \/ count >= MaxConnections
    <3>1. session' = [session EXCEPT ![s].pc = "refused"] /\ count' = count
      BY <1>3, <2>2, Zenon DEF Register
    <3>2. Open' = Open
      BY <2>1, <3>1 DEF Open, TypeOK, SessionState
    <3> QED BY <1>2, <3>1, <3>2
  <2>3. CASE ~(down \/ count >= MaxConnections)
    <3>1. session' = [session EXCEPT ![s].pc = "readRun"] /\ count' = count + 1
      BY <1>3, <2>3, Zenon DEF Register
    <3>2. Open' = Open \cup {s}
      BY <2>1, <3>1 DEF Open, TypeOK, SessionState
    <3>3. IsFiniteSet(Open') /\ Cardinality(Open') = count + 1
      BY <1>1, <2>1, <3>2, FS_AddElement
    <3> QED BY <1>1, <2>3, <3>1, <3>3 DEF Counted, ConnectionsBounded, Open
  <2> QED BY <2>2, <2>3
<1>4. ASSUME NEW s \in Session, Close(s) PROVE Counted'
  <2>1. s \in Open /\ session' = [session EXCEPT ![s].pc = "closed"] /\ count' = count - 1
    BY <1>4 DEF Close, At, Open
  <2>2. Open' = Open \ {s}
    BY <2>1 DEF Open, TypeOK, SessionState
  <2>3. IsFiniteSet(Open') /\ Cardinality(Open') = count - 1
    BY <1>1, <2>1, <2>2, FS_RemoveElement
  <2> QED BY <1>1, <2>1, <2>3 DEF Counted, ConnectionsBounded, Open
<1>5. CASE Restart
  <2>1. \A o \in Session : session'[o].pc = IF session[o].pc = "idle" THEN "idle" ELSE "closed"
    BY <1>5 DEF Restart, TypeOK, SessionState
  <2>2. Open' = {} /\ count' = 0
    BY <1>5, <2>1 DEF Restart, Open
  <2> QED BY <1>1, <2>2, FS_EmptySet DEF Counted, ConnectionsBounded, Open
\* Everything else moves no session across the edge of Active.
<1>6. ASSUME count' = count, \A o \in Session : session'[o].pc \in Active <=> session[o].pc \in Active
      PROVE  Counted'
  BY <1>2, <1>6 DEF Open
<1>7. ASSUME NEW s \in Session,
             GetRun(s) \/ ReadRun(s) \/ ReadEvents(s) \/ EndOfBatch(s)
               \/ \E q \in session[s].batch : YieldEvent(s, q)
      PROVE  Counted'
  <2>1. count' = count /\ Others(s)
    BY <1>7 DEF GetRun, ReadRun, ReadEvents, EndOfBatch, YieldEvent, Ends, Others, TypeOK
  <2>2. session'[s].pc \in Active <=> session[s].pc \in Active
    <3> USE DEF TypeOK, SessionState
    <3>1. CASE GetRun(s)
      BY <3>1 DEF GetRun, At
    <3>2. CASE ReadRun(s)
      <4>1. \/ Ends(s, "other")
            \/ session' = [session EXCEPT ![s].pc = "readEvents", ![s].latest = nextSeq - 1,
                                          ![s].over = ended]
        BY <3>2, Zenon DEF ReadRun
      <4> QED BY <3>2, <4>1 DEF ReadRun, At, Ends
    <3>3. CASE ReadEvents(s)
      BY <3>3 DEF ReadEvents, At, Ends
    <3>4. CASE EndOfBatch(s)
      BY <3>4 DEF EndOfBatch, At, Ends
    <3>5. ASSUME NEW q \in session[s].batch, YieldEvent(s, q)
          PROVE  session'[s].pc \in Active <=> session[s].pc \in Active
      BY <3>5 DEF YieldEvent, At, Ends
    <3> QED BY <1>7, <3>1, <3>2, <3>3, <3>4, <3>5
  <2> QED BY <1>6, <2>1, <2>2 DEF Others
<1>8. ASSUME NEW s \in Session, NoticeGone(s) \/ TokenExpires(s) PROVE Counted'
  <2>1. session' = [session EXCEPT ![s].aborted = TRUE] /\ count' = count
    BY <1>8 DEF NoticeGone, TokenExpires
  <2> QED BY <1>6, <2>1 DEF TypeOK, SessionState
<1>9. CASE Shutdown
  <2>1. \A o \in Session : session'[o].pc = session[o].pc
    BY <1>9 DEF Shutdown, TypeOK, SessionState
  <2> QED BY <1>6, <1>9, <2>1 DEF Shutdown
<1>10. ASSUME NEW t \in Tab, NEW s \in Session, Connect(t, s) PROVE Counted'
  BY <1>6, <1>10 DEF Connect, Closed, TypeOK
<1>11. CASE RunAppends \/ UNCHANGED vars \/ \E t \in Tab : ApplyEvent(t) \/ SeeEnd(t) \/ Disconnect(t)
  BY <1>6, <1>11 DEF RunAppends, vars, streamVars, ApplyEvent, SeeEnd, Disconnect
<1> QED BY <1>3, <1>4, <1>5, <1>7, <1>8, <1>9, <1>10, <1>11 DEF Next, SessionStep, TabStep
-----------------------------------------------------------------------------
(* Theorems *)

LEMMA InitHolds == Init => IInv
BY TypedInit, ToldInit, ReadInit, OverInit, CountedInit DEF IInv

LEMMA StepHolds == IInv /\ [Next]_vars => IInv'
<1> SUFFICES ASSUME IInv, [Next]_vars PROVE IInv'
  OBVIOUS
<1>1. TypeOK'
  <2>1. CASE Next
    BY <2>1, TypedSession, TypedRest DEF IInv, Read, Next
  <2>2. CASE UNCHANGED vars
    BY <2>2 DEF IInv, TypeOK, vars, logVars, streamVars
  <2> QED BY <2>1, <2>2
<1> QED BY <1>1, ToldHolds, ReadHolds, OverHolds, CountedHolds DEF IInv

\* Invariant: the strengthening of all safety properties of the stream (AgentStreamService.open
\* and tail, the controller and a reconnecting browser).
THEOREM InductiveInvariant == Spec => []IInv
BY InitHolds, StepHolds, PTL DEF Spec

\* Types: a session's cursor, replay bound and batch, the wires and the connection count stay
\* what they are; the count never goes below zero.
THEOREM TypeCorrect == Spec => []TypeOK
BY InductiveInvariant, PTL DEF IInv

\* However replay, live tail, broken connections, restarts and reconnects of any number of tabs
\* follow each other, a tab is given the events in order, without a hole and once.
THEOREM ReadsInOrder == Spec => []WireContinues
BY InductiveInvariant, PTL DEF IInv, Told

\* tail's check of the sequence never fires on the log of one run.
THEOREM GapIsNeverReported == Spec => []NoGapReported
BY InductiveInvariant, PTL DEF IInv, Over

\* A stream that says 'terminal' has written everything, also when the run ends between the
\* two reads of readStreamBatch.
THEOREM TerminalMeansComplete == Spec => []TerminalIsComplete
BY InductiveInvariant, PTL DEF IInv, Over

\* The connections of a user are counted exactly and never above the limit, for any number of
\* requests whose awaits interleave and whatever path closes them.
THEOREM ConnectionsAreBounded == Spec => []ConnectionsBounded
BY InductiveInvariant, PTL DEF IInv, Counted
=============================================================================
