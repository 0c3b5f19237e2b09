----------------------------- MODULE AgentStream -----------------------------
(***************************************************************************)
(* The event stream of one Agent Run over SSE: AgentStreamService.open and *)
(* tail, the controller that pumps a session into its response, and a      *)
(* browser that reconnects after its last applied event.  The log is       *)
(* AgentEventLog, which AgentRun implements; all its events are visible to *)
(* the user, as no caller gives one another visibility.  One API process   *)
(* serves the tabs of the user; its memory is lost when it goes down.      *)
(* Heartbeats and headers are left out.                                    *)
(***************************************************************************)
EXTENDS AgentEventLog, Sequences, FiniteSets

CONSTANTS
  Tab,             \* browser tabs of the user, all reading the run
  Session,         \* requests to runs/events, each with its own session
  NoSession,
  MaxConnections,  \* maxConnectionsPerUser
  ReplayLimit,     \* rows one readStreamBatch takes
  LogLimit,        \* bound: the run has ended before nextSeq passes it
  FaultBudget      \* bound: lost connections, expired tokens, errors, shutdowns

ASSUME AgentStreamAssumption ==
  /\ NoSession \notin Session
  /\ MaxConnections \in Nat \ {0}
  /\ ReplayLimit \in Nat \ {0}
  /\ LogLimit \in Nat
  /\ FaultBudget \in Nat

Reason == {"none", "terminal", "idle_timeout", "sequence_gap", "other"}
Pc     == {"idle", "getRun", "register", "readRun", "readEvents", "yield",
           "closing", "closed", "refused"}
\* between activeSessions.set and close
Active == {"readRun", "readEvents", "yield", "closing"}

VARIABLES
  session,   \* server side of each request
  count,     \* connectionsByUser of the user
  down,      \* shuttingDown
  wire,      \* events each session has written and its tab has not read yet
  received,  \* last event each tab has applied
  reading,   \* session each tab is reading
  budget

streamVars == <<session, count, down, wire, received, reading, budget>>
vars       == <<logVars, streamVars>>

SessionState == [pc      : Pc,
                 cursor  : Nat,              \* last event yielded
                 through : Nat,              \* replayThrough; 0 once it is undefined
                 latest  : Nat,              \* latestEventSequence of the run last read
                 over    : BOOLEAN,          \* its status was terminal
                 batch   : SUBSET Nat,       \* events read and not yet yielded
                 full    : BOOLEAN,          \* the batch read last had events
                 aborted : BOOLEAN,
                 reason  : Reason]

TypeOK ==
  /\ log \subseteq Nat /\ nextSeq \in Nat /\ ended \in BOOLEAN
  /\ session \in [Session -> SessionState]
  /\ count \in Nat
  /\ down \in BOOLEAN
  /\ wire \in [Session -> Seq(Nat)]
  /\ received \in [Tab -> Nat]
  /\ reading \in [Tab -> Session \cup {NoSession}]
  /\ budget \in 0 .. FaultBudget

Closed == [pc |-> "idle", cursor |-> 0, through |-> 0, latest |-> 0, over |-> FALSE,
           batch |-> {}, full |-> FALSE, aborted |-> FALSE, reason |-> "none"]

Init ==
  /\ LogInit
  /\ session = [s \in Session |-> Closed]
  /\ count = 0
  /\ down = FALSE
  /\ wire = [s \in Session |-> <<>>]
  /\ received = [t \in Tab |-> 0]
  /\ reading = [t \in Tab |-> NoSession]
  /\ budget = FaultBudget

SpendFault == budget > 0 /\ budget' = budget - 1
At(s, pc)  == session[s].pc = pc

\* The session ends with a reason; the controller's finally closes it next.
Ends(s, why) == session' = [session EXCEPT ![s].pc = "closing", ![s].reason = why]

RunAppends ==
  /\ \E k \in {1, 2} : nextSeq + k <= LogLimit /\ AppendEvents(k)
  /\ nextSeq' = LogLimit => ended'
  /\ UNCHANGED streamVars
-----------------------------------------------------------------------------
(* AgentStreamService *)

\* Mutant: the stream starts at the high water, without the replay.
GetRunLiveOnly(s) ==
  /\ At(s, "getRun")
  /\ session' = [session EXCEPT ![s].pc = "register", ![s].through = nextSeq - 1,
                                ![s].cursor = nextSeq - 1]
  /\ UNCHANGED <<logVars, count, down, wire, received, reading, budget>>

\* open: getStreamRun gives the high water of the replay.
GetRun(s) ==
  /\ At(s, "getRun")
  /\ session' = [session EXCEPT ![s].pc = "register", ![s].through = nextSeq - 1]
  /\ UNCHANGED <<logVars, count, down, wire, received, reading, budget>>

\* Mutant: the sessions are counted before the awaits, with those that came since unseen.
RegisterLate(s) ==
  /\ At(s, "register")
  /\ IF down THEN session' = [session EXCEPT ![s].pc = "refused"] /\ UNCHANGED count
     ELSE session' = [session EXCEPT ![s].pc = "readRun"] /\ count' = count + 1
  /\ UNCHANGED <<logVars, down, wire, received, reading, budget>>

\* The rest of open, after its last await: checks, count and registration in one go.
Register(s) ==
  /\ At(s, "register")
  /\ IF down \/ count >= MaxConnections
     THEN session' = [session EXCEPT ![s].pc = "refused"] /\ UNCHANGED count
     ELSE session' = [session EXCEPT ![s].pc = "readRun"] /\ count' = count + 1
  /\ UNCHANGED <<logVars, down, wire, received, reading, budget>>

\* readStreamBatch reads the run first,
ReadRun(s) ==
  /\ At(s, "readRun")
  /\ IF session[s].aborted THEN Ends(s, "other")
     ELSE session' = [session EXCEPT ![s].pc = "readEvents", ![s].latest = nextSeq - 1,
                                     ![s].over = ended]
  /\ UNCHANGED <<logVars, count, down, wire, received, reading, budget>>

\* Mutant: the batch is whatever is newest.
NextEventsNewest(s) ==
  LET after == {q \in log : q > session[s].cursor}
  IN  {q \in after : Cardinality({p \in after : p >= q}) <= ReplayLimit}

\* then the first ReplayLimit events after the cursor, of the replay as long as it lasts.
NextEvents(s) ==
  LET after == {q \in log : /\ q > session[s].cursor
                            /\ session[s].through # 0 => q <= session[s].through}
  IN  {q \in after : Cardinality({p \in after : p <= q}) <= ReplayLimit}

ReadEvents(s) ==
  /\ At(s, "readEvents")
  /\ \/ /\ session' = [session EXCEPT ![s].pc = "yield", ![s].batch = NextEvents(s),
                                      ![s].full = NextEvents(s) # {}]
        /\ UNCHANGED budget
     \/ Ends(s, "other") /\ SpendFault               \* the database fails
  /\ UNCHANGED <<logVars, count, down, wire, received, reading>>

\* The terminal event is the last of the log of a run that is over.
IsTerminal(q) == ended /\ q = nextSeq - 1

\* One event of the batch through the generator into the response.  The pump stops at an
\* abort, and at a client too slow for the buffer.
YieldEvent(s, q) ==
  /\ At(s, "yield")
  /\ q \in session[s].batch
  /\ \A p \in session[s].batch : q <= p
  /\ \/ /\ ~session[s].aborted
        /\ q = session[s].cursor + 1
        /\ wire' = [wire EXCEPT ![s] = Append(@, q)]
        /\ session' = [session EXCEPT
             ![s].cursor = q,
             ![s].batch  = @ \ {q},
             ![s].pc     = IF IsTerminal(q) THEN "closing" ELSE @,
             ![s].reason = IF IsTerminal(q) THEN "terminal" ELSE @]
        /\ UNCHANGED budget
     \/ /\ session[s].aborted \/ q # session[s].cursor + 1
        /\ Ends(s, IF q = session[s].cursor + 1 THEN "other" ELSE "sequence_gap")
        /\ UNCHANGED <<wire, budget>>
     \/ Ends(s, "other") /\ SpendFault /\ UNCHANGED wire
  /\ UNCHANGED <<logVars, count, down, received, reading>>

\* Mutant: a terminal status ends the stream, read or not what was appended before it.
EndOfBatchByStatus(s) ==
  /\ At(s, "yield")
  /\ session[s].batch = {}
  /\ IF session[s].over THEN Ends(s, "terminal")
     ELSE session' = [session EXCEPT ![s].pc = "readRun", ![s].through = 0]
  /\ UNCHANGED <<logVars, count, down, wire, received, reading, budget>>

\* Mutant: the replay never turns into the live tail.
EndOfBatchReplaying(s) ==
  /\ At(s, "yield")
  /\ session[s].batch = {}
  /\ IF session[s].over /\ session[s].cursor >= session[s].latest THEN Ends(s, "terminal")
     ELSE session' = [session EXCEPT ![s].pc = "readRun"]
  /\ UNCHANGED <<logVars, count, down, wire, received, reading, budget>>

\* The batch is yielded: the replay goes on or turns live, the run is over and read to
\* its end, the stream was idle for too long, or the next poll comes.
EndOfBatch(s) ==
  LET now       == session[s]
      replaying == now.through # 0 /\ now.full
      done      == now.over /\ now.cursor >= now.latest
      next      == IF now.cursor >= now.through \/ ~now.full THEN 0 ELSE now.through
  IN  /\ At(s, "yield")
      /\ now.batch = {}
      /\ \/ /\ replaying \/ ~done
            /\ session' = [session EXCEPT ![s].pc = "readRun", ![s].through = next]
         \/ /\ ~replaying
            /\ Ends(s, IF done THEN "terminal" ELSE "idle_timeout")
      /\ UNCHANGED <<logVars, count, down, wire, received, reading, budget>>

\* The controller's finally: session.close, then response.end.
Close(s) ==
  /\ At(s, "closing")
  /\ session' = [session EXCEPT ![s].pc = "closed"]
  /\ count' = count - 1
  /\ UNCHANGED <<logVars, down, wire, received, reading, budget>>

SessionStep(s) ==
  \/ GetRun(s) \/ Register(s) \/ ReadRun(s) \/ ReadEvents(s) \/ EndOfBatch(s) \/ Close(s)
  \/ \E q \in session[s].batch : YieldEvent(s, q)
-----------------------------------------------------------------------------
(* What cuts a session short *)

Abortable(s) == session[s].pc \in {"getRun", "register"} \cup Active /\ ~session[s].aborted

\* The socket of a tab that went away is closed in the end.
NoticeGone(s) ==
  /\ Abortable(s)
  /\ \A t \in Tab : reading[t] # s
  /\ session' = [session EXCEPT ![s].aborted = TRUE]
  /\ UNCHANGED <<logVars, count, down, wire, received, reading, budget>>

TokenExpires(s) ==
  /\ Abortable(s)
  /\ SpendFault
  /\ session' = [session EXCEPT ![s].aborted = TRUE]
  /\ UNCHANGED <<logVars, count, down, wire, received, reading>>

\* onApplicationShutdown aborts what is registered.
Shutdown ==
  /\ ~down
  /\ SpendFault
  /\ down' = TRUE
  /\ session' = [s \in Session |-> [session[s] EXCEPT !.aborted = @ \/ session[s].pc \in Active]]
  /\ UNCHANGED <<logVars, count, wire, received, reading>>

\* The process exits after the shutdown, or crashes; what replaces it starts empty.
Restart ==
  /\ IF down THEN UNCHANGED budget ELSE SpendFault
  /\ down' = FALSE
  /\ session' = [s \in Session |-> [session[s] EXCEPT !.pc = IF @ = "idle" THEN @ ELSE "closed"]]
  /\ count' = 0
  /\ UNCHANGED <<logVars, wire, received, reading>>
-----------------------------------------------------------------------------
(* The browser *)

\* A tab that has not applied the terminal event (re)connects after the event it applied
\* last, by afterSequence or by the Last-Event-ID that resolves to it.
Connect(t, s) ==
  /\ reading[t] = NoSession
  /\ ~IsTerminal(received[t])
  /\ session[s].pc \in {"idle", "closed", "refused"}
  /\ \A u \in Tab : reading[u] # s
  /\ session' = [session EXCEPT ![s] = [Closed EXCEPT !.pc = "getRun", !.cursor = received[t]]]
  /\ wire' = [wire EXCEPT ![s] = <<>>]
  /\ reading' = [reading EXCEPT ![t] = s]
  /\ UNCHANGED <<logVars, count, down, received, budget>>

ApplyEvent(t) ==
  /\ reading[t] # NoSession
  /\ wire[reading[t]] # <<>>
  /\ received' = [received EXCEPT ![t] = Head(wire[reading[t]])]
  /\ wire' = [wire EXCEPT ![reading[t]] = Tail(@)]
  /\ UNCHANGED <<logVars, session, count, down, reading, budget>>

SeeEnd(t) ==
  /\ reading[t] # NoSession
  /\ wire[reading[t]] = <<>>
  /\ session[reading[t]].pc \in {"closed", "refused"}
  /\ reading' = [reading EXCEPT ![t] = NoSession]
  /\ UNCHANGED <<logVars, session, count, down, wire, received, budget>>

\* The connection breaks and what is under way is lost; the server does not know yet.
Disconnect(t) ==
  /\ reading[t] # NoSession
  /\ SpendFault
  /\ wire' = [wire EXCEPT ![reading[t]] = <<>>]
  /\ reading' = [reading EXCEPT ![t] = NoSession]
  /\ UNCHANGED <<logVars, session, count, down, received>>

TabStep(t) == (\E s \in Session : Connect(t, s)) \/ ApplyEvent(t) \/ SeeEnd(t)

Next ==
  \/ RunAppends
  \/ \E s \in Session : SessionStep(s) \/ NoticeGone(s) \/ TokenExpires(s)
  \/ Shutdown \/ Restart
  \/ \E t \in Tab : TabStep(t) \/ Disconnect(t)

Spec == Init /\ [][Next]_vars

\* Sessions are event-loop tasks that go on while the process lives, broken sockets are
\* noticed, a process told to shut down exits, a tab reads and reconnects (with backoff)
\* until it has the terminal event.  The run need not end.
Fairness ==
  /\ \A s \in Session : WF_vars(SessionStep(s)) /\ WF_vars(NoticeGone(s))
  /\ WF_vars(down /\ Restart)
  /\ \A t \in Tab : WF_vars(TabStep(t))

FairSpec == Spec /\ Fairness
-----------------------------------------------------------------------------
(* Properties *)

\* What a tab is about to read goes on exactly where it stopped: through replay, live
\* tail, reconnects and restarts no event of the log is skipped, repeated or reordered.
WireContinues ==
  \A t \in Tab : reading[t] # NoSession =>
    \A i \in 1 .. Len(wire[reading[t]]) : wire[reading[t]][i] = received[t] + i

\* The gap check of tail never fires on the log the run's transactions write.
NoGapReported == \A s \in Session : session[s].reason # "sequence_gap"

\* A stream that ended as 'terminal' has written the whole log, the terminal event last,
\* also when the run ended between the two reads of a batch.
TerminalIsComplete ==
  \A s \in Session : session[s].reason = "terminal" => ended /\ session[s].cursor = nextSeq - 1

\* connectionsByUser counts the registered sessions, on every path out of open and out of
\* the controller, and stays within the limit although it is read after awaits.
ConnectionsBounded ==
  /\ count = Cardinality({s \in Session : session[s].pc \in Active})
  /\ count <= MaxConnections

\* Once the run has ended every tab gets its terminal event, whatever was lost before.
EveryTabSeesTheEnd == \A t \in Tab : ended ~> (received[t] = nextSeq - 1)
=============================================================================
