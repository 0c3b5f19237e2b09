---------------------------- MODULE AgentEventLog ----------------------------
(***************************************************************************)
(* The persistent event log of one Agent Run as its readers see it: events *)
(* are numbered without a hole, and the run's terminal event is the last.  *)
(* AgentRun implements it; AgentStream reads it.                           *)
(***************************************************************************)
EXTENDS Integers

VARIABLES
  log,      \* sequence numbers in ai_run_events
  nextSeq,  \* ai_agent_runs.next_event_sequence
  ended     \* the run's status is terminal

logVars == <<log, nextSeq, ended>>

\* message.created is written with the run.
LogInit == log = {1} /\ nextSeq = 2 /\ ended = FALSE

\* A transaction appends one or two events; a terminal run takes no more of them, and the
\* transaction that makes it terminal appends its terminal event last.
AppendEvents(k) ==
  /\ ~ended
  /\ nextSeq' = nextSeq + k
  /\ log' = log \cup (nextSeq .. nextSeq + k - 1)
  /\ ended' \in BOOLEAN

LogNext == \E k \in {1, 2} : AppendEvents(k)

LogSpec == LogInit /\ [][LogNext]_logVars
=============================================================================
