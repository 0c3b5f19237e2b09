----------------------------- MODULE MCAgentRun -----------------------------
(* Instances of AgentRun for TLC. *)
EXTENDS AgentRun, TLC

WorkerSymmetry == Permutations(Worker)

CrashFaults == {"crash", "lostAck"}
CrashAndErrors == {"crash", "dbError"}
AllFaults == FaultKind
=============================================================================
