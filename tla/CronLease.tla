----------------------------- MODULE CronLease -----------------------------
(***************************************************************************)
(* The Redis lease of one scheduled job: a key that holds the token of at  *)
(* most one process and goes by itself when nobody renews it.  Losing it   *)
(* is only logged, so its former holder works on.                          *)
(***************************************************************************)
CONSTANTS
  Owner,   \* those who run the job
  NoOwner

VARIABLES
  holder,  \* whose token the key holds
  late     \* whose lease ran out before they gave it back

LeaseTypeOK == holder \in Owner \cup {NoOwner} /\ late \subseteq Owner

LeaseInit == holder = NoOwner /\ late = {}

\* SET NX: whoever finds the key skips the job.
Acquire(p) ==
  /\ holder = NoOwner
  /\ holder' = p
  /\ late' = late \ {p}

\* The script deletes the key only when it holds the caller's own token.
Release(p) ==
  /\ holder' = IF holder = p THEN NoOwner ELSE holder
  /\ late' = late \ {p}

\* The time to live is over: nobody renewed.
Expire ==
  /\ holder # NoOwner
  /\ holder' = NoOwner
  /\ late' = late \cup {holder}
=============================================================================
