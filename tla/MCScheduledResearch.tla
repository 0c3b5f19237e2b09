------------------------ MODULE MCScheduledResearch ------------------------
(* Instances of ScheduledResearch for TLC. *)
EXTENDS ScheduledResearch, TLC

CONSTANTS s1, s2

Scanners   == {s1, s2}
Requesters == Scanners \cup {Api}
Requests   == 1 .. Horizon + 1

\* Two schedulers without manual runs, one with them.
TwoScanners == {Scanners}
Pairs == {Scanners, {s1, Api}}
=============================================================================
