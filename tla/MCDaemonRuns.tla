---------------------------- MODULE MCDaemonRuns ----------------------------
(* Instances of DaemonRuns: two sessions, two task slots, a few faults. *)
EXTENDS DaemonRuns

CONSTANTS s1, s2, r1, r2
=============================================================================
