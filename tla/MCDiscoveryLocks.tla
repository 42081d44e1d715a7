-------------------------- MODULE MCDiscoveryLocks --------------------------
(* Instances of DiscoveryLocks: the callers, and the methods they may call. *)
EXTENDS DiscoveryLocks

CONSTANTS t1, t2
=============================================================================
