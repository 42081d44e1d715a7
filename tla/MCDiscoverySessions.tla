------------------------- MODULE MCDiscoverySessions -------------------------
EXTENDS DiscoverySessions, TLC

CONSTANTS s1, s2, s3, c1, c2, d1, d2, n1

(* Two discoveries of one daemon. *)
OneDaemon == c1 :> d1 @@ c2 :> d1
OneDiscovery == c1 :> d1
OneDaemonNetwork == d1 :> n1

(* One discovery on each of two daemons of one network. *)
TwoDaemons == c1 :> d1 @@ c2 :> d2
TwoDaemonsNetwork == d1 :> n1 @@ d2 :> n1

(* The ids, and the two discoveries of one daemon, are interchangeable.    *)
IdsAndDiscoveries == Permutations(SessionIds) \cup Permutations(Discoveries)
=============================================================================
