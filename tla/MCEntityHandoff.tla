-------------------------- MODULE MCEntityHandoff --------------------------
(* A subnet, then the daemon's own host, reported and completed by the
   localhost integrations, then another host reported early; the daemon's own
   host again in a second session. *)
EXTENDS EntityHandoff

CONSTANTS h1, h2, n1, net, self, local, early, again

MCTarget ==
    [c \in Calls |-> CASE c \in {self, local, again} -> h1 [] c = early -> h2 [] c = net -> n1]

MCSession == [c \in Calls |-> IF c = again THEN 2 ELSE 1]

MCAfter ==
    [c \in Calls |-> CASE c = self -> net [] c = local -> self [] c = early -> local
                       [] OTHER -> None]
=============================================================================
