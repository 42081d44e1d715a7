-------------------------- MODULE DiscoveryWorker --------------------------
(***************************************************************************)
(* What a daemon and its server promise about the discovery sessions of    *)
(* that daemon, with no trace of how they talk: a daemon works on one      *)
(* session at a time, and what the server records of a session is an       *)
(* outcome the daemon decided, or that the server gave the session up.     *)
(***************************************************************************)
CONSTANTS
    Sessions,   \* the sessions of the daemon
    Idle        \* "no session", not a session

VARIABLES
    busy,       \* the session the daemon works on
    decided,    \* the outcomes the daemon has come to, as <<session, outcome>>
    known       \* the outcomes the server has recorded

vars == <<busy, decided, known>>

Outcomes == {"Complete", "Failed", "Cancelled"}

Init == busy = Idle /\ decided = {} /\ known = {}

Begin(s) ==
    /\ busy = Idle
    /\ busy' = s
    /\ UNCHANGED <<decided, known>>

Decide(o) ==
    /\ busy # Idle
    /\ decided' = decided \union {<<busy, o>>}
    /\ UNCHANGED <<busy, known>>

\* The work ends: finished, given up early, or the daemon went down.
Rest ==
    /\ busy' = Idle
    /\ UNCHANGED <<decided, known>>

Learn(s, o) ==
    /\ <<s, o>> \in decided
    /\ known' = known \union {<<s, o>>}
    /\ UNCHANGED <<busy, decided>>

GiveUp(s) ==
    /\ known' = known \union {<<s, "Failed">>}
    /\ UNCHANGED <<busy, decided>>

Next ==
    \/ Rest
    \/ \E s \in Sessions : Begin(s) \/ GiveUp(s)
    \/ \E o \in Outcomes : Decide(o)
    \/ \E s \in Sessions, o \in Outcomes : Learn(s, o)

Spec == Init /\ [][Next]_vars
=============================================================================
