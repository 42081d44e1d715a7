--------------------------- MODULE DiscoveryLocks ---------------------------
(***************************************************************************)
(* The reader-writer locks of the DiscoveryService: who holds which of     *)
(* them while awaiting another one.                                        *)
(*                                                                         *)
(* The session table is seven maps, each behind a tokio RwLock of its own. *)
(* A tokio RwLock is fair: a request joins a queue, and a reader behind a  *)
(* waiting writer waits too.  Every public method is a *program*: the      *)
(* sequence of the sets of guards it holds as it runs, one entry for each  *)
(* guard it takes (by awaiting it) or drops.  Between two entries the      *)
(* method computes, calls the database or publishes events: steps that     *)
(* take time, never another of these locks.  Guards dropped together       *)
(* (several drop()s in a row, the end of a scope) leave in one step.       *)
(***************************************************************************)
EXTENDS Naturals, Sequences, SequencesExt

CONSTANTS
    Tasks,      \* requests, pollers, the cleanup job: whoever calls a method
    Programs    \* the methods that may be called, as sequences of guard sets

\* The maps of DiscoveryService that have a lock of their own.
Locks == {"running_snapshots", "sessions", "session_last_updated",
          "daemon_sessions", "discovery_sessions",
          "daemon_pull_cancellations", "job_ids"}

Guards == Locks \X {"read", "write"}

Read(l) == <<l, "read">>
Write(l) == <<l, "write">>

ASSUME ProgramsAssumption ==
    /\ Programs \subseteq Seq(SUBSET Guards)
    /\ \A p \in Programs :
          /\ Len(p) > 0 /\ p[1] = {}
          /\ \A i \in 1 .. Len(p) - 1 :
                \A g, h \in p[i + 1] \ p[i] : g = h    \* one .await at a time

-----------------------------------------------------------------------------
(***************************************************************************)
(* The programs.                                                           *)
(***************************************************************************)

\* A method that takes one guard and drops it.
Single(g) == << {}, {g}, {} >>

\* get_integration_targets_for_session, lookup_discovery_id,
\* has_active_session_for_discovery: one read of the discovery -> session map.
LookupDiscoveryId == Single(Read("discovery_sessions"))

\* get_session, get_all_sessions.
GetSession == Single(Read("sessions"))

\* pull_cancellation_for_daemon, and the flag set by cancel_session.
PullCancellationForDaemon == Single(Write("daemon_pull_cancellations"))

\* remove_scheduled_job: the read guard is gone before the write is awaited.
RemoveScheduledJob ==
    << {}, {Read("job_ids")}, {}, {Write("job_ids")}, {} >>

\* get_sessions_for_daemon: the queue is still held while the sessions are
\* awaited.
GetSessionsForDaemon ==
    << {}, {Read("daemon_sessions")},
       {Read("daemon_sessions"), Read("sessions")}, {} >>

\* has_active_session_for_daemon does the same.
HasActiveSessionForDaemon ==
    << {}, {Read("daemon_sessions")},
       {Read("daemon_sessions"), Read("sessions")}, {} >>

\* clear_sessions_for_daemon.
ClearSessionsForDaemon ==
    LET h1 == {Write("sessions")}
        h2 == h1 \union {Write("daemon_sessions")}
        h3 == h2 \union {Write("session_last_updated")}
        h4 == h3 \union {Write("daemon_pull_cancellations")}
    IN << {}, h1, h2, h3, h4, h4 \union {Write("discovery_sessions")}, {} >>

\* transition_session_to_starting; the session may have gone, or have left
\* Pending, in the meantime.
TransitionSessionToStarting ==
    { << {}, {Write("sessions")},
         {Write("sessions"), Write("session_last_updated")}, {} >>,
      Single(Write("sessions")) }

\* try_acquire_network_for_snapshot.
TryAcquireNetworkForSnapshot ==
    << {}, {Write("running_snapshots")},
       {Write("running_snapshots"), Read("sessions")}, {} >>

\* Not the code: the queue map before the sessions map.
ReleaseNetworkInverted ==
    { << {}, {Write("running_snapshots")}, {}, {Read("daemon_sessions")},
         {Write("sessions"), Read("daemon_sessions")}, {} >> }

\* release_network_for_snapshot: the clock of a promoted session is set with
\* both maps held.
ReleaseNetworkForSnapshot ==
    LET h == {Write("sessions"), Read("daemon_sessions")}
    IN { << {}, {Write("running_snapshots")}, {}, {Write("sessions")}, h >>
            \o promote \o << {} >> :
         promote \in { << >>, << h \union {Write("session_last_updated")}, h >> } }

\* start_session: the reservation set is held across the insertion, every
\* other guard is dropped before the next is awaited.
StartSession ==
    LET r == {Read("running_snapshots")}
        With(g) == << r \union {g}, r >>
    IN { LookupDiscoveryId } \union
       { << {}, {Read("discovery_sessions")}, {}, {Write("discovery_sessions")},
            {}, r >>
            \o With(Read("daemon_sessions")) \o pending
            \o With(Write("sessions")) \o With(Write("daemon_sessions"))
            \o << {} >> :
         pending \in { << >>, With(Write("session_last_updated")) } }

\* update_session: the sessions and their clocks are held throughout.  An
\* unknown session is entered in the queue (and the guard map); a terminal
\* phase takes the cancellation flag, the guard map and the queue in turn.
UpdateSession ==
    LET h == {Write("sessions"), Write("session_last_updated")}
        With(g) == << h \union {g}, h >>
        create == With(Write("daemon_sessions")) \o With(Write("discovery_sessions"))
        finish == With(Write("daemon_pull_cancellations"))
                    \o With(Read("discovery_sessions"))
                    \o With(Write("daemon_sessions"))
                    \o With(Write("discovery_sessions"))
    IN { lookup \o << {Write("sessions")}, h >> \o vacant \o terminal \o << {} >> :
         lookup \in { << {} >>, LookupDiscoveryId },
         vacant \in { << >>, With(Write("daemon_sessions")), create },
         terminal \in { << >>, finish } }

\* cancel_session: a session that was not dispatched is removed with the
\* sessions and the queue held; a running one only gets the flag.
CancelSession ==
    LET h == {Write("sessions"), Write("daemon_sessions")}
        With(g) == << h \union {g}, h >>
        look == GetSession \o Tail(LookupDiscoveryId)
    IN { look, look \o Tail(PullCancellationForDaemon) } \union
       { look \o << {Write("sessions")}, h >> \o promote
              \o With(Write("discovery_sessions")) \o << {} >> :
         promote \in { << >>, With(Write("session_last_updated")) } }

\* cleanup_old_sessions.
CleanupOldSessions ==
    LET h1 == {Write("sessions")}
        h2 == h1 \union {Write("daemon_sessions")}
        h3 == h2 \union {Write("daemon_pull_cancellations")}
    IN << {}, h1, h2, h3, h3 \union {Write("discovery_sessions")}, {} >>

\* cleanup_stalled_sessions: a pass under read guards, a flag for every
\* stalled session, a pass under write guards.
CleanupStalledSessions ==
    LET h1 == {Write("sessions")}
        h2 == h1 \union {Write("session_last_updated")}
        h3 == h2 \union {Write("daemon_sessions")}
        h4 == h3 \union {Write("daemon_pull_cancellations")}
        look == << {}, {Read("sessions")},
                   {Read("sessions"), Read("session_last_updated")}, {} >>
    IN { look,
         look \o Tail(LookupDiscoveryId) \o Tail(PullCancellationForDaemon)
              \o << h1, h2, h3, h4, h4 \union {Write("discovery_sessions")}, {} >> }

\* The methods that take the locks in an order that cannot close a cycle.
OrderedPrograms ==
    { LookupDiscoveryId, GetSession, PullCancellationForDaemon,
      RemoveScheduledJob, ClearSessionsForDaemon, TryAcquireNetworkForSnapshot,
      CleanupOldSessions }
    \union TransitionSessionToStarting \union ReleaseNetworkForSnapshot
    \union StartSession \union UpdateSession \union CancelSession
    \union CleanupStalledSessions

\* Every method of the service.
AllPrograms ==
    OrderedPrograms \union { GetSessionsForDaemon, HasActiveSessionForDaemon }

-----------------------------------------------------------------------------
VARIABLES
    prog,   \* the program a task runs, << {} >> when it runs none
    pc,     \* how far it has come: prog[t][pc[t]] is what it holds
    queue   \* the requests waiting for each lock, in the order they came

vars == <<prog, pc, queue>>

Idle == << {} >>

TypeOK ==
    /\ prog \in [Tasks -> Programs \union {Idle}]
    /\ pc \in [Tasks -> Nat]
    /\ \A t \in Tasks : pc[t] \in 1 .. Len(prog[t])
    /\ queue \in [Locks -> Seq(Tasks)]

Held(t) == prog[t][pc[t]]

Upcoming(t) == prog[t][pc[t] + 1]

\* The guard the next step of the task's program awaits, as a set of at most
\* one guard.
Wanted(t) == IF pc[t] < Len(prog[t]) THEN Upcoming(t) \ Held(t) ELSE {}

Holds(t, l) == \E g \in Held(t) : g[1] = l

Queued(t, l) == \E i \in 1 .. Len(queue[l]) : queue[l][i] = t

Waiting(t) == \E l \in Locks : Queued(t, l)

\* A write guard excludes every other guard on its lock, a read guard only a
\* write guard.
Compatible(g, h) == g[1] = h[1] => g[2] = "read" /\ h[2] = "read"

Grantable(t, g) == \A u \in Tasks \ {t} : \A h \in Held(u) : Compatible(g, h)

Init ==
    /\ prog = [t \in Tasks |-> Idle]
    /\ pc = [t \in Tasks |-> 1]
    /\ queue = [l \in Locks |-> << >>]

\* A task calls a method.
Call(t) ==
    /\ prog[t] = Idle
    /\ \E p \in Programs : prog' = [prog EXCEPT ![t] = p]
    /\ pc' = [pc EXCEPT ![t] = 1]
    /\ UNCHANGED queue

\* Not the code: a lock that is not fair, where the last to come is first.
AwaitInFront(t) ==
    /\ ~ Waiting(t)
    /\ \E g \in Wanted(t) :
          queue' = [queue EXCEPT ![g[1]] = << t >> \o @]
    /\ UNCHANGED <<prog, pc>>

\* The method awaits a guard: its request joins the queue of the lock.
Await(t) ==
    /\ ~ Waiting(t)
    /\ \E g \in Wanted(t) :
          queue' = [queue EXCEPT ![g[1]] = Append(@, t)]
    /\ UNCHANGED <<prog, pc>>

\* The first request of a lock's queue is granted once no guard excludes it.
Grant(t) ==
    /\ \E g \in Wanted(t) :
          /\ queue[g[1]] # << >>
          /\ Head(queue[g[1]]) = t
          /\ Grantable(t, g)
          /\ queue' = [queue EXCEPT ![g[1]] = Tail(@)]
    /\ pc' = [pc EXCEPT ![t] = @ + 1]
    /\ UNCHANGED prog

\* The method drops guards.
Drop(t) ==
    /\ pc[t] < Len(prog[t])
    /\ Wanted(t) = {}
    /\ pc' = [pc EXCEPT ![t] = @ + 1]
    /\ UNCHANGED <<prog, queue>>

\* The method returns.
Return(t) ==
    /\ prog[t] # Idle
    /\ pc[t] = Len(prog[t])
    /\ prog' = [prog EXCEPT ![t] = Idle]
    /\ pc' = [pc EXCEPT ![t] = 1]
    /\ UNCHANGED queue

Step(t) == Await(t) \/ Grant(t) \/ Drop(t) \/ Return(t)

Next == \E t \in Tasks : Call(t) \/ Step(t)

Spec == Init /\ [][Next]_vars

\* The runtime polls every task that can go on; whether a method is called at
\* all is up to the callers.
FairSpec == Spec /\ \A t \in Tasks : WF_vars(Step(t))

-----------------------------------------------------------------------------
(***************************************************************************)
(* Properties.                                                             *)
(***************************************************************************)

\* The maps a method reaches with the sessions map held.
Inner == Locks \ {"running_snapshots", "sessions"}

\* The order running_snapshots -> sessions -> the other maps, as the methods
\* follow it: a method awaits no lock it holds; with sessions held it awaits
\* only inner locks; and it holds an inner lock while it awaits another one
\* only inside the write guard of sessions.
OrderKept ==
    \A t \in Tasks : \A g \in Wanted(t), h \in Held(t) :
        /\ h[1] # g[1]
        /\ h[1] # "running_snapshots" => g[1] \in Inner
        /\ h[1] \in Inner => Write("sessions") \in Held(t)

\* The request at the head of lock l waits for a guard of t, and t in turn
\* waits for lock m.
WaitsFor(l, m) ==
    /\ queue[l] # << >>
    /\ \E t \in Tasks :
          /\ t # Head(queue[l])
          /\ Queued(t, m)
          /\ \E g \in Wanted(Head(queue[l])), h \in Held(t) :
                h[1] = l /\ ~ Compatible(g, h)

\* The methods of the service never deadlock: there is no set of locks each
\* of which is kept from its next holder by a task that itself waits for a
\* lock of the set (start_session, update_session, cancel_session, the two
\* cleanups, the snapshot reservation and the daemon deletion hold up to five
\* guards while they await the next).
NoStuckLocks ==
    \A L \in SUBSET Locks :
        L # {} => \E l \in L : \A m \in L : ~ WaitsFor(l, m)

\* Every call of a method of the service returns.
EveryCallReturns == \A t \in Tasks : [](prog[t] # Idle => <>(prog[t] = Idle))

\* The order the comments of start_session and of
\* try_acquire_network_for_snapshot state, "running_snapshots -> sessions ->
\* daemon_sessions": it never happens that two tasks each hold one of the
\* three maps and wait for the one the other holds.
DocumentedLockOrder ==
    \A l, m \in {"running_snapshots", "sessions", "daemon_sessions"} :
        ~ (l # m /\ WaitsFor(l, m) /\ WaitsFor(m, l))
=============================================================================
