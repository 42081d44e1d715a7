-------------------------- MODULE DiscoverySessions --------------------------
(***************************************************************************)
(* The in-memory session table of the server's DiscoveryService            *)
(* (server/discovery/service): six maps, each behind its own RwLock, and   *)
(* the asynchronous tasks that read and write them.                        *)
(*                                                                         *)
(* One action is one critical section: what a task does while it holds a   *)
(* lock without letting go of it.  A task that takes several locks one     *)
(* after the other is several actions, and what it remembers between them  *)
(* (the phase it read, the session it picked) is part of the state.  The   *)
(* daemons are the environment: they may be handed work, report progress   *)
(* in order, repeat a report, and fall silent at any point.                *)
(***************************************************************************)
EXTENDS Queues

CONSTANTS
  SessionIds,     \* the Uuids start_session mints
  Discoveries,    \* discovery configurations
  Daemons,
  Networks,
  DaemonOf,       \* discovery -> the daemon it runs on
  NetworkOf,      \* daemon -> its network
  None,           \* Option::None
  Outcomes,       \* input: the terminal phases the daemons report
  Cancellable,    \* input: the sessions a user may cancel
  Deletable,      \* input: the daemons a user may delete
  Snapshotted,    \* input: the networks a user may snapshot
  Lapsing,        \* input: the sessions that may go five minutes without update
  Unsavable,      \* input: the sessions whose historical row the database may refuse
  MaxReleasing,   \* bound: releases of one network past their first section
  MaxRestarts     \* bound: server restarts

ASSUME ConstantsAssumption ==
  /\ DaemonOf \in [Discoveries -> Daemons]
  /\ NetworkOf \in [Daemons -> Networks]
  /\ Outcomes \subseteq {"Complete", "Failed", "Cancelled"}
  /\ Cancellable \subseteq SessionIds
  /\ Deletable \subseteq Daemons
  /\ Snapshotted \subseteq Networks
  /\ Lapsing \subseteq SessionIds
  /\ Unsavable \subseteq SessionIds
  /\ MaxReleasing \in Nat
  /\ MaxRestarts \in Nat

(* The phases of DiscoveryPhase. *)
Undispatched == {"AwaitingSnapshot", "Queued", "Pending"}
Dispatched   == {"Starting", "Started", "Scanning"}
Terminal     == {"Complete", "Failed", "Cancelled"}
Live         == Undispatched \cup Dispatched

(* Fault: a session that was dispatched and never answered is exempt.      *)
CanBeCleanedUpAfterStarting == {"Pending", "Started", "Scanning"}

(* DiscoveryPhase::can_be_cleaned_up *)
CanBeCleanedUp == {"Pending"} \cup Dispatched

ASSUME NoneAssumption ==
  /\ None \notin SessionIds \cup Discoveries
  /\ None \notin Live \cup Terminal \cup {"clear", "handed"}
  /\ "clear" \notin SessionIds

(* Where a start_session call is: not yet called for this id; past the     *)
(* one-session-per-discovery check; past the insertion in                  *)
(* discovery_sessions; holding running_snapshots.read with the phase it    *)
(* decided; holding it with the session inserted; returned.                *)
Deciding    == Undispatched
StartStates == {"new", "checked", "reserved", "inserted", "done"} \cup Deciding

VARIABLES
  sessions,                   \* sessions: id -> phase, or None
  daemon_sessions,            \* daemon -> queue of ids
  discovery_sessions,         \* discovery -> id, or None
  daemon_pull_cancellations,  \* daemon -> id to cancel, or None
  running_snapshots,          \* networks reserved for a snapshot
  session_last_updated,       \* id -> "none", "fresh" or "old" (past 5 minutes)
  history,                    \* database: id -> outcomes of its historical rows
  daemons,                    \* database: the daemons that exist
  config,                     \* id -> the discovery it was minted for, or None
  start,                      \* id -> where its start_session is
  cancel,                     \* id -> phase a cancel_session read, or None
  poll,                       \* daemon -> get_pending_work: None, "clear", or the id picked
  stalled,                    \* ids collected by the running cleanup_stalled_sessions
  unflagged,                  \* the ones whose cancellation it has yet to request
  snapshotting,               \* networks whose create_snapshot is running
  releasing,                  \* network -> releases between their two sections
  deleting,                   \* daemon -> where its delete is
  report,                     \* environment: id -> what its daemon last reported
  withdrawn,                  \* ghost: ids a cancellation took out of the queue
  unsaved,                    \* ghost: ids whose finalization could not write its row
  restarts

tables == <<sessions, daemon_sessions, discovery_sessions,
            daemon_pull_cancellations, running_snapshots, session_last_updated>>
database == <<history, daemons>>
cleanup   == <<stalled, unflagged>>
snapshots == <<snapshotting, releasing>>
outside   == <<report, withdrawn, unsaved, restarts>>
vars == <<tables, database, config, start, cancel, poll, cleanup, snapshots,
          deleting, outside>>

-----------------------------------------------------------------------------
(* The daemon and the network of a session. *)
DaemonFor(s)  == DaemonOf[config[s]]
NetworkFor(s) == NetworkOf[DaemonFor(s)]

(* Fault: start_session drops the guard right after its test.              *)
NoSnapshotReaders == {}

(* A task holds running_snapshots.read: no writer gets in. *)
SnapshotReaders == {s \in SessionIds : start[s] \in Deciding \cup {"inserted"}}

(* Fault: a promotion does not start the stall clock.                      *)
StampNothing(S) == session_last_updated

(* session_last_updated.insert(id, Utc::now()) for the ids in S.           *)
Stamp(S) == [x \in SessionIds |-> IF x \in S THEN "fresh" ELSE session_last_updated[x]]

(* Fault: the sessions that end stay in the map, in their terminal phase.  *)
SetPhasesKeeping(gone, next) ==
  [x \in SessionIds |-> IF x \in gone THEN "Failed"
                        ELSE IF x \in next THEN "Pending"
                        ELSE sessions[x]]

(* The sessions map once the ids in gone are removed and next is promoted. *)
SetPhases(gone, next) ==
  [x \in SessionIds |-> IF x \in gone THEN None
                        ELSE IF x \in next THEN "Pending"
                        ELSE sessions[x]]

(* Fault: the reservation of the discovery is not given back.              *)
UnguardNothing(S) == discovery_sessions

(* discovery_sessions.retain(|_, sid| sid not in S)                        *)
Unguard(S) == [c \in Discoveries |->
                 IF discovery_sessions[c] \in S THEN None ELSE discovery_sessions[c]]

(* queue.first().and_then(|id| sessions.get_mut(id)), as a set of at most   *)
(* one id.                                                                  *)
FirstLive(q) == IF q = <<>> THEN {} ELSE {s \in {q[1]} : sessions[s] # None}

(* has_active_session_for_daemon *)
HasActive(d) ==
  \E s \in Members(daemon_sessions[d]) :
    sessions[s] \in Live \ {"Queued", "Pending"}

-----------------------------------------------------------------------------
Init ==
  /\ sessions = [s \in SessionIds |-> None]
  /\ daemon_sessions = [d \in Daemons |-> <<>>]
  /\ discovery_sessions = [c \in Discoveries |-> None]
  /\ daemon_pull_cancellations = [d \in Daemons |-> None]
  /\ running_snapshots = {}
  /\ session_last_updated = [s \in SessionIds |-> "none"]
  /\ history = [s \in SessionIds |-> {}]
  /\ daemons = Daemons
  /\ config = [s \in SessionIds |-> None]
  /\ start = [s \in SessionIds |-> "new"]
  /\ cancel = [s \in SessionIds |-> None]
  /\ poll = [d \in Daemons |-> None]
  /\ stalled = {}
  /\ unflagged = {}
  /\ snapshotting = {}
  /\ releasing = [n \in Networks |-> 0]
  /\ deleting = [d \in Daemons |-> "no"]
  /\ report = [s \in SessionIds |-> None]
  /\ withdrawn = {}
  /\ unsaved = {}
  /\ restarts = 0

-----------------------------------------------------------------------------
(* start_session                                                           *)

(* Refuse a second session of the discovery; the read lock is dropped.     *)
StartCheck(s, c) ==
  /\ start[s] = "new"
  /\ DaemonOf[c] \in daemons
  /\ discovery_sessions[c] = None
  /\ start' = [start EXCEPT ![s] = "checked"]
  /\ config' = [config EXCEPT ![s] = c]
  /\ UNCHANGED <<tables, database, cancel, poll, cleanup, snapshots, deleting,
                 outside>>

(* Building the SNMP credentials fails: the call returns an error.         *)
StartFails(s) ==
  /\ start[s] = "checked"
  /\ start' = [start EXCEPT ![s] = "done"]
  /\ UNCHANGED <<tables, database, config, cancel, poll, cleanup, snapshots,
                 deleting, outside>>

(* discovery_sessions.write().insert(discovery.id, session_id)             *)
StartReserve(s) ==
  /\ start[s] = "checked"
  /\ start' = [start EXCEPT ![s] = "reserved"]
  /\ discovery_sessions' = [discovery_sessions EXCEPT ![config[s]] = s]
  /\ UNCHANGED <<sessions, daemon_sessions, daemon_pull_cancellations,
                 running_snapshots, session_last_updated, database, config,
                 cancel, poll, cleanup, snapshots, deleting, outside>>

(* Take running_snapshots.read, keep it, and decide the phase from the     *)
(* reservation and from the daemon's queue.                                *)
StartDecide(s) ==
  /\ start[s] = "reserved"
  /\ start' = [start EXCEPT ![s] =
                 IF NetworkFor(s) \in running_snapshots THEN "AwaitingSnapshot"
                 ELSE IF daemon_sessions[DaemonFor(s)] = <<>> THEN "Pending"
                 ELSE "Queued"]
  /\ UNCHANGED <<tables, database, config, cancel, poll, cleanup, snapshots,
                 deleting, outside>>

(* sessions.write().insert; a Pending session's clock starts just before.  *)
StartInsert(s) ==
  /\ start[s] \in Deciding
  /\ start' = [start EXCEPT ![s] = "inserted"]
  /\ sessions' = [sessions EXCEPT ![s] = start[s]]
  /\ session_last_updated' = Stamp(IF start[s] = "Pending" THEN {s} ELSE {})
  /\ UNCHANGED <<daemon_sessions, discovery_sessions,
                 daemon_pull_cancellations, running_snapshots, database,
                 config, cancel, poll, cleanup, snapshots, deleting, outside>>

(* daemon_sessions.write().push, then running_snapshots.read is dropped.   *)
StartPush(s) ==
  /\ start[s] = "inserted"
  /\ start' = [start EXCEPT ![s] = "done"]
  /\ daemon_sessions' = [daemon_sessions EXCEPT ![DaemonFor(s)] = Append(@, s)]
  /\ UNCHANGED <<sessions, discovery_sessions, daemon_pull_cancellations,
                 running_snapshots, session_last_updated, database, config,
                 cancel, poll, cleanup, snapshots, deleting, outside>>

-----------------------------------------------------------------------------
(* get_pending_work, and what the daemon does with what it is handed       *)

(* has_active_session_for_daemon is false, and its locks are dropped.  The *)
(* sessions start_initial_discovery_sessions starts next are ordinary      *)
(* StartCheck ... StartPush steps.                                         *)
PollActive(d) ==
  /\ d \in daemons
  /\ poll[d] = None
  /\ ~HasActive(d)
  /\ poll' = [poll EXCEPT ![d] = "clear"]
  /\ UNCHANGED <<tables, database, config, start, cancel, cleanup, snapshots,
                 deleting, outside>>

(* get_sessions_for_daemon(..).first(): the first Pending id of the queue. *)
FirstPending(d) ==
  LET q == daemon_sessions[d]
      P == {i \in DOMAIN q : sessions[q[i]] = "Pending"}
  IN  {q[i] : i \in {j \in P : \A k \in P : j <= k}}

PollPick(d) ==
  /\ poll[d] = "clear"
  /\ \/ \E s \in FirstPending(d) : poll' = [poll EXCEPT ![d] = s]
     \/ FirstPending(d) = {} /\ poll' = [poll EXCEPT ![d] = None]
  /\ UNCHANGED <<tables, database, config, start, cancel, cleanup, snapshots,
                 deleting, outside>>

(* transition_session_to_starting: only if the session is still Pending;   *)
(* the work picked is handed out either way.                               *)
PollTransition(d) ==
  /\ poll[d] \in SessionIds
  /\ poll' = [poll EXCEPT ![d] = None]
  /\ LET s == poll[d]
     IN  /\ IF sessions[s] = "Pending"
            THEN /\ sessions' = [sessions EXCEPT ![s] = "Starting"]
                 /\ session_last_updated' = Stamp({s})
            ELSE UNCHANGED <<sessions, session_last_updated>>
         /\ report' = [report EXCEPT ![s] = IF @ = None THEN "handed" ELSE @]
  /\ UNCHANGED <<daemon_sessions, discovery_sessions, daemon_pull_cancellations,
                 running_snapshots, database, config, start, cancel, cleanup,
                 snapshots, deleting, withdrawn, unsaved, restarts>>

(* get_pending_cancellation: the daemon takes the flag.                    *)
PollCancellation(d) ==
  /\ d \in daemons
  /\ daemon_pull_cancellations[d] # None
  /\ daemon_pull_cancellations' = [daemon_pull_cancellations EXCEPT ![d] = None]
  /\ UNCHANGED <<sessions, daemon_sessions, discovery_sessions, running_snapshots,
                 session_last_updated, database, config, start, cancel, poll,
                 cleanup, snapshots, deleting, outside>>

-----------------------------------------------------------------------------
(* update_session: sessions.write and session_last_updated.write are held  *)
(* from the first line to the last, so the call is one step.               *)

(* A daemon reports Started, then Scanning any number of times, then one   *)
(* terminal phase; an old daemon repeats the terminal one.                 *)
Reports(s, phase) ==
  /\ report[s] # None
  /\ DaemonFor(s) \in daemons
  /\ report[s] \in Terminal => phase = report[s]
  /\ report[s] = "Scanning" => phase # "Started"

(* Fault: any terminal update of an unknown session is redundant.          *)
RedundantIfUnknown(s, phase) ==
  /\ sessions[s] = None
  /\ phase \in Terminal

(* The update is for a session that was processed and removed before.      *)
Redundant(s, phase) ==
  /\ sessions[s] = None
  /\ phase \in Terminal
  /\ session_last_updated[s] # "none"

UpdateIgnored(s, phase) ==
  /\ Reports(s, phase)
  /\ Redundant(s, phase)
  /\ session_last_updated' = Stamp({s})
  /\ report' = [report EXCEPT ![s] = phase]
  /\ UNCHANGED <<sessions, daemon_sessions, discovery_sessions,
                 daemon_pull_cancellations, running_snapshots, database, config,
                 start, cancel, poll, cleanup, snapshots, deleting, withdrawn,
                 unsaved, restarts>>

(* An update of an unknown session creates it: at the back of the queue,   *)
(* and in discovery_sessions over whatever is there.                       *)
UpdateProgress(s, phase) ==
  /\ Reports(s, phase)
  /\ phase \in {"Started", "Scanning"}
  /\ sessions' = [sessions EXCEPT ![s] = phase]
  /\ session_last_updated' = Stamp({s})
  /\ IF sessions[s] = None
     THEN /\ daemon_sessions' = [daemon_sessions EXCEPT ![DaemonFor(s)] = Append(@, s)]
          /\ discovery_sessions' = [discovery_sessions EXCEPT ![config[s]] = s]
     ELSE UNCHANGED <<daemon_sessions, discovery_sessions>>
  /\ report' = [report EXCEPT ![s] = phase]
  /\ UNCHANGED <<daemon_pull_cancellations, running_snapshots, database, config,
                 start, cancel, poll, cleanup, snapshots, deleting, withdrawn,
                 unsaved, restarts>>

(* discovery_storage.create of the row of a finalized session.  A failure  *)
(* is logged, and the finalization goes on.                                *)
SaveOutcome(s, phase) ==
  \/ /\ history' = [history EXCEPT ![s] = @ \cup {phase}]
     /\ UNCHANGED unsaved
  \/ /\ s \in Unsavable
     /\ unsaved' = unsaved \cup {s}
     /\ UNCHANGED history

(* Finalization: clear the daemon's cancellation flag, write the           *)
(* historical row, leave the queue and promote its new first session       *)
(* whatever its phase, and forget the session.  The entry in               *)
(* session_last_updated stays behind as a tombstone.                       *)
UpdateTerminal(s, phase) ==
  LET d    == DaemonFor(s)
      q    == Retain(daemon_sessions[d], {s})
      next == FirstLive(q)
  IN  /\ Reports(s, phase)
      /\ phase \in Terminal
      /\ ~Redundant(s, phase)
      /\ daemon_pull_cancellations' = [daemon_pull_cancellations EXCEPT ![d] = None]
      /\ SaveOutcome(s, phase)
      /\ daemon_sessions' = [daemon_sessions EXCEPT ![d] = q]
      /\ sessions' = SetPhases({s}, next)
      /\ session_last_updated' = Stamp({s} \cup next)
      /\ discovery_sessions' =
           [c \in Discoveries |->
              IF c = config[s] /\ sessions[s] = None THEN None ELSE Unguard({s})[c]]
      /\ report' = [report EXCEPT ![s] = phase]
      /\ UNCHANGED <<running_snapshots, daemons, config, start, cancel, poll,
                     cleanup, snapshots, deleting, withdrawn, restarts>>

-----------------------------------------------------------------------------
(* cancel_session                                                          *)

(* get_session: the phase is read and the lock dropped.  A Starting        *)
(* session is refused ("try again in a moment").                           *)
CancelRead(s) ==
  /\ cancel[s] = None
  /\ sessions[s] \in Live \ {"Starting"}
  /\ cancel' = [cancel EXCEPT ![s] = sessions[s]]
  /\ UNCHANGED <<tables, database, config, start, poll, cleanup, snapshots,
                 deleting, outside>>

(* The phase read was Queued, Pending or AwaitingSnapshot: take the        *)
(* session out, and if it was Pending promote the new first of the queue   *)
(* whatever its phase.                                                     *)
CancelQueued(s) ==
  LET d    == DaemonFor(s)
      q    == Retain(daemon_sessions[d], {s})
      next == IF cancel[s] = "Pending" THEN FirstLive(q) ELSE {}
  IN  /\ cancel[s] \in Undispatched
      /\ cancel' = [cancel EXCEPT ![s] = None]
      /\ daemon_sessions' = [daemon_sessions EXCEPT ![d] = q]
      /\ sessions' = SetPhases({s}, next)
      /\ session_last_updated' = Stamp(next)
      /\ discovery_sessions' = Unguard({s})
      /\ withdrawn' = withdrawn \cup {s}
      /\ UNCHANGED <<daemon_pull_cancellations, running_snapshots, database, config,
                     start, poll, cleanup, snapshots, deleting, report, unsaved,
                     restarts>>

(* The phase read was Started or Scanning: publish the event (an HTTP call *)
(* to a ServerPoll daemon), then set the flag a DaemonPoll daemon takes.   *)
CancelActive(s) ==
  /\ cancel[s] \in {"Started", "Scanning"}
  /\ cancel' = [cancel EXCEPT ![s] = None]
  /\ daemon_pull_cancellations' = [daemon_pull_cancellations EXCEPT ![DaemonFor(s)] = s]
  /\ UNCHANGED <<sessions, daemon_sessions, discovery_sessions, running_snapshots,
                 session_last_updated, database, config, start, poll, cleanup,
                 snapshots, deleting, outside>>

-----------------------------------------------------------------------------
(* cleanup_stalled_sessions, one call at a time (a 60 s interval task)     *)

(* Five minutes pass without an update of s (a start_session call does not *)
(* take that long).                                                        *)
Age(s) ==
  /\ s \in Lapsing
  /\ start[s] = "done"
  /\ session_last_updated[s] = "fresh"
  /\ session_last_updated' = [session_last_updated EXCEPT ![s] = "old"]
  /\ UNCHANGED <<sessions, daemon_sessions, discovery_sessions,
                 daemon_pull_cancellations, running_snapshots, database, config,
                 start, cancel, poll, cleanup, snapshots, deleting, outside>>

(* First pass, under read locks: which sessions have stalled.              *)
Stalled == {s \in SessionIds : /\ sessions[s] \in CanBeCleanedUp
                               /\ session_last_updated[s] # "fresh"}

SweepCollect ==
  /\ stalled = {}
  /\ Stalled # {}
  /\ stalled' = Stalled
  /\ unflagged' = Stalled
  /\ UNCHANGED <<tables, database, config, start, cancel, poll, snapshots,
                 deleting, outside>>

(* Second pass, no lock held across sessions: publish and set the flag.    *)
SweepFlag(s) ==
  /\ s \in unflagged
  /\ unflagged' = unflagged \ {s}
  /\ daemon_pull_cancellations' = [daemon_pull_cancellations EXCEPT ![DaemonFor(s)] = s]
  /\ UNCHANGED <<sessions, daemon_sessions, discovery_sessions, running_snapshots,
                 session_last_updated, database, config, start, cancel, poll,
                 stalled, snapshots, deleting, outside>>

(* Third pass, under every write lock: the collected sessions that are     *)
(* still there go, a Queued session that is now first is promoted, flags   *)
(* set for the removed ones are dropped, a Failed row is written where the *)
(* daemon still exists (a failure is only logged), and tombstones past the *)
(* threshold are evicted.                                                  *)
SweepRemove ==
  LET gone == {s \in stalled : sessions[s] # None}
      hit  == {DaemonFor(s) : s \in gone}
      q    == [d \in Daemons |-> IF d \in hit THEN Retain(daemon_sessions[d], gone)
                                 ELSE daemon_sessions[d]]
      next == {s \in UNION {FirstLive(q[d]) : d \in hit} : sessions[s] = "Queued"}
  IN  /\ stalled # {}
      /\ unflagged = {}
      /\ stalled' = {}
      /\ sessions' = SetPhases(gone, next)
      /\ daemon_sessions' = q
      /\ discovery_sessions' = Unguard(gone)
      /\ daemon_pull_cancellations' =
           [d \in Daemons |-> IF daemon_pull_cancellations[d] \in gone THEN None
                              ELSE daemon_pull_cancellations[d]]
      /\ session_last_updated' =
           [x \in SessionIds |->
              IF x \in gone \/ (sessions[x] = None /\ session_last_updated[x] = "old")
              THEN "none" ELSE Stamp(next)[x]]
      /\ \E lost \in SUBSET (gone \cap Unsavable) :
           history' = [x \in SessionIds |->
                         IF x \in gone \ lost /\ DaemonFor(x) \in daemons
                         THEN history[x] \cup {"Failed"} ELSE history[x]]
      /\ UNCHANGED <<running_snapshots, daemons, config, start, cancel, poll,
                     unflagged, snapshots, deleting, outside>>

-----------------------------------------------------------------------------
(* create_snapshot: try_acquire_network_for_snapshot, close-and-clone,     *)
(* release_network_for_snapshot                                            *)

SnapshotAcquire(n) ==
  /\ SnapshotReaders = {}
  /\ n \notin running_snapshots
  /\ \A s \in SessionIds : sessions[s] # None => NetworkFor(s) # n
  /\ running_snapshots' = running_snapshots \cup {n}
  /\ snapshotting' = snapshotting \cup {n}
  /\ UNCHANGED <<sessions, daemon_sessions, discovery_sessions,
                 daemon_pull_cancellations, session_last_updated, database,
                 config, start, cancel, poll, cleanup, releasing, deleting,
                 outside>>

(* First section: drop the reservation.                                    *)
ReleaseBegin(n) ==
  /\ n \in snapshotting
  /\ SnapshotReaders = {}
  /\ releasing[n] < MaxReleasing
  /\ running_snapshots' = running_snapshots \ {n}
  /\ snapshotting' = snapshotting \ {n}
  /\ releasing' = [releasing EXCEPT ![n] = @ + 1]
  /\ UNCHANGED <<sessions, daemon_sessions, discovery_sessions,
                 daemon_pull_cancellations, session_last_updated, database,
                 config, start, cancel, poll, cleanup, deleting, outside>>

(* Fault: the walk looks for the wrong phase.                              *)
AwaitingQueued(n) == {s \in SessionIds : sessions[s] = "Queued" /\ NetworkFor(s) = n}

(* Awaiting sessions of a network. *)
Awaiting(n) == {s \in SessionIds : sessions[s] = "AwaitingSnapshot" /\ NetworkFor(s) = n}

(* daemon_has_active, for the sessions the walk does not itself change.    *)
HasDispatchable(d) ==
  \E s \in Members(daemon_sessions[d]) :
    sessions[s] \in Live \ {"Queued", "AwaitingSnapshot"}

(* The awaiting sessions that a walk in some order (that of a HashMap)     *)
(* makes Pending: none of a daemon that has a dispatchable session; else   *)
(* one of those in the queue, which makes the daemon busy for the rest of  *)
(* the walk.  A session not yet pushed does not make it busy.              *)
Promotable(n, P) ==
  \A d \in Daemons :
    LET A == {s \in Awaiting(n) : DaemonFor(s) = d}
        Q == A \cap Members(daemon_sessions[d])
    IN  IF HasDispatchable(d) THEN P \cap A = {}
        ELSE IF Q = {} THEN A \subseteq P
        ELSE \E s \in Q : P \cap Q = {s}

(* Second section: decide the next phase of the awaiting sessions.         *)
ReleaseEnd(n) ==
  /\ releasing[n] > 0
  /\ releasing' = [releasing EXCEPT ![n] = @ - 1]
  /\ \E P \in SUBSET Awaiting(n) :
       /\ Promotable(n, P)
       /\ sessions' = [x \in SessionIds |-> IF x \in P THEN "Pending"
                                            ELSE IF x \in Awaiting(n) THEN "Queued"
                                            ELSE sessions[x]]
       /\ session_last_updated' = Stamp(P)
  /\ UNCHANGED <<daemon_sessions, discovery_sessions, daemon_pull_cancellations,
                 running_snapshots, database, config, start, cancel, poll,
                 cleanup, snapshotting, deleting, outside>>

-----------------------------------------------------------------------------
(* Deleting a daemon; restarting the server                                *)

(* The delete handler's guard. *)
DeleteCheck(d) ==
  /\ d \in daemons
  /\ deleting[d] = "no"
  /\ ~HasActive(d)
  /\ deleting' = [deleting EXCEPT ![d] = "guarded"]
  /\ UNCHANGED <<tables, database, config, start, cancel, poll, cleanup,
                 snapshots, outside>>

(* clear_sessions_for_daemon: everything the queue mentions goes.          *)
DeleteClear(d) ==
  LET gone == Members(daemon_sessions[d])
  IN  /\ deleting[d] = "guarded"
      /\ deleting' = [deleting EXCEPT ![d] = "cleared"]
      /\ sessions' = SetPhases(gone, {})
      /\ session_last_updated' = [x \in SessionIds |->
                                    IF x \in gone THEN "none"
                                    ELSE session_last_updated[x]]
      /\ discovery_sessions' = Unguard(gone)
      /\ daemon_sessions' = [daemon_sessions EXCEPT ![d] = <<>>]
      /\ daemon_pull_cancellations' = [daemon_pull_cancellations EXCEPT ![d] = None]
      /\ UNCHANGED <<running_snapshots, database, config, start, cancel, poll,
                     cleanup, snapshots, outside>>

(* The row is deleted. *)
DeleteRow(d) ==
  /\ deleting[d] = "cleared"
  /\ d \in daemons
  /\ daemons' = daemons \ {d}
  /\ UNCHANGED <<tables, history, config, start, cancel, poll, cleanup,
                 snapshots, deleting, outside>>

(* The process ends: every map is empty again and every task is gone.      *)
Restart ==
  /\ restarts < MaxRestarts
  /\ restarts' = restarts + 1
  /\ sessions' = [s \in SessionIds |-> None]
  /\ daemon_sessions' = [d \in Daemons |-> <<>>]
  /\ discovery_sessions' = [c \in Discoveries |-> None]
  /\ daemon_pull_cancellations' = [d \in Daemons |-> None]
  /\ running_snapshots' = {}
  /\ session_last_updated' = [s \in SessionIds |-> "none"]
  /\ start' = [s \in SessionIds |-> IF start[s] = "new" THEN "new" ELSE "done"]
  /\ cancel' = [s \in SessionIds |-> None]
  /\ poll' = [d \in Daemons |-> None]
  /\ stalled' = {}
  /\ unflagged' = {}
  /\ snapshotting' = {}
  /\ releasing' = [n \in Networks |-> 0]
  /\ deleting' = [d \in Daemons |-> "no"]
  /\ UNCHANGED <<database, config, report, withdrawn, unsaved>>

-----------------------------------------------------------------------------
Starts(s) == \/ \E c \in Discoveries : StartCheck(s, c)
             \/ StartFails(s) \/ StartReserve(s) \/ StartDecide(s)
             \/ StartInsert(s) \/ StartPush(s)

Updates(s) == \/ \E phase \in Outcomes : UpdateIgnored(s, phase) \/ UpdateTerminal(s, phase)
              \/ \E phase \in {"Started", "Scanning"} : UpdateProgress(s, phase)

Cancels(s) == \/ s \in Cancellable /\ CancelRead(s)
              \/ CancelQueued(s) \/ CancelActive(s)

Polls(d) == PollActive(d) \/ PollPick(d) \/ PollTransition(d) \/ PollCancellation(d)

Sweeps == SweepCollect \/ SweepRemove \/ \E s \in SessionIds : SweepFlag(s)

Snapshots(n) == \/ n \in Snapshotted /\ SnapshotAcquire(n)
                \/ ReleaseBegin(n) \/ ReleaseEnd(n)

Deletes(d) == \/ d \in Deletable /\ DeleteCheck(d)
              \/ DeleteClear(d) \/ DeleteRow(d)

Next ==
  \/ \E s \in SessionIds : Starts(s) \/ Updates(s) \/ Cancels(s) \/ Age(s)
  \/ \E d \in Daemons : Polls(d) \/ Deletes(d)
  \/ \E n \in Networks : Snapshots(n)
  \/ Sweeps
  \/ Restart

Spec == Init /\ [][Next]_vars

(* What the server does by itself: its interval task keeps running, time   *)
(* passes, a start_session call and a snapshot handler run to their end.   *)
(* Nothing is assumed of the daemons or of the users.                      *)
Fairness ==
  /\ WF_vars(SweepCollect) /\ WF_vars(SweepRemove)
  /\ \A s \in SessionIds : /\ WF_vars(SweepFlag(s)) /\ WF_vars(Age(s))
                           /\ WF_vars(StartInsert(s)) /\ WF_vars(StartPush(s))
  /\ \A n \in Networks : WF_vars(ReleaseBegin(n)) /\ WF_vars(ReleaseEnd(n))

FairSpec == Spec /\ Fairness

-----------------------------------------------------------------------------
(* Type correctness: every map of DiscoveryService and every task holds a  *)
(* value of its type; in particular the sessions map never keeps a session *)
(* in a terminal phase (update_session and the cleanup remove it in the    *)
(* section that ends it), so cleanup_old_sessions finds nothing there.     *)
TypeOK ==
  /\ sessions \in [SessionIds -> Live \cup {None}]
  /\ daemon_sessions \in [Daemons -> Seq(SessionIds)]
  /\ discovery_sessions \in [Discoveries -> SessionIds \cup {None}]
  /\ daemon_pull_cancellations \in [Daemons -> SessionIds \cup {None}]
  /\ running_snapshots \in SUBSET Networks
  /\ session_last_updated \in [SessionIds -> {"none", "fresh", "old"}]
  /\ history \in [SessionIds -> SUBSET Terminal]
  /\ daemons \in SUBSET Daemons
  /\ config \in [SessionIds -> Discoveries \cup {None}]
  /\ start \in [SessionIds -> StartStates]
  /\ cancel \in [SessionIds -> Live \cup {None}]
  /\ poll \in [Daemons -> SessionIds \cup {None, "clear"}]
  /\ stalled \in SUBSET SessionIds
  /\ unflagged \in SUBSET stalled
  /\ snapshotting \in SUBSET Networks
  /\ releasing \in [Networks -> 0..MaxReleasing]
  /\ deleting \in [Daemons -> {"no", "guarded", "cleared"}]
  /\ report \in [SessionIds -> {None, "handed", "Started", "Scanning"} \cup Terminal]
  /\ withdrawn \in SUBSET SessionIds
  /\ unsaved \in SUBSET SessionIds
  /\ restarts \in 0..MaxRestarts

(* A start_session call that has reserved its discovery and not yet        *)
(* inserted its session.                                                   *)
Reserving(s) == start[s] \in {"reserved"} \cup Deciding

(* discovery_sessions never blocks a discovery for nothing: an entry       *)
(* points at a session in the map, or at one whose start_session is about  *)
(* to insert it.  Otherwise start_session would answer "already running"   *)
(* until the server restarts.                                              *)
GuardNotLeaked ==
  \A c \in Discoveries, s \in SessionIds :
    discovery_sessions[c] = s => sessions[s] # None \/ Reserving(s)

(* Every session can be reached through its daemon's queue (by the work    *)
(* pull, a promotion, a daemon's deletion), except in the moment between   *)
(* the two insertions of start_session.                                    *)
QueueCoversSessions ==
  \A s \in SessionIds :
    sessions[s] # None =>
      s \in Members(daemon_sessions[DaemonFor(s)]) \/ start[s] = "inserted"

(* No id is twice in a daemon's queue, although start_session and the      *)
(* auto-creation of update_session both push without looking at the queue; *)
(* get_sessions_for_daemon would list a repeated id as two sessions.       *)
NoDuplicateInQueue == \A d \in Daemons : NoRepeat(daemon_sessions[d])

(* A session waits for a snapshot only while one is running on its network *)
(* or a release of it is yet to walk the sessions: no wake-up is lost      *)
(* between start_session and release_network_for_snapshot.                 *)
AwaitingIsCovered ==
  \A s \in SessionIds :
    sessions[s] = "AwaitingSnapshot" =>
      NetworkFor(s) \in running_snapshots \/ releasing[NetworkFor(s)] > 0

(* The claim in start_session: the snapshot sees the session, or the       *)
(* session sees the reservation.  A start that decided not to wait is      *)
(* never overtaken by a reservation of its network before its session is   *)
(* in the map for try_acquire_network_for_snapshot to see.                 *)
StartSeesSnapshot ==
  \A s \in SessionIds :
    start[s] \in {"Pending", "Queued"} => NetworkFor(s) \notin running_snapshots

(* "Clock ticking": a session in a phase that cleanup_stalled_sessions     *)
(* looks at has an update time, whichever of the five places promoted it,  *)
(* so it is never taken for stalled the moment it becomes eligible.        *)
StallClockTicks ==
  \A s \in SessionIds :
    sessions[s] \in CanBeCleanedUp => session_last_updated[s] # "none"

(* What update_session's comment on redundant updates takes for granted: a *)
(* terminal report that is ignored was processed before.  So an outcome a  *)
(* daemon reported is lost in two ways only: the database refused its row  *)
(* when update_session finalized it, or a cancellation had taken the       *)
(* session out of the queue.  It is lost to no order of sweep, restart,    *)
(* tombstone eviction and repeated report; in particular a Failed row that *)
(* the sweep could not write is made up for by the report's own.           *)
OutcomeRecorded ==
  \A s \in SessionIds :
    report[s] \in Terminal => history[s] # {} \/ s \in withdrawn \cup unsaved

-----------------------------------------------------------------------------
(* Liveness, under Fairness                                                *)

(* A dispatch that gets lost (the response to request_work, or the request *)
(* to a ServerPoll daemon) does not occupy the daemon for ever: a session  *)
(* leaves Starting even if its daemon never says anything.                 *)
LostDispatchRecovered ==
  \A s \in SessionIds : sessions[s] = "Starting" ~> sessions[s] # "Starting"

(* A session that waits for a snapshot is let go when the snapshot ends.   *)
AwaitingIsReleased ==
  \A s \in SessionIds : sessions[s] = "AwaitingSnapshot" ~> sessions[s] # "AwaitingSnapshot"

-----------------------------------------------------------------------------
(* Statements of the code's comments that do not hold (see the README); no *)
(* run checks them.                                                        *)

(* service/mod.rs: discovery_sessions "enforces one active session per     *)
(* discovery".                                                             *)
OneSessionPerDiscovery ==
  \A s, t \in SessionIds :
    sessions[s] # None /\ sessions[t] # None /\ config[s] = config[t] => s = t

(* DiscoveryPhase::Queued: "Waiting in daemon queue behind another         *)
(* session".  A Queued session with nothing before it is promoted by       *)
(* nothing: finalization, cancellation and cleanup promote only when they  *)
(* remove another session of the daemon.                                   *)
QueuedIsBehindAnother ==
  \A s \in SessionIds :
    sessions[s] = "Queued" =>
      \E t \in SessionIds \ {s} : sessions[t] # None /\ DaemonFor(t) = DaemonFor(s)

(* service/mod.rs on running_snapshots: sessions "are not dispatched until *)
(* release_network_for_snapshot clears the entry".                         *)
SnapshotBlocksDispatch ==
  \A s \in SessionIds :
    sessions[s] = "Pending" => NetworkFor(s) \notin running_snapshots

(* update_session, of a session it tracked and no longer finds: "it was    *)
(* already processed and removed".  Then the outcome the daemon reports    *)
(* for it would be in the history.                                         *)
IgnoredWasProcessed ==
  \A s \in SessionIds : report[s] \in Terminal => history[s] # {}

(* update_session removes the cancellation of a finished session "so it    *)
(* doesn't cancel upcoming sessions": a flag left for a session that is    *)
(* gone never meets a dispatched one.                                      *)
CancellationSparesUpcoming ==
  \A s, t \in SessionIds :
    /\ sessions[t] \in Dispatched
    /\ daemon_pull_cancellations[DaemonFor(t)] = s
    => sessions[s] # None

(* get_pending_work moves the session to Starting "to prevent it from      *)
(* being dispatched again on subsequent poll cycles".                      *)
DispatchedOnce ==
  \A d \in Daemons, s \in SessionIds : poll[d] = s => report[s] = None
=============================================================================
