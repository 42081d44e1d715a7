----------------------- MODULE DiscoverySessionsProofs -----------------------
(***************************************************************************)
(* The safety invariants of the session table, for any number of sessions, *)
(* discoveries, daemons and networks.  None of them is inductive alone;    *)
(* the inductive invariant adds what the tasks between two critical        *)
(* sections may rely on.                                                   *)
(***************************************************************************)
EXTENDS DiscoverySessions, QueuesProofs

(* A session id is used by nothing before start_session mints it.          *)
Unborn ==
  \A s \in SessionIds :
    /\ start[s] = "new" <=> config[s] = None
    /\ start[s] = "new" =>
         /\ sessions[s] = None /\ cancel[s] = None /\ report[s] = None
         /\ s \notin stalled
         /\ \A d \in Daemons : poll[d] # s /\ s \notin Members(daemon_sessions[d])
         /\ \A c \in Discoveries : discovery_sessions[c] # s

(* An id sits in the queue of its own daemon only.                         *)
OwnQueue ==
  \A d \in Daemons : \A s \in Members(daemon_sessions[d]) : d = DaemonFor(s)

(* An id is queued, picked or known to its daemon only after its           *)
(* start_session has pushed it.                                            *)
PushedFirst ==
  \A s \in SessionIds :
    start[s] # "done" =>
      /\ report[s] = None
      /\ \A d \in Daemons : poll[d] # s /\ s \notin Members(daemon_sessions[d])

(* An id that is queued without a session (its session was cancelled       *)
(* before the push) was never handed out: an update cannot revive it.      *)
GhostIsUnknown ==
  \A s \in SessionIds : \A d \in Daemons :
    s \in Members(daemon_sessions[d]) /\ sessions[s] = None =>
      report[s] = None /\ \A e \in Daemons : poll[e] # s

(* While start_session holds running_snapshots.read, what it decided stays *)
(* true of the reservation.                                                *)
StartWaits ==
  \A s \in SessionIds :
    start[s] = "AwaitingSnapshot" => NetworkFor(s) \in running_snapshots

(* An entry of session_last_updated without a session is a tombstone: the  *)
(* session's end was recorded, or its row was refused, or a cancellation   *)
(* withdrew it.                                                            *)
TombstoneIsRecorded ==
  \A s \in SessionIds :
    sessions[s] = None /\ session_last_updated[s] # "none" =>
      history[s] # {} \/ s \in withdrawn \cup unsaved

(* The inductive invariant. *)
IInv ==
  /\ TypeOK
  /\ Unborn /\ OwnQueue /\ PushedFirst /\ GhostIsUnknown /\ StartWaits
  /\ TombstoneIsRecorded
  /\ GuardNotLeaked /\ QueueCoversSessions /\ NoDuplicateInQueue
  /\ AwaitingIsCovered /\ StartSeesSnapshot /\ StallClockTicks /\ OutcomeRecorded

USE ConstantsAssumption, NoneAssumption
    DEF Live, Undispatched, Dispatched, Terminal, Deciding, StartStates,
        CanBeCleanedUp, tables, database, cleanup, snapshots, outside

-----------------------------------------------------------------------------
(* StartCheck: a new call: nothing knows the id yet.                       *)
LEMMA StartCheckInv ==
  ASSUME NEW s \in SessionIds, NEW c \in Discoveries, IInv, StartCheck(s, c)
  PROVE  IInv'
<1>1. TypeOK'
  BY DEF IInv, TypeOK, StartCheck
<1>2. Unborn'
  BY DEF IInv, TypeOK, Unborn, PushedFirst, StartCheck
<1>3. OwnQueue'
  BY DEF IInv, TypeOK, OwnQueue, Unborn, DaemonFor, StartCheck
<1>4. PushedFirst'
  BY DEF IInv, TypeOK, PushedFirst, Unborn, StartCheck
<1>5. StartWaits'
  BY DEF IInv, TypeOK, StartWaits, Unborn, StartSeesSnapshot, NetworkFor,
     DaemonFor, StartCheck
<1>6. GuardNotLeaked'
  BY DEF IInv, TypeOK, GuardNotLeaked, Unborn, Reserving, StartCheck
<1>7. QueueCoversSessions'
  BY DEF IInv, TypeOK, QueueCoversSessions, Unborn, OwnQueue, DaemonFor,
     StartCheck
<1>8. AwaitingIsCovered'
  BY DEF IInv, TypeOK, AwaitingIsCovered, Unborn, StartWaits, NetworkFor,
     DaemonFor, StartCheck
<1>9. StartSeesSnapshot'
  BY DEF IInv, TypeOK, StartSeesSnapshot, Unborn, StartWaits, NetworkFor,
     DaemonFor, StartCheck
<1>10. /\ GhostIsUnknown' /\ TombstoneIsRecorded' /\ NoDuplicateInQueue'
       /\ StallClockTicks' /\ OutcomeRecorded'
  BY DEF IInv, StartCheck, GhostIsUnknown, TombstoneIsRecorded,
     NoDuplicateInQueue, StallClockTicks, OutcomeRecorded
<1> QED
  BY <1>1, <1>2, <1>3, <1>4, <1>5, <1>6, <1>7, <1>8, <1>9, <1>10 DEF IInv

(* StartFails: the call returns: its id was never put anywhere.            *)
LEMMA StartFailsInv ==
  ASSUME NEW s \in SessionIds, IInv, StartFails(s)
  PROVE  IInv'
<1>1. TypeOK'
  BY DEF IInv, TypeOK, StartFails
<1>2. Unborn'
  BY DEF IInv, TypeOK, Unborn, PushedFirst, StartFails
<1>3. PushedFirst'
  BY DEF IInv, TypeOK, PushedFirst, Unborn, StartFails
<1>4. StartWaits'
  BY DEF IInv, TypeOK, StartWaits, Unborn, StartSeesSnapshot, NetworkFor,
     DaemonFor, StartFails
<1>5. GuardNotLeaked'
  BY DEF IInv, TypeOK, GuardNotLeaked, Unborn, Reserving, StartFails
<1>6. QueueCoversSessions'
  BY DEF IInv, TypeOK, QueueCoversSessions, Unborn, OwnQueue, DaemonFor,
     StartFails
<1>7. StartSeesSnapshot'
  BY DEF IInv, TypeOK, StartSeesSnapshot, Unborn, StartWaits, NetworkFor,
     DaemonFor, StartFails
<1>8. /\ OwnQueue' /\ GhostIsUnknown' /\ TombstoneIsRecorded'
      /\ NoDuplicateInQueue' /\ AwaitingIsCovered' /\ StallClockTicks'
      /\ OutcomeRecorded'
  BY DEF IInv, StartFails, OwnQueue, DaemonFor, GhostIsUnknown,
     TombstoneIsRecorded, NoDuplicateInQueue, AwaitingIsCovered, NetworkFor,
     StallClockTicks, OutcomeRecorded
<1> QED
  BY <1>1, <1>2, <1>3, <1>4, <1>5, <1>6, <1>7, <1>8 DEF IInv

(* StartReserve: the entry points at a session about to be inserted.       *)
LEMMA StartReserveInv ==
  ASSUME NEW s \in SessionIds, IInv, StartReserve(s)
  PROVE  IInv'
<1>1. TypeOK'
  BY DEF IInv, TypeOK, StartReserve
<1>2. Unborn'
  BY DEF IInv, TypeOK, Unborn, PushedFirst, StartReserve
<1>3. PushedFirst'
  BY DEF IInv, TypeOK, PushedFirst, Unborn, StartReserve
<1>4. StartWaits'
  BY DEF IInv, TypeOK, StartWaits, Unborn, StartSeesSnapshot, NetworkFor,
     DaemonFor, StartReserve
<1>5. GuardNotLeaked'
  BY DEF IInv, TypeOK, GuardNotLeaked, Unborn, Reserving, StartReserve
<1>6. QueueCoversSessions'
  BY DEF IInv, TypeOK, QueueCoversSessions, Unborn, OwnQueue, DaemonFor,
     StartReserve
<1>7. StartSeesSnapshot'
  BY DEF IInv, TypeOK, StartSeesSnapshot, Unborn, StartWaits, NetworkFor,
     DaemonFor, StartReserve
<1>8. /\ OwnQueue' /\ GhostIsUnknown' /\ TombstoneIsRecorded'
      /\ NoDuplicateInQueue' /\ AwaitingIsCovered' /\ StallClockTicks'
      /\ OutcomeRecorded'
  BY DEF IInv, StartReserve, OwnQueue, DaemonFor, GhostIsUnknown,
     TombstoneIsRecorded, NoDuplicateInQueue, AwaitingIsCovered, NetworkFor,
     StallClockTicks, OutcomeRecorded
<1> QED
  BY <1>1, <1>2, <1>3, <1>4, <1>5, <1>6, <1>7, <1>8 DEF IInv

(* StartDecide: the phase follows the reservation it reads.                *)
LEMMA StartDecideInv ==
  ASSUME NEW s \in SessionIds, IInv, StartDecide(s)
  PROVE  IInv'
<1>1. TypeOK'
  BY DEF IInv, TypeOK, StartDecide, DaemonFor, NetworkFor
<1>2. Unborn'
  BY DEF IInv, TypeOK, Unborn, PushedFirst, StartDecide, DaemonFor, NetworkFor
<1>3. PushedFirst'
  BY DEF IInv, TypeOK, PushedFirst, Unborn, StartDecide, DaemonFor, NetworkFor
<1>4. StartWaits'
  BY DEF IInv, TypeOK, StartWaits, Unborn, StartSeesSnapshot, NetworkFor,
     DaemonFor, StartDecide
<1>5. GuardNotLeaked'
  BY DEF IInv, TypeOK, GuardNotLeaked, Unborn, Reserving, StartDecide,
     DaemonFor, NetworkFor
<1>6. QueueCoversSessions'
  BY DEF IInv, TypeOK, QueueCoversSessions, Unborn, OwnQueue, DaemonFor,
     StartDecide, NetworkFor
<1>7. StartSeesSnapshot'
  BY DEF IInv, TypeOK, StartSeesSnapshot, Unborn, StartWaits, NetworkFor,
     DaemonFor, StartDecide
<1>8. /\ OwnQueue' /\ GhostIsUnknown' /\ TombstoneIsRecorded'
      /\ NoDuplicateInQueue' /\ AwaitingIsCovered' /\ StallClockTicks'
      /\ OutcomeRecorded'
  BY DEF IInv, StartDecide, OwnQueue, DaemonFor, GhostIsUnknown,
     TombstoneIsRecorded, NoDuplicateInQueue, AwaitingIsCovered, NetworkFor,
     StallClockTicks, OutcomeRecorded
<1> QED
  BY <1>1, <1>2, <1>3, <1>4, <1>5, <1>6, <1>7, <1>8 DEF IInv

(* StartInsert: the lock on running_snapshots carries the decision into    *)
(* the map.                                                                *)
LEMMA StartInsertInv ==
  ASSUME NEW s \in SessionIds, IInv, StartInsert(s)
  PROVE  IInv'
<1>1. TypeOK'
  BY DEF IInv, TypeOK, StartInsert, Stamp
<1>2. Unborn'
  BY DEF IInv, TypeOK, Unborn, PushedFirst, StartInsert, Stamp
<1>3. PushedFirst'
  BY DEF IInv, TypeOK, PushedFirst, Unborn, StartInsert, Stamp
<1>4. GhostIsUnknown'
  BY DEF IInv, TypeOK, GhostIsUnknown, Unborn, PushedFirst, OwnQueue,
     DaemonFor, StartInsert, Stamp
<1>5. StartWaits'
  BY DEF IInv, TypeOK, StartWaits, Unborn, StartSeesSnapshot, NetworkFor,
     DaemonFor, StartInsert, Stamp
<1>6. TombstoneIsRecorded'
  BY DEF IInv, TypeOK, TombstoneIsRecorded, StartInsert, Stamp
<1>7. GuardNotLeaked'
  BY DEF IInv, TypeOK, GuardNotLeaked, Unborn, Reserving, StartInsert, Stamp
<1>8. QueueCoversSessions'
  BY DEF IInv, TypeOK, QueueCoversSessions, Unborn, OwnQueue, DaemonFor,
     StartInsert, Stamp
<1>9. AwaitingIsCovered'
  BY DEF IInv, TypeOK, AwaitingIsCovered, Unborn, StartWaits, NetworkFor,
     DaemonFor, StartInsert, Stamp
<1>10. StartSeesSnapshot'
  BY DEF IInv, TypeOK, StartSeesSnapshot, Unborn, StartWaits, NetworkFor,
     DaemonFor, StartInsert, Stamp
<1>11. StallClockTicks'
  BY DEF IInv, TypeOK, StallClockTicks, Unborn, StartInsert, Stamp
<1>12. /\ OwnQueue' /\ NoDuplicateInQueue' /\ OutcomeRecorded'
  BY DEF IInv, StartInsert, OwnQueue, DaemonFor, NoDuplicateInQueue,
     OutcomeRecorded
<1> QED
  BY <1>1, <1>2, <1>3, <1>4, <1>5, <1>6, <1>7, <1>8, <1>9, <1>10, <1>11, <1>12
     DEF IInv

(* StartPush: the id was in no queue, and now it is in its daemon's.       *)
LEMMA StartPushInv ==
  ASSUME NEW s \in SessionIds, IInv, StartPush(s)
  PROVE  IInv'
<1>1. /\ config[s] \in Discoveries /\ DaemonFor(s) \in Daemons
      /\ \A d \in Daemons : s \notin Members(daemon_sessions[d])
  BY DEF IInv, TypeOK, Unborn, PushedFirst, StartPush, DaemonFor
<1>2. /\ daemon_sessions' \in [Daemons -> Seq(SessionIds)]
      /\ \A d \in Daemons :
           /\ Members(daemon_sessions'[d]) =
                Members(daemon_sessions[d]) \cup (IF d = DaemonFor(s) THEN {s} ELSE {})
           /\ NoRepeat(daemon_sessions'[d])
  BY <1>1, PushMembers DEF IInv, TypeOK, NoDuplicateInQueue, StartPush
<1>3. TypeOK'
  BY <1>2 DEF IInv, TypeOK, StartPush
<1>4. Unborn' /\ PushedFirst'
  BY <1>1, <1>2 DEF IInv, TypeOK, Unborn, PushedFirst, StartPush
<1>5. OwnQueue'
  <2> SUFFICES ASSUME NEW d \in Daemons, NEW x \in Members(daemon_sessions'[d])
               PROVE  d = DaemonFor(x)'
    BY DEF OwnQueue
  <2>1. d = DaemonFor(x)
    BY <1>2 DEF IInv, OwnQueue
  <2> QED
    BY <2>1 DEF DaemonFor, StartPush
<1>6. GhostIsUnknown'
  BY <1>2 DEF IInv, TypeOK, GhostIsUnknown, PushedFirst, StartPush
<1>7. QueueCoversSessions'
  BY <1>1, <1>2 DEF IInv, TypeOK, QueueCoversSessions, Unborn, DaemonFor, StartPush
<1>8. NoDuplicateInQueue'
  BY <1>2 DEF NoDuplicateInQueue
<1>9. GuardNotLeaked'
  BY DEF IInv, TypeOK, GuardNotLeaked, Reserving, StartPush
<1>10. StartWaits' /\ StartSeesSnapshot'
  BY DEF IInv, TypeOK, StartWaits, StartSeesSnapshot, NetworkFor, DaemonFor, StartPush
<1>11. TombstoneIsRecorded' /\ AwaitingIsCovered' /\ StallClockTicks' /\ OutcomeRecorded'
  BY DEF IInv, StartPush, TombstoneIsRecorded, AwaitingIsCovered, NetworkFor,
     DaemonFor, StallClockTicks, OutcomeRecorded
<1> QED
  BY <1>3, <1>4, <1>5, <1>6, <1>7, <1>8, <1>9, <1>10, <1>11 DEF IInv

(* PollActive: nothing is picked yet.                                      *)
LEMMA PollActiveInv ==
  ASSUME NEW d \in Daemons, IInv, PollActive(d)
  PROVE  IInv'
<1>1. TypeOK'
  BY DEF IInv, TypeOK, PollActive, HasActive
<1>2. Unborn'
  BY DEF IInv, TypeOK, Unborn, PushedFirst, PollActive, HasActive
<1>3. PushedFirst'
  BY DEF IInv, TypeOK, PushedFirst, Unborn, PollActive, HasActive
<1>4. GhostIsUnknown'
  BY DEF IInv, TypeOK, GhostIsUnknown, Unborn, PushedFirst, OwnQueue,
     DaemonFor, PollActive, HasActive
<1>5. /\ OwnQueue' /\ StartWaits' /\ TombstoneIsRecorded' /\ GuardNotLeaked'
      /\ QueueCoversSessions' /\ NoDuplicateInQueue' /\ AwaitingIsCovered'
      /\ StartSeesSnapshot' /\ StallClockTicks' /\ OutcomeRecorded'
  BY DEF IInv, PollActive, OwnQueue, DaemonFor, StartWaits, NetworkFor,
     TombstoneIsRecorded, GuardNotLeaked, Reserving, QueueCoversSessions,
     NoDuplicateInQueue, AwaitingIsCovered, StartSeesSnapshot, StallClockTicks,
     OutcomeRecorded
<1> QED
  BY <1>1, <1>2, <1>3, <1>4, <1>5 DEF IInv

(* The picked session is a Pending session of the queue.                   *)
LEMMA FirstPendingQueued ==
  ASSUME TypeOK, NEW d \in Daemons, NEW s \in FirstPending(d)
  PROVE  s \in SessionIds /\ s \in Members(daemon_sessions[d]) /\ sessions[s] = "Pending"
BY DEF TypeOK, FirstPending, Members

(* PollPick: what is picked is queued and has a session.                   *)
LEMMA PollPickInv ==
  ASSUME NEW d \in Daemons, IInv, PollPick(d)
  PROVE  IInv'
<1>1. PICK p \in SessionIds \cup {None} :
        /\ poll' = [poll EXCEPT ![d] = p]
        /\ p # None => p \in Members(daemon_sessions[d]) /\ sessions[p] = "Pending"
  BY FirstPendingQueued DEF IInv, PollPick
<1>2. TypeOK'
  BY <1>1 DEF IInv, TypeOK, PollPick
<1>3. Unborn' /\ PushedFirst'
  BY <1>1 DEF IInv, TypeOK, Unborn, PushedFirst, PollPick
<1>4. GhostIsUnknown'
  BY <1>1 DEF IInv, TypeOK, GhostIsUnknown, PollPick
<1>5. /\ OwnQueue' /\ StartWaits' /\ TombstoneIsRecorded' /\ GuardNotLeaked'
      /\ QueueCoversSessions' /\ NoDuplicateInQueue' /\ AwaitingIsCovered'
      /\ StartSeesSnapshot' /\ StallClockTicks' /\ OutcomeRecorded'
  BY DEF IInv, PollPick, OwnQueue, DaemonFor, StartWaits, NetworkFor,
     TombstoneIsRecorded, GuardNotLeaked, Reserving, QueueCoversSessions,
     NoDuplicateInQueue, AwaitingIsCovered, StartSeesSnapshot, StallClockTicks,
     OutcomeRecorded
<1> QED
  BY <1>2, <1>3, <1>4, <1>5 DEF IInv

(* PollTransition: what is handed out was pushed; a session that was       *)
(* cancelled in between is not brought back.                               *)
LEMMA PollTransitionInv ==
  ASSUME NEW d \in Daemons, IInv, PollTransition(d)
  PROVE  IInv'
<1> DEFINE s == poll[d]
<1>1. /\ s \in SessionIds /\ start[s] = "done"
      /\ \A e \in Daemons : s \in Members(daemon_sessions[e]) => sessions[s] # None
  BY DEF IInv, PollTransition, PushedFirst, GhostIsUnknown
<1>2. /\ sessions' = [sessions EXCEPT ![s] = IF @ = "Pending" THEN "Starting" ELSE @]
      /\ session_last_updated' = [session_last_updated EXCEPT ![s] =
                                    IF sessions[s] = "Pending" THEN "fresh" ELSE @]
      /\ poll' = [poll EXCEPT ![d] = None]
      /\ report' = [report EXCEPT ![s] = IF @ = None THEN "handed" ELSE @]
      /\ UNCHANGED <<daemon_sessions, discovery_sessions, daemon_pull_cancellations,
                     running_snapshots, database, config, start, cancel, cleanup,
                     snapshots, deleting, withdrawn, unsaved, restarts>>
  <2>1. CASE sessions[s] = "Pending"
    BY <1>1, <2>1 DEF IInv, TypeOK, PollTransition, Stamp
  <2>2. CASE sessions[s] # "Pending"
    BY <1>1, <2>2 DEF IInv, TypeOK, PollTransition
  <2> QED
    BY <2>1, <2>2
<1> HIDE DEF s
<1>3. TypeOK'
  BY <1>1, <1>2 DEF IInv, TypeOK
<1>4. Unborn' /\ PushedFirst'
  BY <1>1, <1>2 DEF IInv, TypeOK, Unborn, PushedFirst
<1>5. GhostIsUnknown'
  BY <1>1, <1>2 DEF IInv, TypeOK, GhostIsUnknown
<1>6. TombstoneIsRecorded' /\ StallClockTicks'
  BY <1>1, <1>2 DEF IInv, TypeOK, TombstoneIsRecorded, StallClockTicks
<1>7. GuardNotLeaked' /\ QueueCoversSessions'
  BY <1>1, <1>2 DEF IInv, TypeOK, GuardNotLeaked, Reserving, QueueCoversSessions, DaemonFor
<1>8. AwaitingIsCovered'
  BY <1>1, <1>2 DEF IInv, TypeOK, AwaitingIsCovered, NetworkFor, DaemonFor
<1>9. OutcomeRecorded'
  BY <1>1, <1>2 DEF IInv, TypeOK, OutcomeRecorded
<1>10. OwnQueue' /\ StartWaits' /\ NoDuplicateInQueue' /\ StartSeesSnapshot'
  BY <1>2 DEF IInv, OwnQueue, DaemonFor, StartWaits, NetworkFor,
     NoDuplicateInQueue, StartSeesSnapshot
<1> QED
  BY <1>3, <1>4, <1>5, <1>6, <1>7, <1>8, <1>9, <1>10 DEF IInv

(* PollCancellation: only the flag changes.                                *)
LEMMA PollCancellationInv ==
  ASSUME NEW d \in Daemons, IInv, PollCancellation(d)
  PROVE  IInv'
<1>1. TypeOK'
  BY DEF IInv, TypeOK, PollCancellation
<1>2. /\ Unborn' /\ OwnQueue' /\ PushedFirst' /\ GhostIsUnknown'
      /\ StartWaits' /\ TombstoneIsRecorded' /\ GuardNotLeaked'
      /\ QueueCoversSessions' /\ NoDuplicateInQueue' /\ AwaitingIsCovered'
      /\ StartSeesSnapshot' /\ StallClockTicks' /\ OutcomeRecorded'
  BY DEF IInv, PollCancellation, Unborn, OwnQueue, DaemonFor, PushedFirst,
     GhostIsUnknown, StartWaits, NetworkFor, TombstoneIsRecorded,
     GuardNotLeaked, Reserving, QueueCoversSessions, NoDuplicateInQueue,
     AwaitingIsCovered, StartSeesSnapshot, StallClockTicks, OutcomeRecorded
<1> QED
  BY <1>1, <1>2 DEF IInv

(* UpdateIgnored: the tombstone vouches for the outcome.                   *)
LEMMA UpdateIgnoredInv ==
  ASSUME NEW s \in SessionIds, NEW phase \in Outcomes, IInv, UpdateIgnored(s, phase)
  PROVE  IInv'
<1>1. TypeOK'
  BY DEF IInv, TypeOK, UpdateIgnored, Reports, Redundant, Stamp
<1>2. Unborn'
  BY DEF IInv, TypeOK, Unborn, PushedFirst, UpdateIgnored, Reports, Redundant,
     Stamp
<1>3. PushedFirst'
  BY DEF IInv, TypeOK, PushedFirst, Unborn, UpdateIgnored, Reports, Redundant,
     Stamp
<1>4. GhostIsUnknown'
  BY DEF IInv, TypeOK, GhostIsUnknown, Unborn, PushedFirst, OwnQueue,
     DaemonFor, UpdateIgnored, Reports, Redundant, Stamp
<1>5. TombstoneIsRecorded'
  BY DEF IInv, TypeOK, TombstoneIsRecorded, UpdateIgnored, Reports, Redundant,
     Stamp
<1>6. StallClockTicks'
  BY DEF IInv, TypeOK, StallClockTicks, Unborn, UpdateIgnored, Reports,
     Redundant, Stamp
<1>7. OutcomeRecorded'
  BY DEF IInv, TypeOK, OutcomeRecorded, TombstoneIsRecorded, UpdateIgnored,
     Reports, Redundant, Stamp
<1>8. /\ OwnQueue' /\ StartWaits' /\ GuardNotLeaked' /\ QueueCoversSessions'
      /\ NoDuplicateInQueue' /\ AwaitingIsCovered' /\ StartSeesSnapshot'
  BY DEF IInv, UpdateIgnored, OwnQueue, DaemonFor, StartWaits, NetworkFor,
     GuardNotLeaked, Reserving, QueueCoversSessions, NoDuplicateInQueue,
     AwaitingIsCovered, StartSeesSnapshot
<1> QED
  BY <1>1, <1>2, <1>3, <1>4, <1>5, <1>6, <1>7, <1>8 DEF IInv

(* UpdateProgress: an unknown session is created; by GhostIsUnknown its id *)
(* is in no queue, so pushing it repeats nothing.                          *)
LEMMA UpdateProgressInv ==
  ASSUME NEW s \in SessionIds, NEW phase \in {"Started", "Scanning"}, IInv,
         UpdateProgress(s, phase)
  PROVE  IInv'
<1>1. /\ start[s] = "done" /\ report[s] # None
      /\ config[s] \in Discoveries /\ DaemonFor(s) \in Daemons
  BY DEF IInv, TypeOK, Unborn, PushedFirst, UpdateProgress, Reports, DaemonFor
<1>2. IF sessions[s] = None
      THEN \A d \in Daemons : s \notin Members(daemon_sessions[d])
      ELSE s \in Members(daemon_sessions[DaemonFor(s)])
  BY <1>1 DEF IInv, GhostIsUnknown, QueueCoversSessions
<1>3. /\ daemon_sessions' \in [Daemons -> Seq(SessionIds)]
      /\ \A d \in Daemons :
           /\ Members(daemon_sessions'[d]) =
                Members(daemon_sessions[d]) \cup (IF d = DaemonFor(s) THEN {s} ELSE {})
           /\ NoRepeat(daemon_sessions'[d])
  <2>1. CASE sessions[s] = None
    <3>1. daemon_sessions' = [daemon_sessions EXCEPT ![DaemonFor(s)] = Append(@, s)]
      BY <2>1 DEF UpdateProgress
    <3> QED
      BY <1>1, <1>2, <2>1, <3>1, PushMembers DEF IInv, TypeOK, NoDuplicateInQueue
  <2>2. CASE sessions[s] # None
    BY <1>1, <1>2, <2>2 DEF IInv, TypeOK, NoDuplicateInQueue, UpdateProgress
  <2> QED
    BY <2>1, <2>2
<1>4. /\ discovery_sessions' \in [Discoveries -> SessionIds \cup {None}]
      /\ \A c \in Discoveries :
           discovery_sessions'[c] = s \/ discovery_sessions'[c] = discovery_sessions[c]
  <2>1. CASE sessions[s] = None
    <3>1. discovery_sessions' = [discovery_sessions EXCEPT ![config[s]] = s]
      BY <2>1 DEF UpdateProgress
    <3> QED
      BY <1>1, <3>1 DEF IInv, TypeOK
  <2>2. CASE sessions[s] # None
    BY <2>2 DEF IInv, TypeOK, UpdateProgress
  <2> QED
    BY <2>1, <2>2
<1>5. /\ sessions' = [sessions EXCEPT ![s] = phase]
      /\ session_last_updated' = [session_last_updated EXCEPT ![s] = "fresh"]
      /\ report' = [report EXCEPT ![s] = phase]
      /\ UNCHANGED <<daemon_pull_cancellations, running_snapshots, database, config,
                     start, cancel, poll, cleanup, snapshots, deleting, withdrawn,
                     unsaved, restarts>>
  BY DEF IInv, TypeOK, UpdateProgress, Stamp
<1>6. TypeOK'
  BY <1>3, <1>4, <1>5 DEF IInv, TypeOK
<1>7. Unborn' /\ PushedFirst'
  BY <1>1, <1>3, <1>4, <1>5 DEF IInv, TypeOK, Unborn, PushedFirst
<1>8. OwnQueue'
  <2> SUFFICES ASSUME NEW d \in Daemons, NEW x \in Members(daemon_sessions'[d])
               PROVE  d = DaemonFor(x)'
    BY DEF OwnQueue
  <2>1. d = DaemonFor(x)
    BY <1>3 DEF IInv, OwnQueue
  <2> QED
    BY <1>5, <2>1 DEF DaemonFor
<1>9. GhostIsUnknown'
  BY <1>3, <1>5 DEF IInv, TypeOK, GhostIsUnknown
<1>10. GuardNotLeaked'
  BY <1>4, <1>5 DEF IInv, TypeOK, GuardNotLeaked, Reserving
<1>11. QueueCoversSessions'
  BY <1>1, <1>3, <1>5 DEF IInv, TypeOK, QueueCoversSessions, Unborn, DaemonFor
<1>12. NoDuplicateInQueue'
  BY <1>3 DEF NoDuplicateInQueue
<1>13. TombstoneIsRecorded' /\ StallClockTicks'
  BY <1>5 DEF IInv, TypeOK, TombstoneIsRecorded, StallClockTicks
<1>14. AwaitingIsCovered' /\ OutcomeRecorded'
  BY <1>5 DEF IInv, TypeOK, AwaitingIsCovered, NetworkFor, DaemonFor, OutcomeRecorded
<1>15. StartWaits' /\ StartSeesSnapshot'
  BY <1>5 DEF IInv, StartWaits, StartSeesSnapshot, NetworkFor, DaemonFor
<1> QED
  BY <1>6, <1>7, <1>8, <1>9, <1>10, <1>11, <1>12, <1>13, <1>14, <1>15 DEF IInv

(* What FirstLive returns: a session of the map.                           *)
LEMMA FirstLiveSession ==
  ASSUME NEW q \in Seq(SessionIds), NEW x \in FirstLive(q)
  PROVE  x \in SessionIds /\ sessions[x] # None
BY DEF FirstLive

(* Taking one id out of its daemon's queue takes it out of every queue.    *)
LEMMA LeaveQueue ==
  ASSUME NEW s \in SessionIds, TypeOK, OwnQueue, NoDuplicateInQueue,
         DaemonFor(s) \in Daemons,
         daemon_sessions' = [daemon_sessions EXCEPT ![DaemonFor(s)] =
                               Retain(daemon_sessions[DaemonFor(s)], {s})]
  PROVE  /\ daemon_sessions' \in [Daemons -> Seq(SessionIds)]
         /\ \A d \in Daemons :
              /\ Members(daemon_sessions'[d]) = Members(daemon_sessions[d]) \ {s}
              /\ NoRepeat(daemon_sessions'[d])
<1> DEFINE d0 == DaemonFor(s)
           q == Retain(daemon_sessions[d0], {s})
<1>1. /\ q \in Seq(SessionIds)
      /\ Members(q) = Members(daemon_sessions[d0]) \ {s}
      /\ NoRepeat(q)
  BY RetainType, RetainMembers, RetainInjective DEF TypeOK, NoDuplicateInQueue
<1>2. \A d \in Daemons \ {d0} : s \notin Members(daemon_sessions[d])
  BY DEF OwnQueue
<1>3. d0 \in Daemons /\ daemon_sessions' = [daemon_sessions EXCEPT ![d0] = q]
  OBVIOUS
<1>4. daemon_sessions \in [Daemons -> Seq(SessionIds)]
  BY DEF TypeOK
<1> HIDE DEF q, d0
<1>5. ASSUME NEW d \in Daemons
      PROVE  /\ Members(daemon_sessions'[d]) = Members(daemon_sessions[d]) \ {s}
             /\ NoRepeat(daemon_sessions'[d])
  BY <1>1, <1>2, <1>3, <1>4 DEF NoDuplicateInQueue
<1>6. daemon_sessions' \in [Daemons -> Seq(SessionIds)]
  <2> DEFINE QueueSet == Seq(SessionIds)
  <2>1. q \in QueueSet /\ daemon_sessions \in [Daemons -> QueueSet]
    BY <1>1, <1>4
  <2> HIDE DEF QueueSet
  <2>2. daemon_sessions' \in [Daemons -> QueueSet]
    BY ONLY <1>3, <2>1
  <2> QED
    BY ONLY <2>2 DEF QueueSet
<1> QED
  BY <1>5, <1>6

(* UpdateTerminal: the session leaves the map, its queue and               *)
(* discovery_sessions in one section, and its row is written.              *)
LEMMA UpdateTerminalInv ==
  ASSUME NEW s \in SessionIds, NEW phase \in Outcomes, IInv,
         UpdateTerminal(s, phase)
  PROVE  IInv'
<1> DEFINE q == Retain(daemon_sessions[DaemonFor(s)], {s})
           next == FirstLive(q)
<1>1. /\ start[s] = "done" /\ report[s] # None
      /\ config[s] \in Discoveries /\ DaemonFor(s) \in Daemons
  BY DEF IInv, TypeOK, Unborn, PushedFirst, UpdateTerminal, Reports, DaemonFor
<1>2. \A x \in next : x \in SessionIds /\ sessions[x] # None
  <2>1. q \in Seq(SessionIds)
    BY <1>1, RetainType DEF IInv, TypeOK
  <2> QED
    BY <2>1, FirstLiveSession
<1>3. /\ daemon_sessions' \in [Daemons -> Seq(SessionIds)]
      /\ \A d \in Daemons :
           /\ Members(daemon_sessions'[d]) = Members(daemon_sessions[d]) \ {s}
           /\ NoRepeat(daemon_sessions'[d])
  BY <1>1, LeaveQueue DEF IInv, UpdateTerminal
<1>4. /\ phase \in Terminal
      /\ daemon_pull_cancellations' = [daemon_pull_cancellations EXCEPT ![DaemonFor(s)] = None]
      /\ sessions' = [x \in SessionIds |-> IF x = s THEN None
                        ELSE IF x \in next THEN "Pending" ELSE sessions[x]]
      /\ session_last_updated' = [x \in SessionIds |->
                        IF x = s \/ x \in next THEN "fresh" ELSE session_last_updated[x]]
      /\ report' = [report EXCEPT ![s] = phase]
      /\ UNCHANGED <<running_snapshots, daemons, config, start, cancel, poll,
                     cleanup, snapshots, deleting, withdrawn, restarts>>
  BY DEF UpdateTerminal, SetPhases, Stamp
<1>5. /\ discovery_sessions' \in [Discoveries -> SessionIds \cup {None}]
      /\ \A c \in Discoveries :
           /\ discovery_sessions'[c] # s
           /\ discovery_sessions'[c] \in {None, discovery_sessions[c]}
  BY DEF IInv, TypeOK, UpdateTerminal, Unguard
<1>15. /\ history' \in [SessionIds -> SUBSET Terminal]
       /\ unsaved' \in SUBSET SessionIds
       /\ unsaved \subseteq unsaved'
       /\ history'[s] # {} \/ s \in unsaved'
       /\ \A x \in SessionIds : history[x] # {} => history'[x] # {}
  <2>1. CASE history' = [history EXCEPT ![s] = @ \cup {phase}] /\ UNCHANGED unsaved
    <3>1. history'[s] # {} /\ history' \in [SessionIds -> SUBSET Terminal]
      BY <1>4, <2>1 DEF IInv, TypeOK
    <3> QED
      BY <2>1, <3>1 DEF IInv, TypeOK
  <2>2. CASE unsaved' = unsaved \cup {s} /\ UNCHANGED history
    BY <2>2 DEF IInv, TypeOK
  <2> QED
    BY <2>1, <2>2 DEF UpdateTerminal, SaveOutcome
<1> HIDE DEF next
<1>6. TypeOK'
  BY <1>1, <1>3, <1>4, <1>5, <1>15 DEF IInv, TypeOK
<1>7. Unborn' /\ PushedFirst'
  BY <1>1, <1>2, <1>3, <1>4, <1>5 DEF IInv, TypeOK, Unborn, PushedFirst
<1>8. OwnQueue' /\ GhostIsUnknown'
  BY <1>2, <1>3, <1>4 DEF IInv, TypeOK, OwnQueue, GhostIsUnknown, DaemonFor
<1>9. GuardNotLeaked'
  <2> SUFFICES ASSUME NEW c \in Discoveries, NEW x \in SessionIds,
                      discovery_sessions'[c] = x
               PROVE  sessions'[x] # None \/ Reserving(x)'
    BY DEF GuardNotLeaked
  <2>1. discovery_sessions[c] = x /\ x \notin {s}
    BY <1>5
  <2>2. sessions[x] # None \/ Reserving(x)
    BY <2>1 DEF IInv, GuardNotLeaked
  <2> QED
    BY <2>1, <2>2, <1>4 DEF Reserving
<1>10. QueueCoversSessions'
  BY <1>2, <1>3, <1>4 DEF IInv, TypeOK, QueueCoversSessions, Unborn, DaemonFor
<1>11. NoDuplicateInQueue'
  BY <1>3 DEF NoDuplicateInQueue
<1>12. TombstoneIsRecorded' /\ OutcomeRecorded'
  BY <1>2, <1>4, <1>15 DEF IInv, TypeOK, TombstoneIsRecorded, OutcomeRecorded
<1>13. StallClockTicks'
  BY <1>4 DEF IInv, TypeOK, StallClockTicks
<1>14. AwaitingIsCovered' /\ StartWaits' /\ StartSeesSnapshot'
  BY <1>4 DEF IInv, TypeOK, AwaitingIsCovered, StartWaits, StartSeesSnapshot,
     NetworkFor, DaemonFor
<1> QED
  BY <1>6, <1>7, <1>8, <1>9, <1>10, <1>11, <1>12, <1>13, <1>14 DEF IInv

(* CancelRead: a phase is read.                                            *)
LEMMA CancelReadInv ==
  ASSUME NEW s \in SessionIds, IInv, CancelRead(s)
  PROVE  IInv'
<1>1. TypeOK'
  BY DEF IInv, TypeOK, CancelRead
<1>2. Unborn'
  BY DEF IInv, TypeOK, Unborn, PushedFirst, CancelRead
<1>3. /\ OwnQueue' /\ PushedFirst' /\ GhostIsUnknown' /\ StartWaits'
      /\ TombstoneIsRecorded' /\ GuardNotLeaked' /\ QueueCoversSessions'
      /\ NoDuplicateInQueue' /\ AwaitingIsCovered' /\ StartSeesSnapshot'
      /\ StallClockTicks' /\ OutcomeRecorded'
  BY DEF IInv, CancelRead, OwnQueue, DaemonFor, PushedFirst, GhostIsUnknown,
     StartWaits, NetworkFor, TombstoneIsRecorded, GuardNotLeaked, Reserving,
     QueueCoversSessions, NoDuplicateInQueue, AwaitingIsCovered,
     StartSeesSnapshot, StallClockTicks, OutcomeRecorded
<1> QED
  BY <1>1, <1>2, <1>3 DEF IInv

(* CancelQueued: the same removal, without a row; the ghost remembers it.  *)
LEMMA CancelQueuedInv ==
  ASSUME NEW s \in SessionIds, IInv, CancelQueued(s)
  PROVE  IInv'
<1> DEFINE q == Retain(daemon_sessions[DaemonFor(s)], {s})
           next == IF cancel[s] = "Pending" THEN FirstLive(q) ELSE {}
<1>1. /\ start[s] # "new"
      /\ config[s] \in Discoveries /\ DaemonFor(s) \in Daemons
  BY DEF IInv, TypeOK, Unborn, CancelQueued, DaemonFor
<1>2. \A x \in next : x \in SessionIds /\ sessions[x] # None
  <2>1. q \in Seq(SessionIds)
    BY <1>1, RetainType DEF IInv, TypeOK
  <2> QED
    BY <2>1, FirstLiveSession
<1>3. /\ daemon_sessions' \in [Daemons -> Seq(SessionIds)]
      /\ \A d \in Daemons :
           /\ Members(daemon_sessions'[d]) = Members(daemon_sessions[d]) \ {s}
           /\ NoRepeat(daemon_sessions'[d])
  BY <1>1, LeaveQueue DEF IInv, CancelQueued
<1>4. /\ cancel' = [cancel EXCEPT ![s] = None]
      /\ sessions' = [x \in SessionIds |-> IF x = s THEN None
                        ELSE IF x \in next THEN "Pending" ELSE sessions[x]]
      /\ session_last_updated' = [x \in SessionIds |->
                        IF x \in next THEN "fresh" ELSE session_last_updated[x]]
      /\ withdrawn' = withdrawn \cup {s}
      /\ UNCHANGED <<daemon_pull_cancellations, running_snapshots, database, config,
                     start, poll, cleanup, snapshots, deleting, report, unsaved,
                     restarts>>
  BY DEF CancelQueued, SetPhases, Stamp
<1>5. /\ discovery_sessions' \in [Discoveries -> SessionIds \cup {None}]
      /\ \A c \in Discoveries :
           /\ discovery_sessions'[c] # s
           /\ discovery_sessions'[c] \in {None, discovery_sessions[c]}
  BY DEF IInv, TypeOK, CancelQueued, Unguard
<1> HIDE DEF next
<1>6. TypeOK'
  BY <1>3, <1>4, <1>5 DEF IInv, TypeOK
<1>7. Unborn' /\ PushedFirst'
  BY <1>1, <1>2, <1>3, <1>4, <1>5 DEF IInv, TypeOK, Unborn, PushedFirst
<1>8. OwnQueue' /\ GhostIsUnknown'
  BY <1>2, <1>3, <1>4 DEF IInv, TypeOK, OwnQueue, GhostIsUnknown, DaemonFor
<1>9. GuardNotLeaked'
  <2> SUFFICES ASSUME NEW c \in Discoveries, NEW x \in SessionIds,
                      discovery_sessions'[c] = x
               PROVE  sessions'[x] # None \/ Reserving(x)'
    BY DEF GuardNotLeaked
  <2>1. discovery_sessions[c] = x /\ x \notin {s}
    BY <1>5
  <2>2. sessions[x] # None \/ Reserving(x)
    BY <2>1 DEF IInv, GuardNotLeaked
  <2> QED
    BY <2>1, <2>2, <1>4 DEF Reserving
<1>10. QueueCoversSessions'
  BY <1>2, <1>3, <1>4 DEF IInv, TypeOK, QueueCoversSessions, Unborn, DaemonFor
<1>11. NoDuplicateInQueue'
  BY <1>3 DEF NoDuplicateInQueue
<1>12. TombstoneIsRecorded' /\ OutcomeRecorded'
  BY <1>2, <1>4 DEF IInv, TypeOK, TombstoneIsRecorded, OutcomeRecorded
<1>13. StallClockTicks'
  BY <1>4 DEF IInv, TypeOK, StallClockTicks
<1>14. AwaitingIsCovered' /\ StartWaits' /\ StartSeesSnapshot'
  BY <1>4 DEF IInv, TypeOK, AwaitingIsCovered, StartWaits, StartSeesSnapshot,
     NetworkFor, DaemonFor
<1> QED
  BY <1>6, <1>7, <1>8, <1>9, <1>10, <1>11, <1>12, <1>13, <1>14 DEF IInv

(* CancelActive: only the flag changes.                                    *)
LEMMA CancelActiveInv ==
  ASSUME NEW s \in SessionIds, IInv, CancelActive(s)
  PROVE  IInv'
<1>1. TypeOK'
  BY DEF IInv, TypeOK, CancelActive, DaemonFor
<1>2. Unborn'
  BY DEF IInv, TypeOK, Unborn, PushedFirst, CancelActive, DaemonFor
<1>3. /\ OwnQueue' /\ PushedFirst' /\ GhostIsUnknown' /\ StartWaits'
      /\ TombstoneIsRecorded' /\ GuardNotLeaked' /\ QueueCoversSessions'
      /\ NoDuplicateInQueue' /\ AwaitingIsCovered' /\ StartSeesSnapshot'
      /\ StallClockTicks' /\ OutcomeRecorded'
  BY DEF IInv, CancelActive, OwnQueue, DaemonFor, PushedFirst, GhostIsUnknown,
     StartWaits, NetworkFor, TombstoneIsRecorded, GuardNotLeaked, Reserving,
     QueueCoversSessions, NoDuplicateInQueue, AwaitingIsCovered,
     StartSeesSnapshot, StallClockTicks, OutcomeRecorded
<1> QED
  BY <1>1, <1>2, <1>3 DEF IInv

(* Age: a clock runs out.                                                  *)
LEMMA AgeInv ==
  ASSUME NEW s \in SessionIds, IInv, Age(s)
  PROVE  IInv'
<1>1. TypeOK'
  BY DEF IInv, TypeOK, Age
<1>2. TombstoneIsRecorded'
  BY DEF IInv, TypeOK, TombstoneIsRecorded, Age
<1>3. StallClockTicks'
  BY DEF IInv, TypeOK, StallClockTicks, Unborn, Age
<1>4. /\ Unborn' /\ OwnQueue' /\ PushedFirst' /\ GhostIsUnknown'
      /\ StartWaits' /\ GuardNotLeaked' /\ QueueCoversSessions'
      /\ NoDuplicateInQueue' /\ AwaitingIsCovered' /\ StartSeesSnapshot'
      /\ OutcomeRecorded'
  BY DEF IInv, Age, Unborn, OwnQueue, DaemonFor, PushedFirst, GhostIsUnknown,
     StartWaits, NetworkFor, GuardNotLeaked, Reserving, QueueCoversSessions,
     NoDuplicateInQueue, AwaitingIsCovered, StartSeesSnapshot, OutcomeRecorded
<1> QED
  BY <1>1, <1>2, <1>3, <1>4 DEF IInv

(* SweepCollect: the sessions collected are in the map.                    *)
LEMMA SweepCollectInv ==
  ASSUME IInv, SweepCollect
  PROVE  IInv'
<1>1. TypeOK'
  BY DEF IInv, TypeOK, SweepCollect, Stalled
<1>2. Unborn'
  BY DEF IInv, TypeOK, Unborn, PushedFirst, SweepCollect, Stalled
<1>3. /\ OwnQueue' /\ PushedFirst' /\ GhostIsUnknown' /\ StartWaits'
      /\ TombstoneIsRecorded' /\ GuardNotLeaked' /\ QueueCoversSessions'
      /\ NoDuplicateInQueue' /\ AwaitingIsCovered' /\ StartSeesSnapshot'
      /\ StallClockTicks' /\ OutcomeRecorded'
  BY DEF IInv, SweepCollect, OwnQueue, DaemonFor, PushedFirst, GhostIsUnknown,
     StartWaits, NetworkFor, TombstoneIsRecorded, GuardNotLeaked, Reserving,
     QueueCoversSessions, NoDuplicateInQueue, AwaitingIsCovered,
     StartSeesSnapshot, StallClockTicks, OutcomeRecorded
<1> QED
  BY <1>1, <1>2, <1>3 DEF IInv

(* SweepFlag: only the flag changes.                                       *)
LEMMA SweepFlagInv ==
  ASSUME NEW s \in SessionIds, IInv, SweepFlag(s)
  PROVE  IInv'
<1>1. TypeOK'
  BY DEF IInv, TypeOK, SweepFlag, DaemonFor
<1>2. /\ Unborn' /\ OwnQueue' /\ PushedFirst' /\ GhostIsUnknown'
      /\ StartWaits' /\ TombstoneIsRecorded' /\ GuardNotLeaked'
      /\ QueueCoversSessions' /\ NoDuplicateInQueue' /\ AwaitingIsCovered'
      /\ StartSeesSnapshot' /\ StallClockTicks' /\ OutcomeRecorded'
  BY DEF IInv, SweepFlag, Unborn, OwnQueue, DaemonFor, PushedFirst,
     GhostIsUnknown, StartWaits, NetworkFor, TombstoneIsRecorded,
     GuardNotLeaked, Reserving, QueueCoversSessions, NoDuplicateInQueue,
     AwaitingIsCovered, StartSeesSnapshot, StallClockTicks, OutcomeRecorded
<1> QED
  BY <1>1, <1>2 DEF IInv

(* SweepRemove: the ids collected before are judged by the map as it is    *)
(* now; the queues lose exactly the sessions removed.                      *)
LEMMA SweepRemoveInv ==
  ASSUME IInv, SweepRemove
  PROVE  IInv'
<1> DEFINE gone == {s \in stalled : sessions[s] # None}
           hit  == {DaemonFor(s) : s \in gone}
           q    == [d \in Daemons |-> IF d \in hit THEN Retain(daemon_sessions[d], gone)
                                      ELSE daemon_sessions[d]]
           next == {s \in UNION {FirstLive(q[d]) : d \in hit} : sessions[s] = "Queued"}
<1>1. gone \in SUBSET SessionIds /\ hit \in SUBSET Daemons
  BY DEF IInv, TypeOK, Unborn, DaemonFor
<1>2. /\ q \in [Daemons -> Seq(SessionIds)]
      /\ \A d \in Daemons : /\ Members(q[d]) = Members(daemon_sessions[d]) \ gone
                            /\ NoRepeat(q[d])
  <2> SUFFICES ASSUME NEW d \in Daemons
               PROVE  /\ q[d] \in Seq(SessionIds)
                      /\ Members(q[d]) = Members(daemon_sessions[d]) \ gone
                      /\ NoRepeat(q[d])
    OBVIOUS
  <2>1. daemon_sessions[d] \in Seq(SessionIds) /\ NoRepeat(daemon_sessions[d])
    BY DEF IInv, TypeOK, NoDuplicateInQueue
  <2>2. CASE d \in hit
    <3> HIDE DEF hit, gone
    <3>1. q[d] = Retain(daemon_sessions[d], gone)
      BY <2>2
    <3> QED
      BY <2>1, <3>1, RetainType, RetainMembers, RetainInjective
  <2>3. CASE d \notin hit
    <3>1. \A x \in Members(daemon_sessions[d]) : x \notin gone
      BY <2>3 DEF IInv, OwnQueue
    <3> HIDE DEF hit, gone
    <3> QED
      BY <2>1, <2>3, <3>1
  <2> QED
    BY <2>2, <2>3
<1>3. \A x \in next : x \in SessionIds /\ sessions[x] # None
  <2> HIDE DEF q, hit
  <2> QED
    BY <1>1, <1>2, FirstLiveSession
<1>4. /\ stalled' = {} /\ unflagged = {}
      /\ daemon_sessions' = q
      /\ sessions' = [x \in SessionIds |-> IF x \in gone THEN None
                        ELSE IF x \in next THEN "Pending" ELSE sessions[x]]
      /\ daemon_pull_cancellations' =
           [d \in Daemons |-> IF daemon_pull_cancellations[d] \in gone THEN None
                              ELSE daemon_pull_cancellations[d]]
      /\ session_last_updated' = [x \in SessionIds |->
           IF x \in gone \/ (sessions[x] = None /\ session_last_updated[x] = "old")
           THEN "none" ELSE IF x \in next THEN "fresh" ELSE session_last_updated[x]]
      /\ \E lost \in SUBSET (gone \cap Unsavable) :
           history' = [x \in SessionIds |->
                         IF x \in gone \ lost /\ DaemonFor(x) \in daemons
                         THEN history[x] \cup {"Failed"} ELSE history[x]]
      /\ UNCHANGED <<running_snapshots, daemons, config, start, cancel, poll,
                     unflagged, snapshots, deleting, outside>>
  BY DEF SweepRemove, SetPhases, Stamp
<1>5. /\ discovery_sessions' \in [Discoveries -> SessionIds \cup {None}]
      /\ \A c \in Discoveries :
           /\ discovery_sessions'[c] \notin gone
           /\ discovery_sessions'[c] \in {None, discovery_sessions[c]}
  <2>1. discovery_sessions' = Unguard(gone)
    BY DEF SweepRemove
  <2>2. None \notin gone
    BY <1>1
  <2> HIDE DEF gone
  <2> QED
    BY <2>1, <2>2 DEF IInv, TypeOK, Unguard
<1>6. \A x \in gone : x \in SessionIds /\ sessions[x] # None
  BY <1>1
<1>16. /\ history' \in [SessionIds -> SUBSET Terminal]
       /\ \A x \in SessionIds : history[x] # {} => history'[x] # {}
  BY <1>4 DEF IInv, TypeOK
<1> HIDE DEF next, q, gone, hit
<1>7. TypeOK'
  BY <1>2, <1>4, <1>5, <1>16 DEF IInv, TypeOK, outside
<1>8. Unborn' /\ PushedFirst'
  BY <1>2, <1>3, <1>4, <1>5 DEF IInv, TypeOK, Unborn, PushedFirst
<1>9. OwnQueue' /\ GhostIsUnknown'
  BY <1>2, <1>4 DEF IInv, TypeOK, OwnQueue, GhostIsUnknown, DaemonFor
<1>10. GuardNotLeaked'
  <2> SUFFICES ASSUME NEW c \in Discoveries, NEW x \in SessionIds,
                      discovery_sessions'[c] = x
               PROVE  sessions'[x] # None \/ Reserving(x)'
    BY DEF GuardNotLeaked
  <2>1. discovery_sessions[c] = x /\ x \notin gone
    BY <1>5
  <2>2. sessions[x] # None \/ Reserving(x)
    BY <2>1 DEF IInv, GuardNotLeaked
  <2> QED
    BY <2>1, <2>2, <1>4 DEF Reserving
<1>11. QueueCoversSessions'
  BY <1>2, <1>3, <1>4 DEF IInv, TypeOK, QueueCoversSessions, Unborn, DaemonFor
<1>12. NoDuplicateInQueue'
  BY <1>2, <1>4 DEF NoDuplicateInQueue
<1>13. TombstoneIsRecorded' /\ OutcomeRecorded'
  BY <1>3, <1>4 DEF IInv, TypeOK, TombstoneIsRecorded, OutcomeRecorded
<1>14. StallClockTicks'
  <2> SUFFICES ASSUME NEW x \in SessionIds, sessions'[x] \in CanBeCleanedUp
               PROVE  session_last_updated'[x] # "none"
    BY DEF StallClockTicks
  <2>1. x \notin gone /\ (x \in next \/ sessions[x] \in CanBeCleanedUp)
    BY <1>4
  <2> QED
    BY <1>3, <1>4, <2>1 DEF IInv, StallClockTicks
<1>15. AwaitingIsCovered' /\ StartWaits' /\ StartSeesSnapshot'
  BY <1>4 DEF IInv, TypeOK, AwaitingIsCovered, StartWaits, StartSeesSnapshot,
     NetworkFor, DaemonFor
<1> QED
  BY <1>7, <1>8, <1>9, <1>10, <1>11, <1>12, <1>13, <1>14, <1>15 DEF IInv

(* SnapshotAcquire: no start_session call is between its decision and its  *)
(* push.                                                                   *)
LEMMA SnapshotAcquireInv ==
  ASSUME NEW n \in Networks, IInv, SnapshotAcquire(n)
  PROVE  IInv'
<1>1. TypeOK'
  BY DEF IInv, TypeOK, SnapshotAcquire, SnapshotReaders, NetworkFor
<1>2. StartWaits'
  BY DEF IInv, TypeOK, StartWaits, Unborn, StartSeesSnapshot, NetworkFor,
     DaemonFor, SnapshotAcquire, SnapshotReaders
<1>3. AwaitingIsCovered'
  BY DEF IInv, TypeOK, AwaitingIsCovered, Unborn, StartWaits, NetworkFor,
     DaemonFor, SnapshotAcquire, SnapshotReaders
<1>4. StartSeesSnapshot'
  BY DEF IInv, TypeOK, StartSeesSnapshot, Unborn, StartWaits, NetworkFor,
     DaemonFor, SnapshotAcquire, SnapshotReaders
<1>5. /\ Unborn' /\ OwnQueue' /\ PushedFirst' /\ GhostIsUnknown'
      /\ TombstoneIsRecorded' /\ GuardNotLeaked' /\ QueueCoversSessions'
      /\ NoDuplicateInQueue' /\ StallClockTicks' /\ OutcomeRecorded'
  BY DEF IInv, SnapshotAcquire, Unborn, OwnQueue, DaemonFor, PushedFirst,
     GhostIsUnknown, TombstoneIsRecorded, GuardNotLeaked, Reserving,
     QueueCoversSessions, NoDuplicateInQueue, StallClockTicks, OutcomeRecorded
<1> QED
  BY <1>1, <1>2, <1>3, <1>4, <1>5 DEF IInv

(* ReleaseBegin: the second section is now owed.                           *)
LEMMA ReleaseBeginInv ==
  ASSUME NEW n \in Networks, IInv, ReleaseBegin(n)
  PROVE  IInv'
<1>1. TypeOK'
  BY DEF IInv, TypeOK, ReleaseBegin, SnapshotReaders, NetworkFor
<1>2. StartWaits'
  BY DEF IInv, TypeOK, StartWaits, Unborn, StartSeesSnapshot, NetworkFor,
     DaemonFor, ReleaseBegin, SnapshotReaders
<1>3. AwaitingIsCovered'
  BY DEF IInv, TypeOK, AwaitingIsCovered, Unborn, StartWaits, NetworkFor,
     DaemonFor, ReleaseBegin, SnapshotReaders
<1>4. StartSeesSnapshot'
  BY DEF IInv, TypeOK, StartSeesSnapshot, Unborn, StartWaits, NetworkFor,
     DaemonFor, ReleaseBegin, SnapshotReaders
<1>5. /\ Unborn' /\ OwnQueue' /\ PushedFirst' /\ GhostIsUnknown'
      /\ TombstoneIsRecorded' /\ GuardNotLeaked' /\ QueueCoversSessions'
      /\ NoDuplicateInQueue' /\ StallClockTicks' /\ OutcomeRecorded'
  BY DEF IInv, ReleaseBegin, Unborn, OwnQueue, DaemonFor, PushedFirst,
     GhostIsUnknown, TombstoneIsRecorded, GuardNotLeaked, Reserving,
     QueueCoversSessions, NoDuplicateInQueue, StallClockTicks, OutcomeRecorded
<1> QED
  BY <1>1, <1>2, <1>3, <1>4, <1>5 DEF IInv

(* ReleaseEnd: no session of the network is left waiting.                  *)
LEMMA ReleaseEndInv ==
  ASSUME NEW n \in Networks, IInv, ReleaseEnd(n)
  PROVE  IInv'
<1>1. TypeOK'
  BY DEF IInv, TypeOK, ReleaseEnd, Awaiting, Stamp, NetworkFor
<1>2. Unborn'
  BY DEF IInv, TypeOK, Unborn, PushedFirst, ReleaseEnd, Awaiting, Stamp,
     NetworkFor
<1>3. GhostIsUnknown'
  BY DEF IInv, TypeOK, GhostIsUnknown, Unborn, PushedFirst, OwnQueue,
     DaemonFor, ReleaseEnd, Awaiting, Stamp, NetworkFor
<1>4. TombstoneIsRecorded'
  BY DEF IInv, TypeOK, TombstoneIsRecorded, ReleaseEnd, Awaiting, Stamp,
     NetworkFor
<1>5. GuardNotLeaked'
  BY DEF IInv, TypeOK, GuardNotLeaked, Unborn, Reserving, ReleaseEnd, Awaiting,
     Stamp, NetworkFor
<1>6. QueueCoversSessions'
  BY DEF IInv, TypeOK, QueueCoversSessions, Unborn, OwnQueue, DaemonFor,
     ReleaseEnd, Awaiting, Stamp, NetworkFor
<1>7. AwaitingIsCovered'
  BY DEF IInv, TypeOK, AwaitingIsCovered, Unborn, StartWaits, NetworkFor,
     DaemonFor, ReleaseEnd, Awaiting, Stamp
<1>8. StallClockTicks'
  BY DEF IInv, TypeOK, StallClockTicks, Unborn, ReleaseEnd, Awaiting, Stamp,
     NetworkFor
<1>9. /\ OwnQueue' /\ PushedFirst' /\ StartWaits' /\ NoDuplicateInQueue'
      /\ StartSeesSnapshot' /\ OutcomeRecorded'
  BY DEF IInv, ReleaseEnd, OwnQueue, DaemonFor, PushedFirst, StartWaits,
     NetworkFor, NoDuplicateInQueue, StartSeesSnapshot, OutcomeRecorded
<1> QED
  BY <1>1, <1>2, <1>3, <1>4, <1>5, <1>6, <1>7, <1>8, <1>9 DEF IInv

(* DeleteCheck: the guard is only read.                                    *)
LEMMA DeleteCheckInv ==
  ASSUME NEW d \in Daemons, IInv, DeleteCheck(d)
  PROVE  IInv'
<1>1. TypeOK'
  BY DEF IInv, TypeOK, DeleteCheck, HasActive
<1>2. /\ Unborn' /\ OwnQueue' /\ PushedFirst' /\ GhostIsUnknown'
      /\ StartWaits' /\ TombstoneIsRecorded' /\ GuardNotLeaked'
      /\ QueueCoversSessions' /\ NoDuplicateInQueue' /\ AwaitingIsCovered'
      /\ StartSeesSnapshot' /\ StallClockTicks' /\ OutcomeRecorded'
  BY DEF IInv, DeleteCheck, Unborn, OwnQueue, DaemonFor, PushedFirst,
     GhostIsUnknown, StartWaits, NetworkFor, TombstoneIsRecorded,
     GuardNotLeaked, Reserving, QueueCoversSessions, NoDuplicateInQueue,
     AwaitingIsCovered, StartSeesSnapshot, StallClockTicks, OutcomeRecorded
<1> QED
  BY <1>1, <1>2 DEF IInv

(* DeleteClear: everything the queue mentions goes, and with OwnQueue      *)
(* nothing another queue mentions does.                                    *)
LEMMA DeleteClearInv ==
  ASSUME NEW d \in Daemons, IInv, DeleteClear(d)
  PROVE  IInv'
<1> DEFINE gone == Members(daemon_sessions[d])
<1>1. gone \in SUBSET SessionIds
  BY DEF IInv, TypeOK, Members
<1> HIDE DEF gone
<1>2. /\ daemon_sessions' \in [Daemons -> Seq(SessionIds)]
      /\ \A e \in Daemons :
           /\ Members(daemon_sessions'[e]) = Members(daemon_sessions[e]) \ gone
           /\ NoRepeat(daemon_sessions'[e])
  <2>1. \A e \in Daemons \ {d} : Members(daemon_sessions[e]) \cap gone = {}
    BY DEF IInv, OwnQueue, gone
  <2> QED
    BY <2>1, EmptyQueue DEF IInv, TypeOK, NoDuplicateInQueue, DeleteClear, gone
<1>3. /\ deleting' = [deleting EXCEPT ![d] = "cleared"]
      /\ daemon_pull_cancellations' = [daemon_pull_cancellations EXCEPT ![d] = None]
      /\ sessions' = [x \in SessionIds |-> IF x \in gone THEN None ELSE sessions[x]]
      /\ session_last_updated' = [x \in SessionIds |->
                        IF x \in gone THEN "none" ELSE session_last_updated[x]]
      /\ UNCHANGED <<running_snapshots, database, config, start, cancel, poll,
                     cleanup, snapshots, outside>>
  BY DEF DeleteClear, SetPhases, gone
<1>4. /\ discovery_sessions' \in [Discoveries -> SessionIds \cup {None}]
      /\ \A c \in Discoveries :
           /\ discovery_sessions'[c] \notin gone
           /\ discovery_sessions'[c] \in {None, discovery_sessions[c]}
  <2>1. discovery_sessions' = Unguard(gone)
    BY DEF DeleteClear, gone
  <2>2. None \notin gone
    BY <1>1
  <2> QED
    BY <2>1, <2>2 DEF IInv, TypeOK, Unguard
<1>5. TypeOK'
  BY <1>2, <1>3, <1>4 DEF IInv, TypeOK
<1>6. Unborn' /\ PushedFirst'
  BY <1>2, <1>3, <1>4 DEF IInv, TypeOK, Unborn, PushedFirst
<1>7. OwnQueue' /\ GhostIsUnknown'
  BY <1>2, <1>3 DEF IInv, TypeOK, OwnQueue, GhostIsUnknown, DaemonFor
<1>8. GuardNotLeaked'
  <2> SUFFICES ASSUME NEW c \in Discoveries, NEW x \in SessionIds,
                      discovery_sessions'[c] = x
               PROVE  sessions'[x] # None \/ Reserving(x)'
    BY DEF GuardNotLeaked
  <2>1. discovery_sessions[c] = x /\ x \notin gone
    BY <1>4
  <2>2. sessions[x] # None \/ Reserving(x)
    BY <2>1 DEF IInv, GuardNotLeaked
  <2> QED
    BY <2>1, <2>2, <1>3 DEF Reserving
<1>9. QueueCoversSessions'
  BY <1>2, <1>3 DEF IInv, TypeOK, QueueCoversSessions, Unborn, DaemonFor
<1>10. NoDuplicateInQueue'
  BY <1>2 DEF NoDuplicateInQueue
<1>11. TombstoneIsRecorded' /\ StallClockTicks'
  BY <1>3 DEF IInv, TypeOK, TombstoneIsRecorded, StallClockTicks
<1>12. AwaitingIsCovered' /\ StartWaits' /\ StartSeesSnapshot'
  BY <1>3 DEF IInv, TypeOK, AwaitingIsCovered, StartWaits, StartSeesSnapshot,
     NetworkFor, DaemonFor
<1>13. OutcomeRecorded'
  BY <1>3 DEF IInv, OutcomeRecorded
<1> QED
  BY <1>5, <1>6, <1>7, <1>8, <1>9, <1>10, <1>11, <1>12, <1>13 DEF IInv

(* DeleteRow: the row goes; the maps are as they were.                     *)
LEMMA DeleteRowInv ==
  ASSUME NEW d \in Daemons, IInv, DeleteRow(d)
  PROVE  IInv'
<1>1. TypeOK'
  BY DEF IInv, TypeOK, DeleteRow
<1>2. /\ Unborn' /\ OwnQueue' /\ PushedFirst' /\ GhostIsUnknown'
      /\ StartWaits' /\ TombstoneIsRecorded' /\ GuardNotLeaked'
      /\ QueueCoversSessions' /\ NoDuplicateInQueue' /\ AwaitingIsCovered'
      /\ StartSeesSnapshot' /\ StallClockTicks' /\ OutcomeRecorded'
  BY DEF IInv, DeleteRow, Unborn, OwnQueue, DaemonFor, PushedFirst,
     GhostIsUnknown, StartWaits, NetworkFor, TombstoneIsRecorded,
     GuardNotLeaked, Reserving, QueueCoversSessions, NoDuplicateInQueue,
     AwaitingIsCovered, StartSeesSnapshot, StallClockTicks, OutcomeRecorded
<1> QED
  BY <1>1, <1>2 DEF IInv

(* Restart: the maps are empty; the history is not.                        *)
LEMMA RestartInv ==
  ASSUME IInv, Restart
  PROVE  IInv'
<1>1. TypeOK'
  BY EmptyQueue DEF IInv, TypeOK, Restart
<1>2. Unborn'
  BY EmptyQueue DEF IInv, TypeOK, Unborn, PushedFirst, Restart
<1>3. OwnQueue'
  BY EmptyQueue DEF IInv, TypeOK, OwnQueue, Unborn, DaemonFor, Restart
<1>4. PushedFirst'
  BY EmptyQueue DEF IInv, TypeOK, PushedFirst, Unborn, Restart
<1>5. GhostIsUnknown'
  BY EmptyQueue DEF IInv, TypeOK, GhostIsUnknown, Unborn, PushedFirst,
     OwnQueue, DaemonFor, Restart
<1>6. StartWaits'
  BY EmptyQueue DEF IInv, TypeOK, StartWaits, Unborn, StartSeesSnapshot,
     NetworkFor, DaemonFor, Restart
<1>7. TombstoneIsRecorded'
  BY EmptyQueue DEF IInv, TypeOK, TombstoneIsRecorded, Restart
<1>8. GuardNotLeaked'
  BY EmptyQueue DEF IInv, TypeOK, GuardNotLeaked, Unborn, Reserving, Restart
<1>9. QueueCoversSessions'
  BY EmptyQueue DEF IInv, TypeOK, QueueCoversSessions, Unborn, OwnQueue,
     DaemonFor, Restart
<1>10. NoDuplicateInQueue'
  BY EmptyQueue DEF IInv, TypeOK, NoDuplicateInQueue, PushedFirst,
     GhostIsUnknown, OwnQueue, Restart
<1>11. AwaitingIsCovered'
  BY EmptyQueue DEF IInv, TypeOK, AwaitingIsCovered, Unborn, StartWaits,
     NetworkFor, DaemonFor, Restart
<1>12. StartSeesSnapshot'
  BY EmptyQueue DEF IInv, TypeOK, StartSeesSnapshot, Unborn, StartWaits,
     NetworkFor, DaemonFor, Restart
<1>13. StallClockTicks'
  BY EmptyQueue DEF IInv, TypeOK, StallClockTicks, Unborn, Restart
<1>14. OutcomeRecorded'
  BY DEF IInv, Restart, OutcomeRecorded
<1> QED
  BY <1>1, <1>2, <1>3, <1>4, <1>5, <1>6, <1>7, <1>8, <1>9, <1>10, <1>11, <1>12,
     <1>13, <1>14 DEF IInv

-----------------------------------------------------------------------------
(* The maps start empty. *)
LEMMA InitInv == Init => IInv
<1> SUFFICES ASSUME Init PROVE IInv
  OBVIOUS
<1>1. TypeOK
  BY EmptyQueue DEF Init, TypeOK
<1>2. \A d \in Daemons : Members(daemon_sessions[d]) = {} /\ NoRepeat(daemon_sessions[d])
  BY EmptyQueue DEF Init
<1>3. Unborn /\ OwnQueue /\ PushedFirst /\ GhostIsUnknown /\ NoDuplicateInQueue
  BY <1>2 DEF Init, Unborn, OwnQueue, PushedFirst, GhostIsUnknown, NoDuplicateInQueue
<1>4. /\ StartWaits /\ TombstoneIsRecorded /\ GuardNotLeaked /\ QueueCoversSessions
      /\ AwaitingIsCovered /\ StartSeesSnapshot /\ StallClockTicks /\ OutcomeRecorded
  BY DEF Init, StartWaits, TombstoneIsRecorded, GuardNotLeaked,
     QueueCoversSessions, AwaitingIsCovered, StartSeesSnapshot, StallClockTicks,
     OutcomeRecorded
<1> QED
  BY <1>1, <1>3, <1>4 DEF IInv

(* Every critical section of every task keeps the invariant. *)
LEMMA NextInv == IInv /\ [Next]_vars => IInv'
<1> SUFFICES ASSUME IInv, [Next]_vars PROVE IInv'
  OBVIOUS
<1>1. ASSUME NEW s \in SessionIds, Starts(s) PROVE IInv'
  BY <1>1, StartCheckInv, StartFailsInv, StartReserveInv, StartDecideInv,
     StartInsertInv, StartPushInv DEF Starts
<1>2. ASSUME NEW s \in SessionIds, Updates(s) PROVE IInv'
  BY <1>2, UpdateIgnoredInv, UpdateTerminalInv, UpdateProgressInv DEF Updates
<1>3. ASSUME NEW s \in SessionIds, Cancels(s) PROVE IInv'
  BY <1>3, CancelReadInv, CancelQueuedInv, CancelActiveInv DEF Cancels
<1>4. ASSUME NEW d \in Daemons, Polls(d) PROVE IInv'
  BY <1>4, PollActiveInv, PollPickInv, PollTransitionInv, PollCancellationInv
     DEF Polls
<1>5. ASSUME Sweeps PROVE IInv'
  BY <1>5, SweepCollectInv, SweepFlagInv, SweepRemoveInv DEF Sweeps
<1>6. ASSUME NEW n \in Networks, Snapshots(n) PROVE IInv'
  BY <1>6, SnapshotAcquireInv, ReleaseBeginInv, ReleaseEndInv DEF Snapshots
<1>7. ASSUME NEW d \in Daemons, Deletes(d) PROVE IInv'
  BY <1>7, DeleteCheckInv, DeleteClearInv, DeleteRowInv DEF Deletes
<1>8. CASE UNCHANGED vars
  BY <1>8 DEF vars, IInv, TypeOK, Unborn, OwnQueue, PushedFirst, GhostIsUnknown,
     StartWaits, TombstoneIsRecorded, GuardNotLeaked, QueueCoversSessions,
     NoDuplicateInQueue, AwaitingIsCovered, StartSeesSnapshot, StallClockTicks,
     OutcomeRecorded, Reserving, NetworkFor, DaemonFor
<1> QED
  BY <1>1, <1>2, <1>3, <1>4, <1>5, <1>6, <1>7, <1>8, AgeInv, RestartInv DEF Next

(* The inductive invariant holds of every behaviour.                       *)
THEOREM Invariance == Spec => []IInv
BY InitInv, NextInv, PTL DEF Spec

(* Every map keeps its type; no session stays in the map in a terminal     *)
(* phase.                                                                  *)
THEOREM TypeCorrect == Spec => []TypeOK
<1>1. IInv => TypeOK
  BY DEF IInv
<1> QED
  BY <1>1, Invariance, PTL

(* discovery_sessions never keeps an entry for a session that is gone.     *)
THEOREM GuardReleased == Spec => []GuardNotLeaked
<1>1. IInv => GuardNotLeaked
  BY DEF IInv
<1> QED
  BY <1>1, Invariance, PTL

(* Every session is in its daemon's queue once its start_session returned. *)
THEOREM SessionsQueued == Spec => []QueueCoversSessions
<1>1. IInv => QueueCoversSessions
  BY DEF IInv
<1> QED
  BY <1>1, Invariance, PTL

(* No push, from start_session or from an update, repeats an id.           *)
THEOREM QueuesWithoutRepetition == Spec => []NoDuplicateInQueue
<1>1. IInv => NoDuplicateInQueue
  BY DEF IInv
<1> QED
  BY <1>1, Invariance, PTL

(* The wake-up of a session that waits for a snapshot is not lost.         *)
THEOREM WakeUpOwed == Spec => []AwaitingIsCovered
<1>1. IInv => AwaitingIsCovered
  BY DEF IInv
<1> QED
  BY <1>1, Invariance, PTL

(* start_session and try_acquire_network_for_snapshot see each other.      *)
THEOREM StartAndSnapshotExclude == Spec => []StartSeesSnapshot
<1>1. IInv => StartSeesSnapshot
  BY DEF IInv
<1> QED
  BY <1>1, Invariance, PTL

(* No promotion leaves the stall clock unset.                              *)
THEOREM ClockSet == Spec => []StallClockTicks
<1>1. IInv => StallClockTicks
  BY DEF IInv
<1> QED
  BY <1>1, Invariance, PTL

(* An outcome a daemon reported is recorded, unless the database refused   *)
(* its row or a cancellation had withdrawn its session.                    *)
THEOREM OutcomesKept == Spec => []OutcomeRecorded
<1>1. IInv => OutcomeRecorded
  BY DEF IInv
<1> QED
  BY <1>1, Invariance, PTL
=============================================================================
