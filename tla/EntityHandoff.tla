---------------------------- MODULE EntityHandoff ----------------------------
(***************************************************************************)
(* How the hosts and subnets a daemon finds reach the server: the entity   *)
(* buffer of the daemon, the calls that put an entity into it and wait for *)
(* the server's confirmation, the server that stores the entities, and the *)
(* end of the session, which reports what was confirmed and empties the    *)
(* buffer.                                                                 *)
(*                                                                         *)
(* In ServerPoll the server fetches what is pending, stores it entity by   *)
(* entity and confirms; in DaemonPoll every call posts its own request.    *)
(* Messages are lost, delayed and retried.                                 *)
(*                                                                         *)
(* A call stands for one create_host, create_subnet or early host report,  *)
(* and for the children (addresses, ports, services, interfaces) that its  *)
(* request carries.                                                        *)
(***************************************************************************)
EXTENDS Naturals, FiniteSets

CONSTANTS
    Hosts,      \* host ids
    Subnets,    \* subnet ids
    Calls,      \* the calls the sessions make
    None,       \* no call
    Target,     \* the entity of each call
    Session,    \* the session that makes each call
    After,      \* the call of the same session that has to be over before, or None
    Early,      \* the early reports, which run in tasks of their own
    Modes,      \* the modes the daemon may run in
    MaxSessions,\* bound on the sessions
    MaxFaults   \* bound on lost messages and refused entities

Entities == Hosts \union Subnets

\* A subnet id is generated for the call that creates the subnet, so no two
\* calls share it; host ids are reused.  The id of a host that is reported
\* early is new, and whatever else concerns the host comes after the report.
ASSUME CallsAssumption ==
    /\ Hosts \intersect Subnets = {}
    /\ Target \in [Calls -> Entities]
    /\ Session \in [Calls -> 1 .. MaxSessions]
    /\ After \in [Calls -> Calls \union {None}]
    /\ Early \subseteq {c \in Calls : Target[c] \in Hosts}
    /\ \A c, d \in Calls : Target[c] = Target[d] /\ Target[c] \in Subnets => c = d
    /\ \A c, d \in Calls : d \in Early /\ c # d /\ Target[c] = Target[d] => After[c] = d

ASSUME BoundsAssumption == MaxSessions \in Nat \ {0} /\ MaxFaults \in Nat /\ None \notin Calls

AllModes == {"server_poll", "daemon_poll"}

ASSUME ModesAssumption == Modes \subseteq AllModes

\* A call: not made, waiting for the confirmation (ServerPoll), posting its
\* request, answered (DaemonPoll), over.
CallStates == {"idle", "waiting", "posting", "answered", "ok", "failed"}

\* An entity with the children the message carries or the row has.
Carried == Entities \X SUBSET Calls

VARIABLES
    mode,
    \* the daemon
    entry,      \* the state of each entity in the buffer
    children,   \* the children of each buffered entity
    pc,         \* where each call is
    cancel,     \* the sessions whose token is cancelled
    session,    \* the number of the session
    phase,      \* how far it is
    scanned,    \* what the terminal payload says was scanned
    \* the server
    stored,     \* the entities it has stored
    kept,       \* the children it has stored
    \* the poll loop, and the messages
    loop,       \* where the poll loop is
    batch,      \* the pending entities of the poll response
    confirm,    \* the confirmation to be sent
    late,       \* confirmations given up by the server and still on their way
    reply,      \* the answer to each posted request
    faults      \* faults so far

bufferVars == <<entry, children>>
serverVars == <<stored, kept>>
sessionVars == <<cancel, session, phase, scanned>>
pollVars == <<loop, batch, confirm, late>>
vars == <<mode, entry, children, pc, cancel, session, phase, scanned, stored, kept, loop,
          batch, confirm, late, reply, faults>>

TypeOK ==
    /\ mode \in AllModes
    /\ entry \in [Entities -> {"none", "pending", "created"}]
    /\ children \in [Entities -> SUBSET Calls]
    /\ pc \in [Calls -> CallStates]
    /\ cancel \in SUBSET (1 .. MaxSessions)
    /\ session \in 1 .. MaxSessions
    /\ phase \in {"scanning", "subnets", "hosts", "clear", "cleared", "over"}
    /\ scanned \in SUBSET Entities
    /\ stored \in SUBSET Entities
    /\ kept \in [Entities -> SUBSET Calls]
    /\ loop \in {"idle", "polled", "served", "confirming", "subnets", "hosts"}
    /\ batch \in SUBSET Carried
    /\ confirm \in SUBSET Carried
    /\ late \in SUBSET Carried
    /\ reply \in [Calls -> SUBSET Calls]
    /\ faults \in 0 .. MaxFaults

Init ==
    /\ mode \in Modes
    /\ entry = [e \in Entities |-> "none"]
    /\ children = [e \in Entities |-> {}]
    /\ pc = [c \in Calls |-> "idle"]
    /\ cancel = {} /\ session = 1 /\ phase = "scanning" /\ scanned = {}
    /\ stored = {} /\ kept = [e \in Entities |-> {}]
    /\ loop = "idle" /\ batch = {} /\ confirm = {} /\ late = {}
    /\ reply = [c \in Calls |-> {}]
    /\ faults = 0

Fault == faults < MaxFaults /\ faults' = faults + 1

-----------------------------------------------------------------------------
(***************************************************************************)
(* The entity buffer.                                                      *)
(***************************************************************************)

\* push_host merges into a pending host and otherwise puts a new one in its
\* place; push_subnet always does the latter.
PushEntity(e, c) ==
    /\ entry' = [entry EXCEPT ![e] = "pending"]
    /\ children' = [children EXCEPT ![e] = IF e \in Hosts /\ entry[e] = "pending"
                                           THEN @ \union {c} ELSE {c}]

\* mark_host_created changes a pending host only, mark_subnet_created any
\* subnet that is there.
Markable(e) == entry[e] = "pending" \/ (e \in Subnets /\ entry[e] # "none")

MarkCreated(actual) ==
    LET marked == {a \in actual : Markable(a[1])}
    IN  /\ entry' = [e \in Entities |->
                        IF \E a \in marked : a[1] = e THEN "created" ELSE entry[e]]
        /\ children' = [e \in Entities |->
                           IF \E a \in marked : a[1] = e
                           THEN (CHOOSE a \in marked : a[1] = e)[2] ELSE children[e]]

\* Mutant: the ids without the children.
GetPendingIds(kind) == {e \in kind : entry[e] = "pending"}

\* get_pending, for one of the two maps: nothing is taken out.
GetPending(kind) == {<<e, children[e]>> : e \in {x \in kind : entry[x] = "pending"}}

\* get_scanned_ids, for one of the two maps.
ScannedIds(kind) == {e \in kind : entry[e] = "created"}

\* Mutant: only the confirmed entities are removed.
ClearCreated(kind) ==
    /\ entry' = [e \in Entities |-> IF e \in kind /\ entry[e] = "created" THEN "none" ELSE entry[e]]
    /\ children' = [e \in Entities |-> IF e \in kind /\ entry[e] = "created" THEN {} ELSE children[e]]

\* clear_all, for one of the two maps.
Clear(kind) ==
    /\ entry' = [e \in Entities |-> IF e \in kind THEN "none" ELSE entry[e]]
    /\ children' = [e \in Entities |-> IF e \in kind THEN {} ELSE children[e]]

-----------------------------------------------------------------------------
(***************************************************************************)
(* The calls of the scanning tasks.                                        *)
(***************************************************************************)

\* create_host, create_subnet, early host report: into the buffer, then wait
\* or post, depending on the mode.  The host of an early report is scanned
\* under the same id only if the report returned Ok.
Create(c) ==
    /\ pc[c] = "idle"
    /\ phase = "scanning" /\ session = Session[c]
    /\ After[c] # None => pc[After[c]] \in IF After[c] \in Early THEN {"ok"} ELSE {"ok", "failed"}
    /\ PushEntity(Target[c], c)
    /\ pc' = [pc EXCEPT ![c] = IF mode = "server_poll" THEN "waiting" ELSE "posting"]
    /\ UNCHANGED <<mode, sessionVars, serverVars, pollVars, reply, faults>>

\* await_host, await_subnet: cancellation is looked at first, then the buffer,
\* then the clock.
AwaitFinds(c) ==
    /\ pc[c] = "waiting"
    /\ Session[c] \notin cancel
    /\ entry[Target[c]] = "created"
    /\ pc' = [pc EXCEPT ![c] = "ok"]
    /\ UNCHANGED <<mode, bufferVars, sessionVars, serverVars, pollVars, reply, faults>>

AwaitEnds(c) ==
    /\ pc[c] = "waiting"
    /\ Session[c] \in cancel \/ entry[Target[c]] # "created"
    /\ pc' = [pc EXCEPT ![c] = "failed"]
    /\ UNCHANGED <<mode, bufferVars, sessionVars, serverVars, pollVars, reply, faults>>

\* The server handles the request of one call.
Store(c) ==
    /\ stored' = stored \union {Target[c]}
    /\ kept' = [kept EXCEPT ![Target[c]] = @ \union {c}]

\* POST /hosts/discovery or /subnets arrives and is answered; if the answer is
\* lost the request is posted again, except for an early report.
PostArrives(c) ==
    /\ pc[c] = "posting"
    /\ Store(c)
    /\ \/ /\ pc' = [pc EXCEPT ![c] = "answered"]
          /\ reply' = [reply EXCEPT ![c] = kept'[Target[c]]]
          /\ UNCHANGED faults
       \/ /\ Fault
          /\ pc' = IF c \in Early THEN [pc EXCEPT ![c] = "failed"] ELSE pc
          /\ UNCHANGED reply
    /\ UNCHANGED <<mode, bufferVars, sessionVars, pollVars>>

\* The request is refused, or lost every time.  A refusal is final for a host;
\* a subnet is posted again.
PostFails(c) ==
    /\ pc[c] = "posting"
    /\ Fault
    /\ \/ pc' = [pc EXCEPT ![c] = "failed"]
       \/ c \notin Early /\ UNCHANGED pc
    /\ UNCHANGED <<mode, bufferVars, sessionVars, serverVars, pollVars, reply>>

\* Mutant: the entity is marked before the server has answered.
PostReturnsEarly(c) ==
    /\ pc[c] \in {"posting", "answered"}
    /\ IF c \in Early THEN UNCHANGED bufferVars ELSE MarkCreated({<<Target[c], reply[c]>>})
    /\ pc' = [pc EXCEPT ![c] = "ok"]
    /\ reply' = [reply EXCEPT ![c] = {}]
    /\ UNCHANGED <<mode, sessionVars, serverVars, pollVars, faults>>

\* The answer marks the entity as created; an early report leaves it pending.
PostReturns(c) ==
    /\ pc[c] = "answered"
    /\ IF c \in Early THEN UNCHANGED bufferVars ELSE MarkCreated({<<Target[c], reply[c]>>})
    /\ pc' = [pc EXCEPT ![c] = "ok"]
    /\ reply' = [reply EXCEPT ![c] = {}]
    /\ UNCHANGED <<mode, sessionVars, serverVars, pollVars, faults>>

-----------------------------------------------------------------------------
(***************************************************************************)
(* The session of the daemon.                                              *)
(***************************************************************************)

InProgress(c) == pc[c] \in {"waiting", "posting", "answered"}

CancelSession ==
    /\ phase = "scanning" /\ session \notin cancel
    /\ cancel' = cancel \union {session}
    /\ UNCHANGED <<mode, bufferVars, pc, session, phase, scanned, serverVars, pollVars, reply, faults>>

\* The phases are over: the calls that still run are dropped with the scan,
\* the early reports, spawned on their own, go on.  finish_session cancels
\* the token of a session that failed.
EndScan ==
    /\ phase = "scanning"
    /\ pc' = [c \in Calls |-> IF InProgress(c) /\ c \notin Early THEN "failed" ELSE pc[c]]
    /\ phase' = "subnets"
    /\ cancel' \in {cancel, cancel \union {session}}
    /\ UNCHANGED <<mode, bufferVars, session, scanned, serverVars, pollVars, reply, faults>>

\* finish_session: get_scanned_ids reads the subnets, then the hosts.
ReadScannedSubnets ==
    /\ phase = "subnets"
    /\ scanned' = ScannedIds(Subnets)
    /\ phase' = "hosts"
    /\ UNCHANGED <<mode, bufferVars, pc, cancel, session, serverVars, pollVars, reply, faults>>

ReadScannedHosts ==
    /\ phase = "hosts"
    /\ scanned' = scanned \union ScannedIds(Hosts)
    /\ phase' = "clear"
    /\ UNCHANGED <<mode, bufferVars, pc, cancel, session, serverVars, pollVars, reply, faults>>

\* Then clear_all empties the hosts, then the subnets.
ClearHosts ==
    /\ phase = "clear"
    /\ Clear(Hosts)
    /\ phase' = "cleared"
    /\ UNCHANGED <<mode, pc, cancel, session, scanned, serverVars, pollVars, reply, faults>>

ClearSubnets ==
    /\ phase = "cleared"
    /\ Clear(Subnets)
    /\ phase' = "over"
    /\ UNCHANGED <<mode, pc, cancel, session, scanned, serverVars, pollVars, reply, faults>>

\* The next session, with a token of its own; the poll loop hands it out at
\* the end of a round.
NextSession ==
    /\ phase = "over" /\ session < MaxSessions /\ loop = "idle"
    /\ session' = session + 1
    /\ phase' = "scanning" /\ scanned' = {}
    /\ UNCHANGED <<mode, bufferVars, pc, cancel, serverVars, pollVars, reply, faults>>

-----------------------------------------------------------------------------
(***************************************************************************)
(* ServerPoll: a round of the server's poll loop.                          *)
(***************************************************************************)

\* Mutant: the pending hosts are taken out of the buffer.
PollHostsDrains ==
    /\ mode = "server_poll" /\ loop = "idle"
    /\ batch' = GetPending(Hosts)
    /\ Clear(Hosts)
    /\ loop' = "polled"
    /\ UNCHANGED <<mode, pc, sessionVars, serverVars, confirm, late, reply, faults>>

\* GET /api/poll: the hosts are read first, then the subnets.
PollHosts ==
    /\ mode = "server_poll" /\ loop = "idle"
    /\ batch' = GetPending(Hosts)
    /\ loop' = "polled"
    /\ UNCHANGED <<mode, bufferVars, pc, sessionVars, serverVars, confirm, late, reply, faults>>

PollSubnets ==
    /\ loop = "polled"
    /\ batch' = batch \union GetPending(Subnets)
    /\ loop' = "served"
    /\ UNCHANGED <<mode, bufferVars, pc, sessionVars, serverVars, confirm, late, reply, faults>>

\* The response is lost, every time: the round goes on without it.
PollLost ==
    /\ loop = "served"
    /\ Fault
    /\ batch' = {} /\ loop' = "idle"
    /\ UNCHANGED <<mode, bufferVars, pc, sessionVars, serverVars, confirm, late, reply>>

\* Mutant: the whole batch is confirmed, the refused entities included.
ProcessEntitiesAll ==
    /\ loop = "served"
    /\ \E done \in SUBSET batch :
          /\ IF done = batch THEN UNCHANGED faults ELSE Fault
          /\ stored' = stored \union {b[1] : b \in done}
          /\ kept' = [e \in Entities |-> kept[e] \union UNION {b[2] : b \in {x \in done : x[1] = e}}]
          /\ confirm' = {<<b[1], kept'[b[1]]>> : b \in batch}
    /\ batch' = {}
    /\ loop' = IF confirm' = {} THEN "idle" ELSE "confirming"
    /\ UNCHANGED <<mode, bufferVars, pc, sessionVars, late, reply>>

\* process_discovery_entities: an entity that fails is skipped.
ProcessEntities ==
    /\ loop = "served"
    /\ \E done \in SUBSET batch :
          /\ IF done = batch THEN UNCHANGED faults ELSE Fault
          /\ stored' = stored \union {b[1] : b \in done}
          /\ kept' = [e \in Entities |-> kept[e] \union UNION {b[2] : b \in {x \in done : x[1] = e}}]
          /\ confirm' = {<<b[1], kept'[b[1]]>> : b \in done}
    /\ batch' = {}
    /\ loop' = IF confirm' = {} THEN "idle" ELSE "confirming"
    /\ UNCHANGED <<mode, bufferVars, pc, sessionVars, late, reply>>

OfKind(actual, kind) == {a \in actual : a[1] \in kind}

\* POST /api/discovery/entities-created: the subnets are marked first.
ConfirmSubnets ==
    /\ loop = "confirming"
    /\ MarkCreated(OfKind(confirm, Subnets))
    /\ loop' = "subnets"
    /\ UNCHANGED <<mode, pc, sessionVars, serverVars, batch, confirm, late, reply, faults>>

\* Then the hosts.  The response is lost: the confirmation is sent again.
ConfirmHosts ==
    /\ loop = "subnets"
    /\ MarkCreated(OfKind(confirm, Hosts))
    /\ \/ loop' = "idle" /\ confirm' = {} /\ UNCHANGED faults
       \/ loop' = "confirming" /\ Fault /\ UNCHANGED confirm
    /\ UNCHANGED <<mode, pc, sessionVars, serverVars, batch, late, reply>>

\* The server gives up on the confirmation: it is lost, or late.
ConfirmGivenUp ==
    /\ loop = "confirming"
    /\ Fault
    /\ late' \in {late, confirm}
    /\ confirm' = {} /\ loop' = "idle"
    /\ UNCHANGED <<mode, bufferVars, pc, sessionVars, serverVars, batch, reply>>

\* A late confirmation is handled after all, the subnets before the hosts.
ConfirmLate ==
    /\ late # {}
    /\ LET part == IF OfKind(late, Subnets) # {} THEN OfKind(late, Subnets) ELSE late
       IN  MarkCreated(part) /\ late' = late \ part
    /\ UNCHANGED <<mode, pc, sessionVars, serverVars, loop, batch, confirm, reply, faults>>

-----------------------------------------------------------------------------
Call(c) ==
    \/ Create(c)
    \/ AwaitFinds(c) \/ AwaitEnds(c)
    \/ PostArrives(c) \/ PostFails(c) \/ PostReturns(c)

Finish == ReadScannedSubnets \/ ReadScannedHosts \/ ClearHosts \/ ClearSubnets

Poll ==
    \/ PollHosts \/ PollSubnets \/ PollLost \/ ProcessEntities
    \/ ConfirmSubnets \/ ConfirmHosts \/ ConfirmGivenUp \/ ConfirmLate

Next ==
    \/ \E c \in Calls : Call(c)
    \/ CancelSession \/ EndScan \/ Finish \/ NextSession
    \/ Poll

Spec == Init /\ [][Next]_vars

\* The poll loop goes round, and a waiting call looks at the buffer every
\* 100 ms, and at its token.  Nothing is assumed about deadlines,
\* cancellation or the end of a scan: they may come or not.
FairSpec ==
    /\ Spec
    /\ WF_vars(PollHosts) /\ WF_vars(PollSubnets) /\ WF_vars(ProcessEntities)
    /\ WF_vars(ConfirmSubnets) /\ WF_vars(ConfirmHosts)
    /\ \A c \in Calls :
          WF_vars(AwaitFinds(c)) /\ WF_vars(AwaitEnds(c) /\ Session[c] \in cancel)

-----------------------------------------------------------------------------
(***************************************************************************)
(* Properties.                                                             *)
(***************************************************************************)

\* What the buffer calls Created, with its children, is stored at the server,
\* whatever was refused in the same batch, retried or delivered late.
ConfirmedIsStored ==
    \A e \in Entities : entry[e] = "created" => e \in stored /\ children[e] \subseteq kept[e]

\* A call that returned Ok has its entity stored; in DaemonPoll, where each
\* call posts its own request, its children as well.
ReturnedIsStored ==
    \A c \in Calls : pc[c] = "ok" =>
        /\ Target[c] \in stored
        /\ mode = "daemon_poll" => c \in kept[Target[c]]

\* Another call has pushed the entity of c and did not return Ok.
Disturbed(c) ==
    \E d \in Calls : Target[d] = Target[c] /\ Session[d] = Session[c] /\ pc[d] \notin {"idle", "ok"}

\* The terminal payload names only entities that this session pushed and the
\* server stored, and every one the session got confirmed: get_scanned_ids
\* runs before clear_all, and clear_all leaves nothing to the next session.
\* (An early report may be confirmed too late to be named, or never marked; a
\* host that was pushed again and not confirmed again is missing.)
ScannedIsExact ==
    LET own == {c \in Calls : Session[c] = session}
    IN  /\ scanned \subseteq {Target[c] : c \in {x \in own : pc[x] # "idle"}} \intersect stored
        /\ phase \in {"clear", "cleared", "over"} =>
              \A c \in own :
                 pc[c] = "ok" /\ c \notin Early /\ ~ Disturbed(c) => Target[c] \in scanned

\* A waiting call is answered while its session goes on, since what is not
\* confirmed stays pending and is polled again.
WaitingIsAnswered ==
    \A c \in Calls :
        pc[c] = "waiting" ~> pc[c] # "waiting" \/ phase # "scanning" \/ session # Session[c]

\* "Wait for a host to be confirmed by server" (await_host): a create_host that
\* returned Ok has the children it sent stored.  Refuted: a confirmation of
\* the host's earlier push answers the call.  No run checks this.
ReturnedChildrenStored == \A c \in Calls : pc[c] = "ok" => c \in kept[Target[c]]
=============================================================================
