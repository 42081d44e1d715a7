----------------------------- MODULE DaemonRuns -----------------------------
(***************************************************************************)
(* One daemon and its server, from handing out a session to recording its  *)
(* outcome, in both modes: ServerPoll (the server polls the daemon's HTTP  *)
(* API) and DaemonPoll (the daemon asks for work and posts its reports).   *)
(*                                                                         *)
(* The daemon is the discovery manager (the current task and its           *)
(* cancellation token), the tasks it spawned, and what they share: the     *)
(* current session and the terminal payload kept for the next poll.  The   *)
(* server's side is the life of a session in the table of                  *)
(* DiscoverySessions, reduced to what the daemon can see.  Requests and    *)
(* responses may be lost and requests are retried; the daemon may restart. *)
(***************************************************************************)
EXTENDS Naturals, FiniteSets

CONSTANTS
    Sessions,   \* the sessions of this daemon
    Slots,      \* tasks that may be alive at once
    None,       \* no session, no task
    Cancellable,\* the sessions a user cancels, each at most once
    Modes,      \* the modes the daemon may run in
    MaxFaults   \* bound on lost messages and restarts

ASSUME NoneAssumption == None \notin Sessions /\ None \notin Slots

ASSUME BoundAssumption == MaxFaults \in Nat

AllModes == {"server_poll", "daemon_poll"}

ASSUME ModesAssumption == Modes \subseteq AllModes

Outcomes == {"Complete", "Failed", "Cancelled"}

\* A session handed out and not ended, as has_active_session_for_daemon sees it.
Live == {"starting", "active"}

\* "ended": removed from the table, its update time left as a tombstone;
\* "forgotten": removed by the stall cleanup, which drops the time as well.
ServerStates == {"waiting", "ended", "forgotten"} \union Live

\* The states of a spawned task, in order; "none" when it is gone.
TaskStates == {"none", "setup", "started", "scanning", "failing", "report", "store", "exit"}

\* Inside initiate_session: before the new task has its token, and after.
Preparing == {"token", "cleared"}

LoopStates ==
    {"idle", "poll", "served", "work", "send", "asked", "answered", "spawned"} \union Preparing

NoReport == <<None, "none">>

Reports == {NoReport} \union (Sessions \X ({"Scanning"} \union Outcomes))

VARIABLES
    mode,       \* DaemonMode
    \* the server
    server,     \* the state of each session in the session table
    recorded,   \* the outcomes in the history, as <<session, outcome>>
    flag,       \* daemon_pull_cancellations: the session to cancel
    asked,      \* sessions whose cancellation was requested
    posted,     \* cancellations on their way, as <<session, stage>>
    stall,      \* the session the stall cleanup is about to remove
    \* the loop that connects them: the server's poller or the daemon's
    loop,       \* where it is
    ready,      \* ready_for_work as read at the beginning of the round
    order,      \* the session being handed to the daemon
    stop,       \* whether the answer carries a cancellation
    progress,   \* the progress carried by a poll response
    \* the daemon
    task,       \* the manager's current_task
    holder,     \* the task that has the manager's cancellation_token, None if none has it
    pc,         \* where each task is
    doing,      \* the session each task was spawned for
    outcome,    \* the terminal phase each task has decided on
    cancelled,  \* the tasks whose token is cancelled; None: the one no task has yet
    racing,     \* cancellations past their check when the manager's token was made
    session,    \* current_session
    terminal,   \* terminal_payload
    decided,    \* every outcome decided so far, as <<session, outcome>>
    faults      \* messages lost and restarts so far

serverVars == <<server, recorded>>
cancelVars == <<flag, asked, posted, stall>>
loopVars == <<loop, ready, order, stop, progress>>
taskVars == <<task, pc, doing>>
tokenVars == <<holder, cancelled, racing>>
runVars == <<outcome, session, terminal, decided>>
vars == <<mode, server, recorded, flag, asked, posted, stall, loop, ready, order, stop,
          progress, task, pc, doing, holder, cancelled, racing, outcome, session, terminal,
          decided, faults>>

TypeOK ==
    /\ mode \in AllModes
    /\ server \in [Sessions -> ServerStates]
    /\ recorded \in SUBSET (Sessions \X Outcomes)
    /\ flag \in Sessions \union {None}
    /\ asked \in SUBSET Sessions
    /\ posted \in SUBSET (Sessions \X {"flag", "sent", "checked"})
    /\ stall \in Sessions \union {None}
    /\ loop \in LoopStates
    /\ ready \in BOOLEAN
    /\ order \in Sessions \union {None}
    /\ stop \in BOOLEAN
    /\ progress \in Reports
    /\ task \in Slots \union {None}
    /\ pc \in [Slots -> TaskStates]
    /\ doing \in [Slots -> Sessions \union {None}]
    /\ outcome \in [Slots -> Outcomes \union {"none"}]
    /\ holder \in Slots \union {None}
    /\ cancelled \in SUBSET (Slots \union {None})
    /\ racing \in SUBSET Sessions
    /\ session \in Sessions \union {None}
    /\ terminal \in {NoReport} \union (Sessions \X Outcomes)
    /\ decided \in SUBSET (Sessions \X Outcomes)
    /\ faults \in 0 .. MaxFaults

Init ==
    /\ mode \in Modes
    /\ server = [s \in Sessions |-> "waiting"]
    /\ recorded = {}
    /\ flag = None /\ asked = {} /\ posted = {} /\ stall = None
    /\ loop = "idle" /\ ready = FALSE /\ order = None /\ stop = FALSE
    /\ progress = NoReport
    /\ task = None
    /\ pc = [r \in Slots |-> "none"]
    /\ doing = [r \in Slots |-> None]
    /\ outcome = [r \in Slots |-> "none"]
    /\ holder = None /\ cancelled = {} /\ racing = {}
    /\ session = None /\ terminal = NoReport
    /\ decided = {}
    /\ faults = 0

\* A message is lost, or the daemon restarts.
Fault == faults < MaxFaults /\ faults' = faults + 1

Alive(r) == pc[r] # "none"

\* is_discovery_running: there is a current task and it has not finished.
Running == task # None /\ Alive(task)

\* Nobody works on the session any more.
Quiet(s) == \A r \in Slots : Alive(r) => doing[r] # s

HasActive == \E s \in Sessions : server[s] \in Live

-----------------------------------------------------------------------------
(***************************************************************************)
(* The server.                                                             *)
(***************************************************************************)

\* A Cancelled event: the subscriber POSTs to a ServerPoll daemon that is not
\* marked unreachable.
CancelEvent(s) == posted' \in {posted, posted \union {<<s, "sent">>}}

\* update_session, as far as the daemon is concerned.  A report of a session
\* that is not in the table brings it back; only a terminal one whose
\* tombstone is there is ignored.  A terminal one is published (Cancelled goes
\* back to the daemon as an event) and takes the cancellation flag with it.
UpdateSession(s, phase) ==
    CASE phase \notin Outcomes ->
            /\ server' = [server EXCEPT ![s] = "active"]
            /\ UNCHANGED <<recorded, flag, posted>>
      [] phase \in Outcomes /\ server[s] = "ended" ->
            UNCHANGED <<server, recorded, flag, posted>>
      [] phase \in Outcomes /\ server[s] # "ended" ->
            /\ server' = [server EXCEPT ![s] = "ended"]
            /\ recorded' = recorded \union {<<s, phase>>}
            /\ flag' = None
            /\ IF mode = "server_poll" /\ phase = "Cancelled"
               THEN CancelEvent(s) ELSE UNCHANGED posted

\* Cancelling s: the event is published, then the flag is set (which only a
\* DaemonPoll daemon ever reads).
RequestCancellation(s) ==
    /\ asked' = asked \union {s}
    /\ IF mode = "server_poll" THEN CancelEvent(s)
                               ELSE posted' = posted \union {<<s, "flag">>}

\* cancel_session on a session that runs.
CancelSession(s) ==
    /\ s \in Cancellable \ asked
    /\ server[s] = "active"
    /\ RequestCancellation(s)
    /\ UNCHANGED <<mode, serverVars, flag, stall, loopVars, taskVars, runVars, tokenVars, faults>>

\* The flag is set after the event, on the phase read before it.
SetFlag(s) ==
    /\ <<s, "flag">> \in posted
    /\ posted' = posted \ {<<s, "flag">>}
    /\ flag' = s
    /\ UNCHANGED <<mode, serverVars, asked, stall, loopVars, taskVars, runVars, tokenVars, faults>>

\* Mutant: only the sessions that have started are looked at.
StallBeginActive(s) ==
    /\ stall = None
    /\ server[s] = "active"
    /\ RequestCancellation(s)
    /\ stall' = s
    /\ UNCHANGED <<mode, serverVars, flag, loopVars, taskVars, runVars, tokenVars, faults>>

\* cleanup_stalled_sessions, first and second pass: no update for five
\* minutes, because nobody works on the session any more or because the
\* daemon is cut off or slow.
StallBegin(s) ==
    /\ stall = None
    /\ server[s] \in Live
    /\ RequestCancellation(s)
    /\ stall' = s
    /\ UNCHANGED <<mode, serverVars, flag, loopVars, taskVars, runVars, tokenVars, faults>>

\* Third pass: the session is removed and recorded as Failed if it is still in
\* the table, whatever was reported meanwhile, and its own flag goes with it;
\* tombstones older than five minutes are evicted.
StallEnd ==
    /\ stall # None
    /\ \A c \in posted : c[1] # stall
    /\ \E old \in SUBSET {s \in Sessions : server[s] = "ended"} :
          LET gone == {stall} \intersect {s \in Sessions : server[s] \in Live}
          IN  /\ server' = [s \in Sessions |->
                               IF s \in gone \union old THEN "forgotten" ELSE server[s]]
              /\ recorded' = recorded \union (gone \X {"Failed"})
              /\ flag' = IF flag \in gone THEN None ELSE flag
    /\ stall' = None
    /\ UNCHANGED <<mode, asked, posted, loopVars, taskVars, runVars, tokenVars, faults>>

\* Mutant: the active session is not looked for.
PickWorkAnyway ==
    \/ \E s \in Sessions :
          /\ server[s] = "waiting"
          /\ server' = [server EXCEPT ![s] = "starting"]
          /\ order' = s
    \/ /\ \A s \in Sessions : server[s] # "waiting"
       /\ order' = None
       /\ UNCHANGED server

\* get_pending_work: the first waiting session, unless one is out.
PickWork ==
    \/ /\ ~ HasActive
       /\ \E s \in Sessions :
             /\ server[s] = "waiting"
             /\ server' = [server EXCEPT ![s] = "starting"]
             /\ order' = s
    \/ /\ HasActive \/ \A s \in Sessions : server[s] # "waiting"
       /\ order' = None
       /\ UNCHANGED server

-----------------------------------------------------------------------------
(***************************************************************************)
(* The daemon's manager.                                                   *)
(***************************************************************************)

\* start_new_session, first of all: the manager's token is replaced.
NewToken ==
    /\ holder' = None
    /\ racing' = {s \in Sessions : <<s, "checked">> \in posted}

\* The manager's token, unless the task that has it is gone.
Token == {r \in Slots \union {None} : r = holder /\ (r = None \/ Alive(r))}

\* handle_cancel_request: the session named in the request is not looked at.
\* With nothing running the answer is a conflict, which is not retried.
CancelCheck(s) ==
    /\ <<s, "sent">> \in posted
    /\ posted' = (posted \ {<<s, "sent">>}) \union
                    (IF Running THEN {<<s, "checked">>} ELSE {})
    /\ UNCHANGED <<mode, serverVars, flag, asked, stall, loopVars, taskVars, runVars,
                   tokenVars, faults>>

\* The check and the signal take their locks one after the other: the token
\* that is cancelled is the one the manager has by then.  A lost response is
\* followed by a retry.
CancelSignal(s) ==
    /\ <<s, "checked">> \in posted
    /\ cancelled' = cancelled \union Token
    /\ \/ posted' = posted \ {<<s, "checked">>} /\ UNCHANGED faults
       \/ posted' = (posted \ {<<s, "checked">>}) \union {<<s, "sent">>} /\ Fault
    /\ UNCHANGED <<mode, serverVars, flag, asked, stall, loopVars, taskVars, runVars, holder, racing>>

\* The request never arrives and the retries are used up.
CancelLost(s) ==
    /\ <<s, "sent">> \in posted
    /\ Fault
    /\ posted' = posted \ {<<s, "sent">>}
    /\ UNCHANGED <<mode, serverVars, flag, asked, stall, loopVars, taskVars, runVars, tokenVars>>

-----------------------------------------------------------------------------
(***************************************************************************)
(* ServerPoll: poll_daemon, one round at a time.                           *)
(***************************************************************************)

\* GET /api/status.
PollStatus ==
    /\ mode = "server_poll" /\ loop = "idle"
    /\ ready' = ~ Running
    /\ loop' = "poll"
    /\ UNCHANGED <<mode, serverVars, cancelVars, order, stop, progress, taskVars, runVars,
                   tokenVars, faults>>

\* Mutant: the active session is not looked at.
GetProgressActive == <<session, "Scanning">>

\* get_progress: the active session, else the terminal payload.
GetProgress == IF session # None THEN <<session, "Scanning">> ELSE terminal

\* GET /api/poll: get_discovery_poll forgets a terminal payload it has served.
PollServe ==
    /\ loop = "poll"
    /\ progress' = GetProgress
    /\ terminal' = IF session = None THEN NoReport ELSE terminal
    /\ loop' = "served"
    /\ UNCHANGED <<mode, serverVars, cancelVars, ready, order, stop, taskVars, outcome,
                   session, decided, tokenVars, faults>>

\* The request never arrives, or its response is lost, and with it what it
\* carried: another try, or the round goes on without it.
PollLost ==
    /\ loop \in {"poll", "served"}
    /\ Fault
    /\ progress' = NoReport
    /\ loop' \in IF loop = "served" THEN {"poll", "work"} ELSE {"work"}
    /\ UNCHANGED <<mode, serverVars, cancelVars, ready, order, stop, taskVars, runVars, tokenVars>>

\* process_discovery_progress.
PollReceive ==
    /\ loop = "served"
    /\ IF progress = NoReport THEN UNCHANGED <<server, recorded, flag, posted>>
                              ELSE UpdateSession(progress[1], progress[2])
    /\ loop' = "work"
    /\ UNCHANGED <<mode, asked, stall, ready, order, stop, progress, taskVars, runVars,
                   tokenVars, faults>>

\* Once the event of a Cancelled report has been handled, pending work is
\* handed out if the status read at the beginning of the round said ready.
PollWork ==
    /\ loop = "work"
    /\ \A c \in posted : c[1] # progress[1]
    /\ IF ready THEN PickWork ELSE order' = None /\ UNCHANGED server
    /\ progress' = NoReport /\ ready' = FALSE
    /\ loop' = IF order' = None THEN "idle" ELSE "send"
    /\ UNCHANGED <<mode, recorded, cancelVars, stop, taskVars, runVars, tokenVars, faults>>

\* Mutant: a request is obeyed whether or not a task runs.
InitiateServeUnchecked ==
    /\ loop = "send"
    /\ NewToken
    /\ loop' = "token"
    /\ UNCHANGED <<mode, serverVars, cancelVars, ready, order, stop, progress, taskVars, runVars,
                   cancelled, faults>>

\* POST /api/discovery/initiate: try_initiate_session refuses while a task
\* runs, which ends the round.
InitiateServe ==
    /\ loop = "send"
    /\ \/ /\ Running
          /\ loop' = "idle" /\ order' = None
          /\ UNCHANGED <<holder, racing>>
       \/ /\ ~ Running
          /\ NewToken
          /\ loop' = "token" /\ UNCHANGED order
    /\ UNCHANGED <<mode, serverVars, cancelVars, ready, stop, progress, taskVars, runVars,
                   cancelled, faults>>

\* The request never arrives; the failure is only logged.
InitiateLost ==
    /\ loop = "send"
    /\ Fault
    /\ loop' = "idle" /\ order' = None
    /\ UNCHANGED <<mode, serverVars, cancelVars, ready, stop, progress, taskVars, runVars, tokenVars>>

-----------------------------------------------------------------------------
(***************************************************************************)
(* DaemonPoll: request_work, one round at a time.                          *)
(***************************************************************************)

\* The status is built once, the POST may be sent several times.
RequestWork ==
    /\ mode = "daemon_poll" /\ loop = "idle"
    /\ ready' = ~ Running
    /\ loop' = "asked"
    /\ UNCHANGED <<mode, serverVars, cancelVars, order, stop, progress, taskVars, runVars,
                   tokenVars, faults>>

\* receive_work_request: work if the daemon is ready, and the flag.
AnswerWork ==
    /\ loop = "asked"
    /\ IF ready THEN PickWork ELSE order' = None /\ UNCHANGED server
    /\ stop' = (flag # None)
    /\ flag' = None
    /\ loop' = "answered"
    /\ UNCHANGED <<mode, recorded, asked, posted, stall, ready, progress, taskVars, runVars,
                   tokenVars, faults>>

\* The answer is lost, with the session and the flag; the POST is retried.
AnswerLost ==
    /\ loop = "answered"
    /\ Fault
    /\ loop' = "asked" /\ order' = None /\ stop' = FALSE
    /\ UNCHANGED <<mode, serverVars, cancelVars, ready, progress, taskVars, runVars, tokenVars>>

\* Mutant: the session is initiated before the cancellation is followed.
FollowOrdersLate ==
    /\ loop = "answered"
    /\ IF order = None THEN UNCHANGED <<holder, racing>> ELSE NewToken
    /\ cancelled' = IF stop THEN cancelled \union {holder'} ELSE cancelled
    /\ loop' = IF order = None THEN "idle" ELSE "token"
    /\ stop' = FALSE /\ ready' = FALSE
    /\ UNCHANGED <<mode, serverVars, cancelVars, order, progress, taskVars, runVars, faults>>

\* The daemon cancels what runs, then initiates what it was given; unlike the
\* HTTP handler it does not look whether a task runs.
FollowOrders ==
    /\ loop = "answered"
    /\ cancelled' = IF stop /\ Running THEN cancelled \union Token ELSE cancelled
    /\ IF order = None THEN UNCHANGED <<holder, racing>> ELSE NewToken
    /\ loop' = IF order = None THEN "idle" ELSE "token"
    /\ stop' = FALSE /\ ready' = FALSE
    /\ UNCHANGED <<mode, serverVars, cancelVars, order, progress, taskVars, runVars, faults>>

-----------------------------------------------------------------------------
(***************************************************************************)
(* initiate_session, in either mode, once the manager has a new token.     *)
(* Between its steps a /cancel that has passed its check may signal.       *)
(***************************************************************************)

\* start_new_session, second: the handle of the finished task is dropped.
ClearTask ==
    /\ loop = "token"
    /\ task' = None
    /\ loop' = "cleared"
    /\ UNCHANGED <<mode, serverVars, cancelVars, ready, order, stop, progress, pc, doing, runVars,
                   tokenVars, faults>>

\* The token is read back and the task is spawned with it, cancelled or not.
Spawn ==
    /\ loop = "cleared"
    /\ \E x \in Slots : ~ Alive(x)
    /\ LET r == CHOOSE x \in Slots : ~ Alive(x)
       IN  /\ pc' = [pc EXCEPT ![r] = "setup"]
           /\ doing' = [doing EXCEPT ![r] = order]
           /\ holder' = r
           /\ cancelled' = (cancelled \ {None}) \union (IF None \in cancelled THEN {r} ELSE {})
    /\ racing' = {}
    /\ loop' = "spawned"
    /\ UNCHANGED <<mode, serverVars, cancelVars, ready, order, stop, progress, task, runVars, faults>>

\* set_current_task, by when the task may be over; until then nothing seems to
\* run.  If the response of the POST is lost the request is retried.
SetCurrentTask ==
    /\ loop = "spawned"
    /\ task' = holder
    /\ \/ loop' = "idle" /\ order' = None /\ UNCHANGED faults
       \/ mode = "server_poll" /\ loop' = "send" /\ UNCHANGED order /\ Fault
    /\ UNCHANGED <<mode, serverVars, cancelVars, ready, stop, progress, pc, doing, runVars, tokenVars>>

-----------------------------------------------------------------------------
(***************************************************************************)
(* A spawned task: DiscoveryRunner::discover, or the legacy stub.          *)
(***************************************************************************)

Goto(r, l) == pc' = [pc EXCEPT ![r] = l] /\ UNCHANGED <<task, doing>>

\* The task returns and its locals are gone; the manager keeps the handle of
\* the finished task.
Return(r) ==
    /\ pc' = [pc EXCEPT ![r] = "none"]
    /\ doing' = [doing EXCEPT ![r] = None]
    /\ outcome' = [outcome EXCEPT ![r] = "none"]
    /\ cancelled' = cancelled \ {r}
    /\ UNCHANGED <<task, holder, racing>>

\* POST /api/v1/discovery/{session}/update, in either mode: it reaches the
\* server, or the error is logged.
Post(s, phase) ==
    \/ UpdateSession(s, phase)
    \/ UNCHANGED <<server, recorded, flag, posted>>

\* initialize_session.
InitializeSession(r) ==
    /\ terminal' = NoReport
    /\ session' = doing[r]

\* An error before the session is initialised (routing table, identity): the
\* task ends without a report.
RunAborts(r) ==
    /\ pc[r] = "setup"
    /\ Return(r)
    /\ UNCHANGED <<mode, serverVars, cancelVars, loopVars, session, terminal, decided, faults>>

\* The initial subnets fail: the session is initialised to report the error.
RunSetupFails(r) ==
    /\ pc[r] = "setup"
    /\ InitializeSession(r)
    /\ Goto(r, "failing")
    /\ UNCHANGED <<mode, serverVars, cancelVars, loopVars, outcome, decided,
                   tokenVars, faults>>

\* The initial subnets are there: start_session initialises the session.
RunStarts(r) ==
    /\ pc[r] = "setup"
    /\ InitializeSession(r)
    /\ Goto(r, "started")
    /\ UNCHANGED <<mode, serverVars, cancelVars, loopVars, outcome, decided,
                   tokenVars, faults>>

\* start_session reports Started, report_progress reports Scanning.
RunReports(r) ==
    /\ pc[r] \in {"started", "scanning"}
    /\ session # None
    /\ Post(session, "Scanning")
    /\ Goto(r, "scanning")
    /\ UNCHANGED <<mode, asked, stall, loopVars, runVars, tokenVars, faults>>

\* The phases are over, with a result; finish_session turns it into an
\* outcome.  Success is Complete even if a cancellation came too late to
\* matter; an error is Cancelled if the task's token is cancelled, otherwise
\* Failed, which cancels the token.
RunFinishes(r, ok) ==
    /\ pc[r] \in IF ok THEN {"scanning"} ELSE {"scanning", "failing"}
    /\ session # None
    /\ LET o == IF ok THEN "Complete" ELSE IF r \in cancelled THEN "Cancelled" ELSE "Failed"
       IN  /\ outcome' = [outcome EXCEPT ![r] = o]
           /\ decided' = decided \union {<<session, o>>}
           /\ cancelled' = IF o = "Failed" THEN cancelled \union {r} ELSE cancelled
    /\ Goto(r, "report")
    /\ UNCHANGED <<mode, serverVars, cancelVars, loopVars, session, terminal, holder, racing, faults>>

\* Mutant: the session is reported Complete whatever came of it.
RunPostsComplete(r) ==
    /\ pc[r] = "report"
    /\ session # None
    /\ Post(session, "Complete")
    /\ Goto(r, "store")
    /\ UNCHANGED <<mode, asked, stall, loopVars, runVars, tokenVars, faults>>

\* finish_session posts the outcome first.
RunPosts(r) ==
    /\ pc[r] = "report"
    /\ session # None
    /\ Post(session, outcome[r])
    /\ Goto(r, "store")
    /\ UNCHANGED <<mode, asked, stall, loopVars, runVars, tokenVars, faults>>

\* Then it keeps it for the next poll, and the session is over.
RunStores(r) ==
    /\ pc[r] = "store"
    /\ session # None
    /\ terminal' = <<session, outcome[r]>>
    /\ session' = None
    /\ Goto(r, "exit")
    /\ UNCHANGED <<mode, serverVars, cancelVars, loopVars, outcome, decided,
                   tokenVars, faults>>

\* The task returns.  clear_completed_task, called from within the task, finds
\* it unfinished and leaves the manager as it is.
RunExits(r) ==
    /\ pc[r] = "exit"
    /\ Return(r)
    /\ UNCHANGED <<mode, serverVars, cancelVars, loopVars, session, terminal, decided, faults>>

\* The daemon process restarts: nothing of this is persisted.  A request it
\* was answering is retried.
DaemonRestart ==
    /\ Fault
    /\ task' = None
    /\ pc' = [r \in Slots |-> "none"]
    /\ doing' = [r \in Slots |-> None]
    /\ outcome' = [r \in Slots |-> "none"]
    /\ holder' = None /\ cancelled' = {} /\ racing' = {}
    /\ session' = None /\ terminal' = NoReport
    /\ posted' = {IF c[2] = "checked" THEN <<c[1], "sent">> ELSE c : c \in posted}
    /\ IF mode = "daemon_poll"
       THEN loop' = "idle" /\ order' = None /\ stop' = FALSE /\ ready' = FALSE
       ELSE /\ loop' = IF loop \in Preparing \union {"spawned"} THEN "send" ELSE loop
            /\ UNCHANGED <<order, stop, ready>>
    /\ UNCHANGED <<mode, serverVars, flag, asked, stall, progress, decided>>

-----------------------------------------------------------------------------
Cancel(s) == CancelSession(s) \/ SetFlag(s) \/ CancelCheck(s) \/ CancelSignal(s) \/ CancelLost(s)

ServerPoll ==
    PollStatus \/ PollServe \/ PollLost \/ PollReceive \/ PollWork \/ InitiateServe \/ InitiateLost

DaemonPoll == RequestWork \/ AnswerWork \/ AnswerLost \/ FollowOrders

InitiateSession == ClearTask \/ Spawn \/ SetCurrentTask

Run(r) ==
    \/ RunAborts(r) \/ RunSetupFails(r) \/ RunStarts(r) \/ RunReports(r)
    \/ RunFinishes(r, TRUE) \/ RunFinishes(r, FALSE)
    \/ RunPosts(r) \/ RunStores(r) \/ RunExits(r)

Next ==
    \/ \E s \in Sessions : Cancel(s) \/ StallBegin(s)
    \/ StallEnd
    \/ ServerPoll
    \/ DaemonPoll
    \/ InitiateSession
    \/ \E r \in Slots : Run(r)
    \/ DaemonRestart

Spec == Init /\ [][Next]_vars

\* The poll loops go on, a task comes to its end (a scan has a time limit),
\* and the cleanup job finds a session nobody works on: its updates have
\* ceased, so it will be five minutes old.
FairSpec ==
    /\ Spec
    /\ WF_vars(PollStatus) /\ WF_vars(PollServe) /\ WF_vars(PollReceive) /\ WF_vars(PollWork)
    /\ WF_vars(InitiateServe)
    /\ WF_vars(RequestWork) /\ WF_vars(AnswerWork) /\ WF_vars(FollowOrders)
    /\ WF_vars(InitiateSession)
    /\ \A r \in Slots :
          /\ WF_vars(RunStarts(r)) /\ WF_vars(RunReports(r) /\ pc[r] = "started")
          /\ WF_vars(RunFinishes(r, FALSE))
          /\ WF_vars(RunPosts(r)) /\ WF_vars(RunStores(r)) /\ WF_vars(RunExits(r))
    /\ \A s \in Sessions :
          /\ WF_vars(SetFlag(s)) /\ WF_vars(CancelCheck(s)) /\ WF_vars(CancelSignal(s))
          /\ WF_vars(StallBegin(s) /\ Quiet(s))
    /\ WF_vars(StallEnd)

-----------------------------------------------------------------------------
(***************************************************************************)
(* Properties.                                                             *)
(***************************************************************************)

\* The daemon never runs two discoveries at once, although initiate_session
\* checks nothing, /initiate is retried and ready_for_work is stale when the
\* answer arrives.
OneRunAtATime == \A r1, r2 \in Slots : Alive(r1) /\ Alive(r2) => r1 = r2

\* The session of the task that runs.
Busy == IF \E r \in Slots : Alive(r) THEN doing[CHOOSE r \in Slots : Alive(r)] ELSE None

\* What the server and the daemon implement together.
Worker == INSTANCE DiscoveryWorker WITH Idle <- None, busy <- Busy, known <- recorded

\* One session at a time, and every outcome in the history was decided by the
\* daemon for that session, or is the server's own verdict on a stalled one.
ImplementsWorker == Worker!Spec

\* The terminal payload of a session the server still waits for is never
\* dropped because another session starts ("the terminal state must reach the
\* server": initialize_session clears it without looking).
PayloadKept ==
    [][ (terminal # NoReport /\ terminal' = NoReport /\ session' # session)
        => \/ session' = terminal[1]
           \/ server[terminal[1]] \notin Live ]_vars

\* A discovery is spawned with a cancelled token only if a /cancel that had
\* found the task before it running (cancel_current_session, check) signals
\* between the new token and the spawn.  No other cancellation reaches a task
\* that is only now spawned: not the one an answer carries beside a new
\* session, not a repeated /cancel, not one that comes while the session is
\* being initiated.
NewRunNotCancelled ==
    [][ \A r \in Slots : pc[r] = "none" /\ pc'[r] # "none" /\ r \in cancelled' => racing # {} ]_vars

\* A session handed out to the daemon does not stay out for ever.
HandedOutEnds == \A s \in Sessions : server[s] \in Live ~> server[s] \notin Live

\* "If user cancelled session, but it finished before we could send
\* cancellation, remove key so it doesn't cancel upcoming sessions"
\* (update_session): a session ends as Cancelled only if its own cancellation
\* was requested.  Refuted: a request that is late cancels the run it meets.
\* No run checks this.
CancelledWasAsked == \A s \in Sessions : <<s, "Cancelled">> \in decided => s \in asked
=============================================================================
