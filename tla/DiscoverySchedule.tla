-------------------------- MODULE DiscoverySchedule --------------------------
(***************************************************************************)
(* One discovery configuration: its row in the database, the cron jobs the *)
(* server keeps for it, and the requests that write the row.               *)
(*                                                                         *)
(* Every writer of the row writes all of its columns from a copy it made   *)
(* earlier: the update handler from what the user sent, start_session from *)
(* the Discovery it was given, a cron job from the clone captured when it  *)
(* was scheduled.  One action is one database statement, one critical      *)
(* section on job_ids, or one call into the scheduler.  Statements of the  *)
(* database itself do not fail here; a crash of the server may come        *)
(* between any two of them.                                                *)
(***************************************************************************)
EXTENDS Integers

CONSTANTS
  Tasks,          \* requests to create or edit, and start_scheduler
  Users,          \* requests to start a session by hand
  JobIds,         \* the Uuids the scheduler gives to jobs
  Crons,          \* cron expressions, time zone included
  Configs,        \* everything else a user may edit: name, type, settings
  None,           \* Option::None, and RunType::AdHoc in place of a schedule
  Inputs,         \* input: the schedules that requests carry
  Via,            \* input: who creates rows, the "api" or the "server" itself
  Firing,         \* input: may cron jobs fire
  Failing,        \* input: may the scheduler fail to add or remove a job
  MaxScans,       \* bound: completed sessions
  MaxRestarts     \* bound: server restarts

Schedules == [cron : Crons, enabled : BOOLEAN]

(* The columns of a row that are told apart.  targets: whether one-shot    *)
(* fields are set (integration_targets, force_full_scan).                  *)
Rows == [schedule : Schedules \cup {None}, config : Configs,
         scan_count : Int, targets : BOOLEAN]

ASSUME ScheduleAssumption ==
  /\ None \notin Schedules \cup Rows \cup JobIds \cup Configs
  /\ JobIds \cap Users = {}
  /\ Inputs \subseteq Schedules \cup {None}
  /\ Via \subseteq {"api", "server"}
  /\ Firing \in BOOLEAN
  /\ Failing \in BOOLEAN
  /\ MaxScans \in Nat
  /\ MaxRestarts \in Nat

Starters == JobIds \cup Users

VARIABLES
  row,          \* database: the row, or None
  job_ids,      \* DiscoveryService::job_ids at this discovery, or None
  jobs,         \* scheduler: the jobs it holds
  captured,     \* scheduler: job -> the Discovery its closure holds, or None
  removing,     \* jobs whose removal is spawned and not finished
  scheduler,    \* "down", "loading" (start_scheduler runs), "started"
  pc,           \* task -> its next step
  kind,         \* task -> which operation it runs
  entity,       \* task -> the Discovery it works on, or None
  job,          \* task -> the job it is about to unmap or to map, or None
  run,          \* starter -> where its start_session is
  copy,         \* starter -> the Discovery it will write, or None
  active,       \* discovery_sessions has an entry for this discovery
  deleting,     \* a delete request is past its active-session check
  restarts,     \* restarts so far
  created,      \* history: the row has been created
  lost,         \* history: jobs a failed removal or addition left behind
  saved,        \* history: the config last saved by a user, or None
  completed,    \* history: successful sessions of this discovery
  spent         \* history: the one-shot fields were used by a successful scan

vars == <<row, job_ids, jobs, captured, removing, scheduler, pc, kind, entity,
          job, run, copy, active, deleting, restarts, created, lost, saved,
          completed, spent>>

history == <<created, lost, saved, completed, spent>>
running == <<run, copy, active>>
timetable == <<job_ids, jobs, captured, removing, scheduler>>

Steps == {"idle", "unmap", "drop", "write", "save", "schedule", "map",
          "disable", "load"}
Kinds == {"none", "create", "update", "startup"}

TypeOK ==
  /\ row \in Rows \cup {None}
  /\ job_ids \in JobIds \cup {None}
  /\ jobs \subseteq JobIds
  /\ captured \in [JobIds -> Rows \cup {None}]
  /\ removing \subseteq JobIds
  /\ scheduler \in {"down", "loading", "started"}
  /\ pc \in [Tasks -> Steps]
  /\ kind \in [Tasks -> Kinds]
  /\ entity \in [Tasks -> Rows \cup {None}]
  /\ job \in [Tasks -> JobIds \cup {None}]
  /\ run \in [Starters -> {"idle", "called", "passed", "written", "started", "reloaded"}]
  /\ copy \in [Starters -> Rows \cup {None}]
  /\ active \in BOOLEAN
  /\ deleting \in BOOLEAN
  /\ restarts \in 0..MaxRestarts
  /\ created \in BOOLEAN
  /\ lost \subseteq JobIds
  /\ saved \in Configs \cup {None}
  /\ completed \in 0..MaxScans
  /\ spent \in BOOLEAN

-----------------------------------------------------------------------------
(* RunType::is_scheduled_enabled *)
IsScheduledEnabled(r) == r.schedule # None /\ r.schedule.enabled

(* Discovery::disable *)
Disabled(r) == IF r.schedule = None THEN r
               ELSE [r EXCEPT !.schedule = [r.schedule EXCEPT !.enabled = FALSE]]

(* Discovery::apply_successful_scan; kept: broadcast targets that could    *)
(* not be migrated to the network and are written back.                    *)
Scanned(r, kept) == [r EXCEPT !.scan_count = r.scan_count + 1, !.targets = kept]

(* Fault: an INSERT ... ON CONFLICT UPDATE in place of an UPDATE.          *)
SaveUpsert(r) == row' = r

(* GenericPostgresStorage::update: every column, where the id matches.     *)
Save(r) == row' = IF row = None THEN None ELSE r

(* Fault: only the enabled flag is compared.                               *)
RescheduleOnEnabled(current, new) ==
  /\ current.schedule # None
  /\ new.schedule # None
  /\ current.schedule.enabled # new.schedule.enabled

(* needs_reschedule of update: both rows scheduled, and a difference.      *)
Reschedule(current, new) ==
  /\ current.schedule # None
  /\ new.schedule # None
  /\ current.schedule # new.schedule

(* A job id nobody holds: the scheduler mints a new Uuid.                  *)
Unused(j) ==
  /\ j \notin jobs \cup removing
  /\ j # job_ids
  /\ \A t \in Tasks : j # job[t]
  /\ run[j] = "idle"

-----------------------------------------------------------------------------
(* Steps of a task.                                                        *)

Goto(t, step) == pc' = [pc EXCEPT ![t] = step]

Done(t) ==
  /\ pc' = [pc EXCEPT ![t] = "idle"]
  /\ kind' = [kind EXCEPT ![t] = "none"]
  /\ entity' = [entity EXCEPT ![t] = None]
  /\ job' = [job EXCEPT ![t] = None]

Begin(t, k, step, r) ==
  /\ pc[t] = "idle"
  /\ pc' = [pc EXCEPT ![t] = step]
  /\ kind' = [kind EXCEPT ![t] = k]
  /\ entity' = [entity EXCEPT ![t] = r]
  /\ UNCHANGED job

NewRow(s, c, o) == [schedule |-> s, config |-> c, scan_count |-> 0, targets |-> o]

(* POST /discoveries: the generic create of CrudService.  One-shot fields  *)
(* survive only if the client chose the id itself.                         *)
CreateByApi(s, c, o) ==
  /\ "api" \in Via
  /\ ~created
  /\ row' = NewRow(s, c, o)
  /\ created' = TRUE
  /\ saved' = c
  /\ UNCHANGED <<lost, completed, spent, pc, kind, entity, job, deleting, restarts>>
  /\ UNCHANGED <<timetable, running>>

(* create_discovery, which the server calls when it registers a daemon.    *)
CreateDiscovery(t, s, c, o) ==
  /\ "server" \in Via
  /\ ~created
  /\ row' = NewRow(s, c, o)
  /\ created' = TRUE
  /\ saved' = c
  /\ IF s = None THEN pc[t] = "idle" /\ UNCHANGED <<pc, kind, entity, job>>
                 ELSE Begin(t, "create", "schedule", NewRow(s, c, o))
  /\ UNCHANGED <<lost, completed, spent, deleting, restarts>>
  /\ UNCHANGED <<timetable, running>>

(* PUT /discoveries/{id}: update reads the current row.                    *)
EditRead(t, s, c, o) ==
  /\ row # None
  /\ LET new == [NewRow(s, c, o) EXCEPT !.scan_count = row.scan_count]
     IN  Begin(t, "update", IF Reschedule(row, new) THEN "unmap" ELSE "save", new)
  /\ UNCHANGED <<row, deleting, restarts>>
  /\ UNCHANGED <<timetable, running, history>>

(* The user's values reach the database.                                   *)
UserSave(t) ==
  /\ Save(entity[t])
  /\ saved' = IF row = None THEN saved ELSE entity[t].config
  /\ spent' = (spent /\ (row = None \/ ~entity[t].targets))
  /\ UNCHANGED <<created, lost, completed>>

(* An update that needs no rescheduling. *)
EditSave(t) ==
  /\ pc[t] = "save"
  /\ UserSave(t)
  /\ Done(t)
  /\ UNCHANGED <<deleting, restarts>>
  /\ UNCHANGED <<timetable, running>>

(* Fault: the absence of a mapping is not noticed.                         *)
UnmapAlways(t) ==
  /\ pc[t] = "unmap"
  /\ job' = [job EXCEPT ![t] = job_ids]
  /\ Goto(t, "drop")
  /\ UNCHANGED <<row, kind, entity, deleting, restarts>>
  /\ UNCHANGED <<timetable, running, history>>

(* remove_scheduled_job reads the mapping and lets go of the lock. *)
Unmap(t) ==
  /\ pc[t] = "unmap"
  /\ job' = [job EXCEPT ![t] = job_ids]
  /\ Goto(t, IF job_ids = None THEN "write" ELSE "drop")
  /\ UNCHANGED <<row, kind, entity, deleting, restarts>>
  /\ UNCHANGED <<timetable, running, history>>

(* Fault: the mapping stays.                                               *)
DropKeeping(t) ==
  /\ pc[t] = "drop"
  /\ removing' = removing \cup {job[t]}
  /\ job' = [job EXCEPT ![t] = None]
  /\ Goto(t, "write")
  /\ UNCHANGED <<row, job_ids, jobs, captured, scheduler, kind, entity, deleting, restarts>>
  /\ UNCHANGED <<running, history>>

(* It removes whatever the mapping holds by now, and spawns the removal of *)
(* the job it had read.                                                    *)
Drop(t) ==
  /\ pc[t] = "drop"
  /\ job_ids' = None
  /\ removing' = removing \cup {job[t]}
  /\ job' = [job EXCEPT ![t] = None]
  /\ Goto(t, "write")
  /\ UNCHANGED <<row, jobs, captured, scheduler, kind, entity, deleting, restarts>>
  /\ UNCHANGED <<running, history>>

EditWrite(t) ==
  /\ pc[t] = "write"
  /\ UserSave(t)
  /\ Goto(t, "schedule")
  /\ UNCHANGED <<kind, entity, job, deleting, restarts>>
  /\ UNCHANGED <<timetable, running>>

(* schedule_discovery: the job is added with a clone of the Discovery.     *)
ScheduleAdd(t, j) ==
  /\ pc[t] = "schedule"
  /\ IsScheduledEnabled(entity[t])
  /\ Unused(j)
  /\ jobs' = jobs \cup {j}
  /\ captured' = [captured EXCEPT ![j] = entity[t]]
  /\ lost' = lost \ {j}
  /\ job' = [job EXCEPT ![t] = j]
  /\ Goto(t, "map")
  /\ UNCHANGED <<row, job_ids, removing, scheduler, kind, entity, deleting, restarts>>
  /\ UNCHANGED <<running, created, saved, completed, spent>>

(* What the three callers do when schedule_discovery returns an error.     *)
OnError(t) ==
  IF kind[t] = "create" \/ IsScheduledEnabled(entity[t])
  THEN Goto(t, "disable") /\ UNCHANGED <<kind, entity, job>>
  ELSE Done(t)

(* Not enabled, an invalid cron expression, or the addition failed.        *)
ScheduleFails(t) ==
  /\ pc[t] = "schedule"
  /\ Failing \/ ~IsScheduledEnabled(entity[t])
  /\ OnError(t)
  /\ UNCHANGED <<row, deleting, restarts>>
  /\ UNCHANGED <<timetable, running, history>>

(* The five seconds are over, but the scheduler has taken the job.         *)
ScheduleTimesOut(t, j) ==
  /\ Failing
  /\ pc[t] = "schedule"
  /\ IsScheduledEnabled(entity[t])
  /\ Unused(j)
  /\ jobs' = jobs \cup {j}
  /\ captured' = [captured EXCEPT ![j] = entity[t]]
  /\ lost' = lost \cup {j}
  /\ OnError(t)
  /\ UNCHANGED <<row, job_ids, removing, scheduler, deleting, restarts>>
  /\ UNCHANGED <<running, created, saved, completed, spent>>

ScheduleMap(t) ==
  /\ pc[t] = "map"
  /\ job_ids' = job[t]
  /\ Done(t)
  /\ UNCHANGED <<row, jobs, captured, removing, scheduler, deleting, restarts>>
  /\ UNCHANGED <<running, history>>

ScheduleDisable(t) ==
  /\ pc[t] = "disable"
  /\ Save(Disabled(entity[t]))
  /\ Done(t)
  /\ UNCHANGED <<deleting, restarts>>
  /\ UNCHANGED <<timetable, running, history>>

-----------------------------------------------------------------------------
(* start_scheduler, with the server already serving.                       *)

BootClear(t) ==
  /\ scheduler = "down"
  /\ scheduler' = "loading"
  /\ job_ids' = None
  /\ Begin(t, "startup", "load", None)
  /\ UNCHANGED <<row, jobs, captured, removing, deleting, restarts>>
  /\ UNCHANGED <<running, history>>

(* Fault: nothing is scheduled again.                                      *)
BootForgets(t) ==
  /\ pc[t] = "load"
  /\ Done(t)
  /\ UNCHANGED <<row, deleting, restarts>>
  /\ UNCHANGED <<timetable, running, history>>

BootLoad(t) ==
  /\ pc[t] = "load"
  /\ IF row # None /\ IsScheduledEnabled(row)
     THEN /\ entity' = [entity EXCEPT ![t] = row]
          /\ Goto(t, "schedule")
          /\ UNCHANGED <<kind, job>>
     ELSE Done(t)
  /\ UNCHANGED <<row, deleting, restarts>>
  /\ UNCHANGED <<timetable, running, history>>

(* scheduler.start(): from here on jobs fire. *)
BootStart ==
  /\ scheduler = "loading"
  /\ \A t \in Tasks : kind[t] # "startup"
  /\ scheduler' = "started"
  /\ UNCHANGED <<row, job_ids, jobs, captured, removing, pc, kind, entity, job, deleting, restarts>>
  /\ UNCHANGED <<running, history>>

(* The maps and the scheduler live in memory. *)
Restart ==
  /\ restarts < MaxRestarts
  /\ restarts' = restarts + 1
  /\ job_ids' = None
  /\ jobs' = {}
  /\ captured' = [j \in JobIds |-> None]
  /\ removing' = {}
  /\ lost' = {}
  /\ scheduler' = "down"
  /\ pc' = [t \in Tasks |-> "idle"]
  /\ kind' = [t \in Tasks |-> "none"]
  /\ entity' = [t \in Tasks |-> None]
  /\ job' = [t \in Tasks |-> None]
  /\ run' = [r \in Starters |-> "idle"]
  /\ copy' = [r \in Starters |-> None]
  /\ active' = FALSE
  /\ deleting' = FALSE
  /\ UNCHANGED <<row, created, saved, completed, spent>>

(* The spawned removal ends. *)
JobRemoved(j) ==
  /\ j \in removing
  /\ removing' = removing \ {j}
  /\ jobs' = jobs \ {j}
  /\ captured' = [captured EXCEPT ![j] = None]
  /\ lost' = lost \ {j}
  /\ UNCHANGED <<row, job_ids, scheduler, pc, kind, entity, job, deleting, restarts>>
  /\ UNCHANGED <<running, created, saved, completed, spent>>

(* The spawned removal fails or times out, and nobody tries again. *)
JobRemovalFails(j) ==
  /\ Failing
  /\ j \in removing
  /\ removing' = removing \ {j}
  /\ lost' = lost \cup (jobs \cap {j})
  /\ UNCHANGED <<row, job_ids, jobs, captured, scheduler, pc, kind, entity, job, deleting, restarts>>
  /\ UNCHANGED <<running, created, saved, completed, spent>>

-----------------------------------------------------------------------------
(* Starting a session: by a cron job from its clone, or by a user.         *)

Leave(r) ==
  /\ run' = [run EXCEPT ![r] = "idle"]
  /\ copy' = [copy EXCEPT ![r] = None]

(* The job finds the discovery enabled, the plan paid and the daemon       *)
(* reachable, and calls start_session with what it captured.               *)
RunCheck(j) ==
  /\ Firing
  /\ scheduler = "started"
  /\ j \in jobs
  /\ run[j] = "idle"
  /\ row # None
  /\ IsScheduledEnabled(row)
  /\ run' = [run EXCEPT ![j] = "called"]
  /\ copy' = [copy EXCEPT ![j] = captured[j]]
  /\ UNCHANGED <<row, active, pc, kind, entity, job, deleting, restarts>>
  /\ UNCHANGED <<timetable, history>>

(* The start-session handler reads the row, and calls start_session. *)
ManualRead(u) ==
  /\ run[u] = "idle"
  /\ row # None
  /\ run' = [run EXCEPT ![u] = "called"]
  /\ copy' = [copy EXCEPT ![u] = row]
  /\ UNCHANGED <<row, active, pc, kind, entity, job, deleting, restarts>>
  /\ UNCHANGED <<timetable, history>>

(* One active session per discovery configuration. *)
StartCheck(r) ==
  /\ run[r] = "called"
  /\ IF active THEN Leave(r)
               ELSE run' = [run EXCEPT ![r] = "passed"] /\ UNCHANGED copy
  /\ UNCHANGED <<row, active, pc, kind, entity, job, deleting, restarts>>
  /\ UNCHANGED <<timetable, history>>

(* last_run is stamped by writing the whole copy. *)
StartWrite(r) ==
  /\ run[r] = "passed"
  /\ Save(copy[r])
  /\ run' = [run EXCEPT ![r] = "written"]
  /\ UNCHANGED <<copy, active, pc, kind, entity, job, deleting, restarts>>
  /\ UNCHANGED <<timetable, history>>

StartInsert(r) ==
  /\ run[r] = "written"
  /\ active' = TRUE
  /\ IF r \in JobIds THEN run' = [run EXCEPT ![r] = "started"] /\ UNCHANGED copy
                     ELSE Leave(r)
  /\ UNCHANGED <<row, pc, kind, entity, job, deleting, restarts>>
  /\ UNCHANGED <<timetable, history>>

(* The credentials cannot be built: the row is written, nothing starts. *)
StartFails(r) ==
  /\ run[r] = "written"
  /\ Leave(r)
  /\ UNCHANGED <<row, active, pc, kind, entity, job, deleting, restarts>>
  /\ UNCHANGED <<timetable, history>>

RunReload(j) ==
  /\ run[j] = "started"
  /\ IF row = None THEN Leave(j)
     ELSE /\ run' = [run EXCEPT ![j] = "reloaded"]
          /\ copy' = [copy EXCEPT ![j] = row]
  /\ UNCHANGED <<row, active, pc, kind, entity, job, deleting, restarts>>
  /\ UNCHANGED <<timetable, history>>

RunStamp(j) ==
  /\ run[j] = "reloaded"
  /\ Save(copy[j])
  /\ Leave(j)
  /\ UNCHANGED <<active, pc, kind, entity, job, deleting, restarts>>
  /\ UNCHANGED <<timetable, history>>

(* finalize_successful_scan under its row lock, then the entry goes.       *)
FinishComplete(migrated) ==
  /\ active
  /\ completed < MaxScans
  /\ active' = FALSE
  /\ row' = IF row = None THEN None ELSE Scanned(row, row.targets /\ ~migrated)
  /\ completed' = IF row = None THEN completed ELSE completed + 1
  /\ spent' = (spent \/ (row # None /\ migrated))
  /\ UNCHANGED <<run, copy, pc, kind, entity, job, deleting, restarts, created, lost, saved>>
  /\ UNCHANGED timetable

(* A failed, cancelled or swept session leaves the row alone. *)
FinishOther ==
  /\ active
  /\ active' = FALSE
  /\ UNCHANGED <<row, run, copy, pc, kind, entity, job, deleting, restarts>>
  /\ UNCHANGED <<timetable, history>>

(* DELETE /discoveries/{id}: blocked by an active session. *)
DeleteCheck ==
  /\ row # None
  /\ ~active
  /\ ~deleting
  /\ deleting' = TRUE
  /\ UNCHANGED <<row, pc, kind, entity, job, restarts>>
  /\ UNCHANGED <<timetable, running, history>>

(* The generic delete of CrudService: the row, and not its job. *)
DeleteRow ==
  /\ deleting
  /\ deleting' = FALSE
  /\ row' = None
  /\ UNCHANGED <<pc, kind, entity, job, restarts>>
  /\ UNCHANGED <<timetable, running, history>>

-----------------------------------------------------------------------------
Init ==
  /\ row = None
  /\ job_ids = None
  /\ jobs = {}
  /\ captured = [j \in JobIds |-> None]
  /\ removing = {}
  /\ scheduler = "down"
  /\ pc = [t \in Tasks |-> "idle"]
  /\ kind = [t \in Tasks |-> "none"]
  /\ entity = [t \in Tasks |-> None]
  /\ job = [t \in Tasks |-> None]
  /\ run = [r \in Starters |-> "idle"]
  /\ copy = [r \in Starters |-> None]
  /\ active = FALSE
  /\ deleting = FALSE
  /\ restarts = 0
  /\ created = FALSE
  /\ lost = {}
  /\ saved = None
  /\ completed = 0
  /\ spent = FALSE

TaskStep(t) ==
  \/ EditSave(t) \/ Unmap(t) \/ Drop(t) \/ EditWrite(t)
  \/ (\E j \in JobIds : ScheduleAdd(t, j) \/ ScheduleTimesOut(t, j))
  \/ ScheduleFails(t) \/ ScheduleMap(t) \/ ScheduleDisable(t)
  \/ BootLoad(t)

Next ==
  \/ \E s \in Inputs, c \in Configs, o \in BOOLEAN :
       \/ CreateByApi(s, c, o)
       \/ \E t \in Tasks : CreateDiscovery(t, s, c, o) \/ EditRead(t, s, c, o)
  \/ \E t \in Tasks : TaskStep(t) \/ BootClear(t)
  \/ \E j \in JobIds : \/ JobRemoved(j) \/ JobRemovalFails(j)
                       \/ RunCheck(j) \/ RunReload(j) \/ RunStamp(j)
  \/ \E u \in Users : ManualRead(u)
  \/ \E r \in Starters : StartCheck(r) \/ StartWrite(r) \/ StartInsert(r) \/ StartFails(r)
  \/ \E m \in BOOLEAN : FinishComplete(m)
  \/ BootStart \/ Restart \/ FinishOther \/ DeleteCheck \/ DeleteRow

Spec == Init /\ [][Next]_vars

(* tokio runs every task it has been given; a started server goes on to    *)
(* start_scheduler, and no request can keep it from that (strong fairness: *)
(* requests share the slots of Tasks with it only in the model).  Nothing  *)
(* is assumed of users, sessions or removals.                              *)
Fairness ==
  /\ \A t \in Tasks : WF_vars(TaskStep(t))
  /\ SF_vars(\E t \in Tasks : BootClear(t))
  /\ WF_vars(BootStart)

FairSpec == Spec /\ Fairness

-----------------------------------------------------------------------------
(* What the code promises.                                                 *)

(* The mapping is how the next edit finds the job to remove: it names a    *)
(* job the scheduler holds and that nobody is removing, whatever the order *)
(* of concurrent edits, start-up, failed removals and restarts.            *)
MappedJobIsLive == job_ids # None => job_ids \in jobs \ removing

(* A row that was deleted stays deleted, although edits, cron jobs and     *)
(* manual starts that read it before write their whole copy afterwards.    *)
DeletedStaysDeleted == [][created /\ row = None => row' = None]_vars

AtRest == scheduler = "started" /\ \A t \in Tasks : pc[t] = "idle"

(* "Whether the cron scheduler should hold a job for this discovery"       *)
(* (RunType::is_scheduled_enabled): between operations an enabled          *)
(* discovery has a job, mapped, at the time its row says, across failed    *)
(* additions and removals, and crashes between the row and the job.        *)
EnabledHasJob ==
  AtRest /\ row # None /\ IsScheduledEnabled(row) =>
    /\ job_ids # None
    /\ captured[job_ids].schedule.cron = row.schedule.cron

(* Requests that write the row come one after another, and no session is   *)
(* started meanwhile: start_session would write an older schedule back.    *)
EditsAlone == (\E t \in Tasks : Tasks = {t}) /\ Users = {} /\ ~Firing

(* Rows are created by create_discovery, and keep a schedule: the generic  *)
(* create schedules nothing, nor does an update from or to AdHoc.          *)
AlwaysTimed == Via \subseteq {"server"} /\ None \notin Inputs

(* An enabled discovery without a job gets one, or is disabled or deleted: *)
(* a crash between the two writes is made good by start_scheduler.         *)
ScheduleRestored ==
  (row # None /\ IsScheduledEnabled(row) /\ job_ids = None)
    ~> (row = None \/ ~IsScheduledEnabled(row) \/ job_ids # None)

(* "Store the mapping so we can remove the job later": every job the       *)
(* scheduler holds can be reached, or is one it failed to add or remove.   *)
JobsTracked ==
  \A j \in jobs : \/ j = job_ids
                  \/ j \in removing \cup lost
                  \/ \E t \in Tasks : pc[t] = "map" /\ job[t] = j

(* "to avoid overwriting fields": what a user saved stays until a user     *)
(* saves something else.                                                   *)
FieldsKept == row # None => row.config = saved

(* A session is being started: its row is written, it is not inserted yet. *)
Starting == \E r \in Starters : run[r] = "written"

(* "One-shot: ... until a scan completes successfully, then dropped": no   *)
(* session is started with one-shot fields that a scan has used up.        *)
TargetsConsumed == Starting /\ row # None /\ spent => ~row.targets

(* "Number of completed scans": the count from which start_session decides *)
(* whether to scan in full is the number of scans that were completed.     *)
ScanCountExact == Starting /\ row # None => row.scan_count = completed
=============================================================================
