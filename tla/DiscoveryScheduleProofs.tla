----------------------- MODULE DiscoveryScheduleProofs -----------------------
(***************************************************************************)
(* Theorems about DiscoverySchedule, for any number of tasks, users, jobs, *)
(* schedules and restarts.                                                 *)
(*                                                                         *)
(* MappedJobIsLive is not inductive: between adding a job and mapping it a *)
(* task alone knows the job, and if another task could name that job in    *)
(* remove_scheduled_job the mapping would come to hold a job that is being *)
(* removed.  JobsExclusive says that nobody can; TasksReady, that a task   *)
(* which is about to write or to remove holds what it writes or removes.   *)
(***************************************************************************)
EXTENDS DiscoverySchedule, TLAPS

(* The steps at which a task holds a Discovery. *)
Working == {"save", "unmap", "drop", "write", "schedule", "map", "disable"}

TasksReady ==
  \A t \in Tasks : /\ pc[t] \in Working => entity[t] # None
                   /\ pc[t] \in {"drop", "map"} => job[t] # None

(* A job that is about to be mapped is held by the scheduler, nobody       *)
(* removes it, and no other task and no mapping names it.                  *)
JobsExclusive ==
  \A t \in Tasks : pc[t] = "map" =>
    /\ job[t] \in jobs \ removing
    /\ job[t] # job_ids
    /\ \A u \in Tasks : u # t => job[u] # job[t]

IInv == TypeOK /\ TasksReady /\ MappedJobIsLive /\ JobsExclusive

(* A new row has the columns of a row. *)
LEMMA NewRowIsRow ==
  ASSUME NEW s \in Inputs, NEW c \in Configs, NEW o \in BOOLEAN
  PROVE  /\ NewRow(s, c, o) \in Rows
         /\ \A n \in Int : [NewRow(s, c, o) EXCEPT !.scan_count = n] \in Rows
BY ScheduleAssumption DEF NewRow, Rows

(* Disabling a discovery changes no other column. *)
LEMMA DisabledIsRow ==
  ASSUME NEW r \in Rows
  PROVE  Disabled(r) \in Rows
<1>1. CASE r.schedule = None
  BY <1>1 DEF Disabled
<1>2. CASE r.schedule # None
  <2>1. r.schedule \in Schedules
    BY <1>2 DEF Rows
  <2>2. [r.schedule EXCEPT !.enabled = FALSE] \in Schedules
    BY <2>1 DEF Schedules
  <2>3. QED
    BY <1>2, <2>2 DEF Disabled, Rows
<1>3. QED
  BY <1>1, <1>2

(* Folding a successful scan into a row leaves a row. *)
LEMMA ScannedIsRow ==
  ASSUME NEW r \in Rows, NEW kept \in BOOLEAN
  PROVE  Scanned(r, kept) \in Rows
<1>1. r.scan_count + 1 \in Int
  BY DEF Rows
<1>2. \A n \in Int : [r EXCEPT !.scan_count = n] \in Rows
  BY DEF Rows
<1>3. \A q \in Rows : [q EXCEPT !.targets = kept] \in Rows
  BY DEF Rows
<1>4. Scanned(r, kept) = [[r EXCEPT !.scan_count = r.scan_count + 1] EXCEPT !.targets = kept]
  BY DEF Scanned, Rows
<1>5. QED
  BY <1>1, <1>2, <1>3, <1>4

(* CreateByApi keeps the invariant. *)
LEMMA KeepsCreateByApi ==
  ASSUME IInv, NEW s \in Inputs, NEW c \in Configs, NEW o \in BOOLEAN, CreateByApi(s, c, o)
  PROVE  IInv'
<1>1. TypeOK'
  BY NewRowIsRow, ScheduleAssumption DEF IInv, TypeOK, TasksReady, Starters, Steps, Kinds,
     timetable, running, history, CreateByApi
<1>2. TasksReady'
  BY <1>1, NewRowIsRow, ScheduleAssumption DEF IInv, TypeOK, TasksReady, Working,
     CreateByApi
<1>3. MappedJobIsLive' /\ JobsExclusive'
  BY <1>1, NewRowIsRow, ScheduleAssumption DEF IInv, TypeOK, TasksReady, MappedJobIsLive,
     JobsExclusive, timetable, running, history, CreateByApi
<1>4. QED
  BY <1>1, <1>2, <1>3 DEF IInv

(* CreateDiscovery keeps the invariant. *)
LEMMA KeepsCreateDiscovery ==
  ASSUME IInv, NEW t \in Tasks, NEW s \in Inputs, NEW c \in Configs, NEW o \in BOOLEAN, CreateDiscovery(t, s, c, o)
  PROVE  IInv'
<1>1. TypeOK'
  BY NewRowIsRow, ScheduleAssumption DEF IInv, TypeOK, TasksReady, Starters, Steps, Kinds,
     timetable, running, history, CreateDiscovery, Begin
<1>2. TasksReady'
  BY <1>1, NewRowIsRow, ScheduleAssumption DEF IInv, TypeOK, TasksReady, Working,
     CreateDiscovery, Begin
<1>3. MappedJobIsLive' /\ JobsExclusive'
  BY <1>1, NewRowIsRow, ScheduleAssumption DEF IInv, TypeOK, TasksReady, MappedJobIsLive,
     JobsExclusive, timetable, running, history, CreateDiscovery, Begin
<1>4. QED
  BY <1>1, <1>2, <1>3 DEF IInv

(* EditRead keeps the invariant. *)
LEMMA KeepsEditRead ==
  ASSUME IInv, NEW t \in Tasks, NEW s \in Inputs, NEW c \in Configs, NEW o \in BOOLEAN, EditRead(t, s, c, o)
  PROVE  IInv'
<1>0. row \in Rows /\ row.scan_count \in Int
  BY DEF IInv, TypeOK, EditRead, Rows
<1>1. TypeOK'
  BY <1>0, NewRowIsRow, ScheduleAssumption DEF IInv, TypeOK, TasksReady, Starters, Steps,
     Kinds, timetable, running, history, EditRead, Begin
<1>2. TasksReady'
  BY <1>1, <1>0, NewRowIsRow, ScheduleAssumption DEF IInv, TypeOK, TasksReady, Working,
     EditRead, Begin
<1>3. MappedJobIsLive' /\ JobsExclusive'
  BY <1>1, <1>0, NewRowIsRow, ScheduleAssumption DEF IInv, TypeOK, TasksReady,
     MappedJobIsLive, JobsExclusive, timetable, running, history, EditRead, Begin
<1>4. QED
  BY <1>1, <1>2, <1>3 DEF IInv

(* EditSave keeps the invariant. *)
LEMMA KeepsEditSave ==
  ASSUME IInv, NEW t \in Tasks, EditSave(t)
  PROVE  IInv'
<1>0. entity[t] \in Rows /\ entity[t].config \in Configs
  BY DEF IInv, TypeOK, TasksReady, Working, EditSave, Rows
<1>1. TypeOK'
  BY <1>0 DEF IInv, TypeOK, TasksReady, Starters, Steps, Kinds, timetable, running,
     history, EditSave, UserSave, Save, Done
<1>2. TasksReady'
  BY <1>1, <1>0 DEF IInv, TypeOK, TasksReady, Working, EditSave, UserSave, Save, Done
<1>3. MappedJobIsLive' /\ JobsExclusive'
  BY <1>1, <1>0 DEF IInv, TypeOK, TasksReady, MappedJobIsLive, JobsExclusive, timetable,
     running, history, EditSave, UserSave, Save, Done
<1>4. QED
  BY <1>1, <1>2, <1>3 DEF IInv

(* Unmap keeps the invariant. *)
LEMMA KeepsUnmap ==
  ASSUME IInv, NEW t \in Tasks, Unmap(t)
  PROVE  IInv'
<1>1. TypeOK'
  BY ScheduleAssumption DEF IInv, TypeOK, TasksReady, Starters, Steps, Kinds, timetable,
     running, history, Unmap, Goto
<1>2. TasksReady'
  BY <1>1, ScheduleAssumption DEF IInv, TypeOK, TasksReady, Working, Unmap, Goto
<1>3. MappedJobIsLive' /\ JobsExclusive'
  BY <1>1, ScheduleAssumption DEF IInv, TypeOK, TasksReady, MappedJobIsLive, JobsExclusive,
     timetable, running, history, Unmap, Goto
<1>4. QED
  BY <1>1, <1>2, <1>3 DEF IInv

(* Drop keeps the invariant. *)
LEMMA KeepsDrop ==
  ASSUME IInv, NEW t \in Tasks, Drop(t)
  PROVE  IInv'
<1>1. TypeOK'
  BY ScheduleAssumption DEF IInv, TypeOK, TasksReady, Starters, Steps, Kinds, timetable,
     running, history, Drop, Goto
<1>2. TasksReady'
  BY <1>1, ScheduleAssumption DEF IInv, TypeOK, TasksReady, Working, Drop, Goto
<1>3. MappedJobIsLive' /\ JobsExclusive'
  BY <1>1, ScheduleAssumption DEF IInv, TypeOK, TasksReady, MappedJobIsLive, JobsExclusive,
     timetable, running, history, Drop, Goto
<1>4. QED
  BY <1>1, <1>2, <1>3 DEF IInv

(* EditWrite keeps the invariant. *)
LEMMA KeepsEditWrite ==
  ASSUME IInv, NEW t \in Tasks, EditWrite(t)
  PROVE  IInv'
<1>0. entity[t] \in Rows /\ entity[t].config \in Configs
  BY DEF IInv, TypeOK, TasksReady, Working, EditWrite, Rows
<1>1. TypeOK'
  BY <1>0 DEF IInv, TypeOK, TasksReady, Starters, Steps, Kinds, timetable, running,
     history, EditWrite, UserSave, Save, Goto
<1>2. TasksReady'
  BY <1>1, <1>0 DEF IInv, TypeOK, TasksReady, Working, EditWrite, UserSave, Save, Goto
<1>3. MappedJobIsLive' /\ JobsExclusive'
  BY <1>1, <1>0 DEF IInv, TypeOK, TasksReady, MappedJobIsLive, JobsExclusive, timetable,
     running, history, EditWrite, UserSave, Save, Goto
<1>4. QED
  BY <1>1, <1>2, <1>3 DEF IInv

(* ScheduleAdd keeps the invariant. *)
LEMMA KeepsScheduleAdd ==
  ASSUME IInv, NEW t \in Tasks, NEW j \in JobIds, ScheduleAdd(t, j)
  PROVE  IInv'
<1>1. TypeOK'
  BY ScheduleAssumption DEF IInv, TypeOK, TasksReady, Starters, Steps, Kinds, timetable,
     running, history, ScheduleAdd, Goto, Unused
<1>2. TasksReady'
  BY <1>1, ScheduleAssumption DEF IInv, TypeOK, TasksReady, Working, ScheduleAdd, Goto,
     Unused
<1>3. MappedJobIsLive' /\ JobsExclusive'
  BY <1>1, ScheduleAssumption DEF IInv, TypeOK, TasksReady, MappedJobIsLive, JobsExclusive,
     timetable, running, history, ScheduleAdd, Goto, Unused
<1>4. QED
  BY <1>1, <1>2, <1>3 DEF IInv

(* ScheduleTimesOut keeps the invariant. *)
LEMMA KeepsScheduleTimesOut ==
  ASSUME IInv, NEW t \in Tasks, NEW j \in JobIds, ScheduleTimesOut(t, j)
  PROVE  IInv'
<1>1. TypeOK'
  BY ScheduleAssumption DEF IInv, TypeOK, TasksReady, Starters, Steps, Kinds, timetable,
     running, history, ScheduleTimesOut, OnError, Goto, Done, Unused
<1>2. TasksReady'
  BY <1>1, ScheduleAssumption DEF IInv, TypeOK, TasksReady, Working, ScheduleTimesOut,
     OnError, Goto, Done, Unused
<1>3. MappedJobIsLive' /\ JobsExclusive'
  BY <1>1, ScheduleAssumption DEF IInv, TypeOK, TasksReady, MappedJobIsLive, JobsExclusive,
     timetable, running, history, ScheduleTimesOut, OnError, Goto, Done, Unused
<1>4. QED
  BY <1>1, <1>2, <1>3 DEF IInv

(* ScheduleFails keeps the invariant. *)
LEMMA KeepsScheduleFails ==
  ASSUME IInv, NEW t \in Tasks, ScheduleFails(t)
  PROVE  IInv'
<1>1. TypeOK'
  BY ScheduleAssumption DEF IInv, TypeOK, TasksReady, Starters, Steps, Kinds, timetable,
     running, history, ScheduleFails, OnError, Goto, Done
<1>2. TasksReady'
  BY <1>1, ScheduleAssumption DEF IInv, TypeOK, TasksReady, Working, ScheduleFails,
     OnError, Goto, Done
<1>3. MappedJobIsLive' /\ JobsExclusive'
  BY <1>1, ScheduleAssumption DEF IInv, TypeOK, TasksReady, MappedJobIsLive, JobsExclusive,
     timetable, running, history, ScheduleFails, OnError, Goto, Done
<1>4. QED
  BY <1>1, <1>2, <1>3 DEF IInv

(* ScheduleMap keeps the invariant. *)
LEMMA KeepsScheduleMap ==
  ASSUME IInv, NEW t \in Tasks, ScheduleMap(t)
  PROVE  IInv'
<1>1. TypeOK'
  BY ScheduleAssumption DEF IInv, TypeOK, TasksReady, Starters, Steps, Kinds, timetable,
     running, history, ScheduleMap, Done
<1>2. TasksReady'
  BY <1>1, ScheduleAssumption DEF IInv, TypeOK, TasksReady, Working, ScheduleMap, Done
<1>3. MappedJobIsLive' /\ JobsExclusive'
  BY <1>1, ScheduleAssumption DEF IInv, TypeOK, TasksReady, MappedJobIsLive, JobsExclusive,
     timetable, running, history, ScheduleMap, Done
<1>4. QED
  BY <1>1, <1>2, <1>3 DEF IInv

(* ScheduleDisable keeps the invariant. *)
LEMMA KeepsScheduleDisable ==
  ASSUME IInv, NEW t \in Tasks, ScheduleDisable(t)
  PROVE  IInv'
<1>0. Disabled(entity[t]) \in Rows
  BY DisabledIsRow DEF IInv, TypeOK, TasksReady, Working, ScheduleDisable
<1>1. TypeOK'
  BY <1>0 DEF IInv, TypeOK, TasksReady, Starters, Steps, Kinds, timetable, running,
     history, ScheduleDisable, Save, Done
<1>2. TasksReady'
  BY <1>1, <1>0 DEF IInv, TypeOK, TasksReady, Working, ScheduleDisable, Save, Done
<1>3. MappedJobIsLive' /\ JobsExclusive'
  BY <1>1, <1>0 DEF IInv, TypeOK, TasksReady, MappedJobIsLive, JobsExclusive, timetable,
     running, history, ScheduleDisable, Save, Done
<1>4. QED
  BY <1>1, <1>2, <1>3 DEF IInv

(* BootClear keeps the invariant. *)
LEMMA KeepsBootClear ==
  ASSUME IInv, NEW t \in Tasks, BootClear(t)
  PROVE  IInv'
<1>1. TypeOK'
  BY ScheduleAssumption DEF IInv, TypeOK, TasksReady, Starters, Steps, Kinds, timetable,
     running, history, BootClear, Begin
<1>2. TasksReady'
  BY <1>1, ScheduleAssumption DEF IInv, TypeOK, TasksReady, Working, BootClear, Begin
<1>3. MappedJobIsLive' /\ JobsExclusive'
  BY <1>1, ScheduleAssumption DEF IInv, TypeOK, TasksReady, MappedJobIsLive, JobsExclusive,
     timetable, running, history, BootClear, Begin
<1>4. QED
  BY <1>1, <1>2, <1>3 DEF IInv

(* BootLoad keeps the invariant. *)
LEMMA KeepsBootLoad ==
  ASSUME IInv, NEW t \in Tasks, BootLoad(t)
  PROVE  IInv'
<1>1. TypeOK'
  BY ScheduleAssumption DEF IInv, TypeOK, TasksReady, Starters, Steps, Kinds, timetable,
     running, history, BootLoad, Done, Goto
<1>2. TasksReady'
  BY <1>1, ScheduleAssumption DEF IInv, TypeOK, TasksReady, Working, BootLoad, Done, Goto
<1>3. MappedJobIsLive' /\ JobsExclusive'
  BY <1>1, ScheduleAssumption DEF IInv, TypeOK, TasksReady, MappedJobIsLive, JobsExclusive,
     timetable, running, history, BootLoad, Done, Goto
<1>4. QED
  BY <1>1, <1>2, <1>3 DEF IInv

(* BootStart keeps the invariant. *)
LEMMA KeepsBootStart ==
  ASSUME IInv, BootStart
  PROVE  IInv'
<1>1. TypeOK'
  BY ScheduleAssumption DEF IInv, TypeOK, TasksReady, Starters, Steps, Kinds, timetable,
     running, history, BootStart
<1>2. TasksReady'
  BY <1>1, ScheduleAssumption DEF IInv, TypeOK, TasksReady, Working, BootStart
<1>3. MappedJobIsLive' /\ JobsExclusive'
  BY <1>1, ScheduleAssumption DEF IInv, TypeOK, TasksReady, MappedJobIsLive, JobsExclusive,
     timetable, running, history, BootStart
<1>4. QED
  BY <1>1, <1>2, <1>3 DEF IInv

(* Restart keeps the invariant. *)
LEMMA KeepsRestart ==
  ASSUME IInv, Restart
  PROVE  IInv'
<1>1. TypeOK'
  <2>1. /\ captured' \in [JobIds -> Rows \cup {None}]
        /\ pc' \in [Tasks -> Steps]
        /\ kind' \in [Tasks -> Kinds]
    BY DEF Restart, Steps, Kinds
  <2>2. /\ entity' \in [Tasks -> Rows \cup {None}]
        /\ job' \in [Tasks -> JobIds \cup {None}]
    BY DEF Restart
  <2>3. /\ run' \in [Starters -> {"idle", "called", "passed", "written", "started", "reloaded"}]
        /\ copy' \in [Starters -> Rows \cup {None}]
    BY DEF Restart
  <2>4. restarts' \in 0..MaxRestarts /\ completed' \in 0..MaxScans
    BY ScheduleAssumption DEF Restart, IInv, TypeOK
  <2>5. QED
    BY <2>1, <2>2, <2>3, <2>4 DEF Restart, IInv, TypeOK
<1>2. TasksReady'
  BY <1>1, ScheduleAssumption DEF IInv, TypeOK, TasksReady, Working, Restart
<1>3. MappedJobIsLive' /\ JobsExclusive'
  BY <1>1, ScheduleAssumption DEF IInv, TypeOK, TasksReady, MappedJobIsLive, JobsExclusive,
     timetable, running, history, Restart
<1>4. QED
  BY <1>1, <1>2, <1>3 DEF IInv

(* JobRemoved keeps the invariant. *)
LEMMA KeepsJobRemoved ==
  ASSUME IInv, NEW j \in JobIds, JobRemoved(j)
  PROVE  IInv'
<1>1. TypeOK'
  BY ScheduleAssumption DEF IInv, TypeOK, TasksReady, Starters, Steps, Kinds, timetable,
     running, history, JobRemoved
<1>2. TasksReady'
  BY <1>1, ScheduleAssumption DEF IInv, TypeOK, TasksReady, Working, JobRemoved
<1>3. MappedJobIsLive' /\ JobsExclusive'
  BY <1>1, ScheduleAssumption DEF IInv, TypeOK, TasksReady, MappedJobIsLive, JobsExclusive,
     timetable, running, history, JobRemoved
<1>4. QED
  BY <1>1, <1>2, <1>3 DEF IInv

(* JobRemovalFails keeps the invariant. *)
LEMMA KeepsJobRemovalFails ==
  ASSUME IInv, NEW j \in JobIds, JobRemovalFails(j)
  PROVE  IInv'
<1>1. TypeOK'
  BY ScheduleAssumption DEF IInv, TypeOK, TasksReady, Starters, Steps, Kinds, timetable,
     running, history, JobRemovalFails
<1>2. TasksReady'
  BY <1>1, ScheduleAssumption DEF IInv, TypeOK, TasksReady, Working, JobRemovalFails
<1>3. MappedJobIsLive' /\ JobsExclusive'
  BY <1>1, ScheduleAssumption DEF IInv, TypeOK, TasksReady, MappedJobIsLive, JobsExclusive,
     timetable, running, history, JobRemovalFails
<1>4. QED
  BY <1>1, <1>2, <1>3 DEF IInv

(* RunCheck keeps the invariant. *)
LEMMA KeepsRunCheck ==
  ASSUME IInv, NEW j \in JobIds, RunCheck(j)
  PROVE  IInv'
<1>1. TypeOK'
  BY ScheduleAssumption DEF IInv, TypeOK, TasksReady, Starters, Steps, Kinds, timetable,
     running, history, RunCheck
<1>2. TasksReady'
  BY <1>1, ScheduleAssumption DEF IInv, TypeOK, TasksReady, Working, RunCheck
<1>3. MappedJobIsLive' /\ JobsExclusive'
  BY <1>1, ScheduleAssumption DEF IInv, TypeOK, TasksReady, MappedJobIsLive, JobsExclusive,
     timetable, running, history, RunCheck
<1>4. QED
  BY <1>1, <1>2, <1>3 DEF IInv

(* ManualRead keeps the invariant. *)
LEMMA KeepsManualRead ==
  ASSUME IInv, NEW u \in Users, ManualRead(u)
  PROVE  IInv'
<1>1. TypeOK'
  BY ScheduleAssumption DEF IInv, TypeOK, TasksReady, Starters, Steps, Kinds, timetable,
     running, history, ManualRead
<1>2. TasksReady'
  BY <1>1, ScheduleAssumption DEF IInv, TypeOK, TasksReady, Working, ManualRead
<1>3. MappedJobIsLive' /\ JobsExclusive'
  BY <1>1, ScheduleAssumption DEF IInv, TypeOK, TasksReady, MappedJobIsLive, JobsExclusive,
     timetable, running, history, ManualRead
<1>4. QED
  BY <1>1, <1>2, <1>3 DEF IInv

(* StartCheck keeps the invariant. *)
LEMMA KeepsStartCheck ==
  ASSUME IInv, NEW r \in Starters, StartCheck(r)
  PROVE  IInv'
<1>1. TypeOK'
  BY ScheduleAssumption DEF IInv, TypeOK, TasksReady, Starters, Steps, Kinds, timetable,
     running, history, StartCheck, Leave
<1>2. TasksReady'
  BY <1>1, ScheduleAssumption DEF IInv, TypeOK, TasksReady, Working, StartCheck, Leave
<1>3. MappedJobIsLive' /\ JobsExclusive'
  BY <1>1, ScheduleAssumption DEF IInv, TypeOK, TasksReady, MappedJobIsLive, JobsExclusive,
     timetable, running, history, StartCheck, Leave
<1>4. QED
  BY <1>1, <1>2, <1>3 DEF IInv

(* StartWrite keeps the invariant. *)
LEMMA KeepsStartWrite ==
  ASSUME IInv, NEW r \in Starters, StartWrite(r)
  PROVE  IInv'
<1>1. TypeOK'
  BY ScheduleAssumption DEF IInv, TypeOK, TasksReady, Starters, Steps, Kinds, timetable,
     running, history, StartWrite, Save
<1>2. TasksReady'
  BY <1>1, ScheduleAssumption DEF IInv, TypeOK, TasksReady, Working, StartWrite, Save
<1>3. MappedJobIsLive' /\ JobsExclusive'
  BY <1>1, ScheduleAssumption DEF IInv, TypeOK, TasksReady, MappedJobIsLive, JobsExclusive,
     timetable, running, history, StartWrite, Save
<1>4. QED
  BY <1>1, <1>2, <1>3 DEF IInv

(* StartInsert keeps the invariant. *)
LEMMA KeepsStartInsert ==
  ASSUME IInv, NEW r \in Starters, StartInsert(r)
  PROVE  IInv'
<1>1. TypeOK'
  BY ScheduleAssumption DEF IInv, TypeOK, TasksReady, Starters, Steps, Kinds, timetable,
     running, history, StartInsert, Leave
<1>2. TasksReady'
  BY <1>1, ScheduleAssumption DEF IInv, TypeOK, TasksReady, Working, StartInsert, Leave
<1>3. MappedJobIsLive' /\ JobsExclusive'
  BY <1>1, ScheduleAssumption DEF IInv, TypeOK, TasksReady, MappedJobIsLive, JobsExclusive,
     timetable, running, history, StartInsert, Leave
<1>4. QED
  BY <1>1, <1>2, <1>3 DEF IInv

(* StartFails keeps the invariant. *)
LEMMA KeepsStartFails ==
  ASSUME IInv, NEW r \in Starters, StartFails(r)
  PROVE  IInv'
<1>1. TypeOK'
  BY ScheduleAssumption DEF IInv, TypeOK, TasksReady, Starters, Steps, Kinds, timetable,
     running, history, StartFails, Leave
<1>2. TasksReady'
  BY <1>1, ScheduleAssumption DEF IInv, TypeOK, TasksReady, Working, StartFails, Leave
<1>3. MappedJobIsLive' /\ JobsExclusive'
  BY <1>1, ScheduleAssumption DEF IInv, TypeOK, TasksReady, MappedJobIsLive, JobsExclusive,
     timetable, running, history, StartFails, Leave
<1>4. QED
  BY <1>1, <1>2, <1>3 DEF IInv

(* RunReload keeps the invariant. *)
LEMMA KeepsRunReload ==
  ASSUME IInv, NEW j \in JobIds, RunReload(j)
  PROVE  IInv'
<1>1. TypeOK'
  BY ScheduleAssumption DEF IInv, TypeOK, TasksReady, Starters, Steps, Kinds, timetable,
     running, history, RunReload, Leave
<1>2. TasksReady'
  BY <1>1, ScheduleAssumption DEF IInv, TypeOK, TasksReady, Working, RunReload, Leave
<1>3. MappedJobIsLive' /\ JobsExclusive'
  BY <1>1, ScheduleAssumption DEF IInv, TypeOK, TasksReady, MappedJobIsLive, JobsExclusive,
     timetable, running, history, RunReload, Leave
<1>4. QED
  BY <1>1, <1>2, <1>3 DEF IInv

(* RunStamp keeps the invariant. *)
LEMMA KeepsRunStamp ==
  ASSUME IInv, NEW j \in JobIds, RunStamp(j)
  PROVE  IInv'
<1>1. TypeOK'
  BY ScheduleAssumption DEF IInv, TypeOK, TasksReady, Starters, Steps, Kinds, timetable,
     running, history, RunStamp, Save, Leave
<1>2. TasksReady'
  BY <1>1, ScheduleAssumption DEF IInv, TypeOK, TasksReady, Working, RunStamp, Save, Leave
<1>3. MappedJobIsLive' /\ JobsExclusive'
  BY <1>1, ScheduleAssumption DEF IInv, TypeOK, TasksReady, MappedJobIsLive, JobsExclusive,
     timetable, running, history, RunStamp, Save, Leave
<1>4. QED
  BY <1>1, <1>2, <1>3 DEF IInv

(* FinishComplete keeps the invariant. *)
LEMMA KeepsFinishComplete ==
  ASSUME IInv, NEW m \in BOOLEAN, FinishComplete(m)
  PROVE  IInv'
<1>0. row # None => Scanned(row, row.targets /\ ~m) \in Rows
  <2>1. row # None => row \in Rows /\ (row.targets /\ ~m) \in BOOLEAN
    BY DEF IInv, TypeOK, Rows
  <2>2. QED
    BY <2>1, ScannedIsRow
<1>1. TypeOK'
  <2>1. row' \in Rows \cup {None} /\ completed' \in 0..MaxScans
    BY <1>0, ScheduleAssumption DEF IInv, TypeOK, FinishComplete
  <2>2. active' \in BOOLEAN /\ spent' \in BOOLEAN
    BY DEF FinishComplete
  <2>3. QED
    BY <2>1, <2>2 DEF IInv, TypeOK, timetable, FinishComplete
<1>2. TasksReady'
  BY <1>1, <1>0, ScheduleAssumption DEF IInv, TypeOK, TasksReady, Working, FinishComplete
<1>3. MappedJobIsLive' /\ JobsExclusive'
  BY <1>1, <1>0, ScheduleAssumption DEF IInv, TypeOK, TasksReady, MappedJobIsLive,
     JobsExclusive, timetable, running, history, FinishComplete
<1>4. QED
  BY <1>1, <1>2, <1>3 DEF IInv

(* FinishOther keeps the invariant. *)
LEMMA KeepsFinishOther ==
  ASSUME IInv, FinishOther
  PROVE  IInv'
<1>1. TypeOK'
  BY ScheduleAssumption DEF IInv, TypeOK, TasksReady, Starters, Steps, Kinds, timetable,
     running, history, FinishOther
<1>2. TasksReady'
  BY <1>1, ScheduleAssumption DEF IInv, TypeOK, TasksReady, Working, FinishOther
<1>3. MappedJobIsLive' /\ JobsExclusive'
  BY <1>1, ScheduleAssumption DEF IInv, TypeOK, TasksReady, MappedJobIsLive, JobsExclusive,
     timetable, running, history, FinishOther
<1>4. QED
  BY <1>1, <1>2, <1>3 DEF IInv

(* DeleteCheck keeps the invariant. *)
LEMMA KeepsDeleteCheck ==
  ASSUME IInv, DeleteCheck
  PROVE  IInv'
<1>1. TypeOK'
  BY ScheduleAssumption DEF IInv, TypeOK, TasksReady, Starters, Steps, Kinds, timetable,
     running, history, DeleteCheck
<1>2. TasksReady'
  BY <1>1, ScheduleAssumption DEF IInv, TypeOK, TasksReady, Working, DeleteCheck
<1>3. MappedJobIsLive' /\ JobsExclusive'
  BY <1>1, ScheduleAssumption DEF IInv, TypeOK, TasksReady, MappedJobIsLive, JobsExclusive,
     timetable, running, history, DeleteCheck
<1>4. QED
  BY <1>1, <1>2, <1>3 DEF IInv

(* DeleteRow keeps the invariant. *)
LEMMA KeepsDeleteRow ==
  ASSUME IInv, DeleteRow
  PROVE  IInv'
<1>1. TypeOK'
  BY ScheduleAssumption DEF IInv, TypeOK, TasksReady, Starters, Steps, Kinds, timetable,
     running, history, DeleteRow
<1>2. TasksReady'
  BY <1>1, ScheduleAssumption DEF IInv, TypeOK, TasksReady, Working, DeleteRow
<1>3. MappedJobIsLive' /\ JobsExclusive'
  BY <1>1, ScheduleAssumption DEF IInv, TypeOK, TasksReady, MappedJobIsLive, JobsExclusive,
     timetable, running, history, DeleteRow
<1>4. QED
  BY <1>1, <1>2, <1>3 DEF IInv

(* The invariant holds initially. *)
LEMMA InitIInv == Init => IInv
<1>0. SUFFICES ASSUME Init PROVE IInv
  OBVIOUS
<1>1. TypeOK
  <2>1. /\ captured \in [JobIds -> Rows \cup {None}]
        /\ pc \in [Tasks -> Steps]
        /\ kind \in [Tasks -> Kinds]
    BY <1>0 DEF Init, Steps, Kinds
  <2>2. /\ entity \in [Tasks -> Rows \cup {None}]
        /\ job \in [Tasks -> JobIds \cup {None}]
    BY <1>0 DEF Init
  <2>3. /\ run \in [Starters -> {"idle", "called", "passed", "written", "started", "reloaded"}]
        /\ copy \in [Starters -> Rows \cup {None}]
    BY <1>0 DEF Init
  <2>4. restarts \in 0..MaxRestarts /\ completed \in 0..MaxScans
    BY <1>0, ScheduleAssumption DEF Init
  <2>5. QED
    BY <1>0, <2>1, <2>2, <2>3, <2>4 DEF Init, TypeOK
<1>2. TasksReady /\ MappedJobIsLive /\ JobsExclusive
  BY <1>0 DEF Init, TasksReady, Working, MappedJobIsLive, JobsExclusive
<1>3. QED
  BY <1>1, <1>2 DEF IInv

(* Every step keeps it. *)
LEMMA NextIInv == IInv /\ [Next]_vars => IInv'
<1>1. SUFFICES ASSUME IInv, [Next]_vars PROVE IInv'
  OBVIOUS
<1>2. CASE UNCHANGED vars
  BY <1>1, <1>2 DEF vars, IInv, TypeOK, TasksReady, MappedJobIsLive, JobsExclusive
<1>3. CASE \E s \in Inputs, c \in Configs, o \in BOOLEAN : CreateByApi(s, c, o)
  BY <1>1, <1>3, KeepsCreateByApi
<1>4. CASE \E t \in Tasks, s \in Inputs, c \in Configs, o \in BOOLEAN : CreateDiscovery(t, s, c, o)
  BY <1>1, <1>4, KeepsCreateDiscovery
<1>5. CASE \E t \in Tasks, s \in Inputs, c \in Configs, o \in BOOLEAN : EditRead(t, s, c, o)
  BY <1>1, <1>5, KeepsEditRead
<1>6. CASE \E t \in Tasks : TaskStep(t) \/ BootClear(t)
  BY <1>1, <1>6, KeepsEditSave, KeepsUnmap, KeepsDrop, KeepsEditWrite, KeepsScheduleFails,
     KeepsScheduleMap, KeepsScheduleDisable, KeepsBootLoad, KeepsBootClear, KeepsScheduleAdd, KeepsScheduleTimesOut DEF TaskStep
<1>7. CASE \E j \in JobIds : JobRemoved(j)
  BY <1>1, <1>7, KeepsJobRemoved
<1>8. CASE \E j \in JobIds : JobRemovalFails(j)
  BY <1>1, <1>8, KeepsJobRemovalFails
<1>9. CASE \E j \in JobIds : RunCheck(j)
  BY <1>1, <1>9, KeepsRunCheck
<1>10. CASE \E j \in JobIds : RunReload(j)
  BY <1>1, <1>10, KeepsRunReload
<1>11. CASE \E j \in JobIds : RunStamp(j)
  BY <1>1, <1>11, KeepsRunStamp
<1>12. CASE \E u \in Users : ManualRead(u)
  BY <1>1, <1>12, KeepsManualRead
<1>13. CASE \E r \in Starters : StartCheck(r)
  BY <1>1, <1>13, KeepsStartCheck
<1>14. CASE \E r \in Starters : StartWrite(r)
  BY <1>1, <1>14, KeepsStartWrite
<1>15. CASE \E r \in Starters : StartInsert(r)
  BY <1>1, <1>15, KeepsStartInsert
<1>16. CASE \E r \in Starters : StartFails(r)
  BY <1>1, <1>16, KeepsStartFails
<1>17. CASE \E m \in BOOLEAN : FinishComplete(m)
  BY <1>1, <1>17, KeepsFinishComplete
<1>18. CASE BootStart
  BY <1>1, <1>18, KeepsBootStart
<1>19. CASE Restart
  BY <1>1, <1>19, KeepsRestart
<1>20. CASE FinishOther
  BY <1>1, <1>20, KeepsFinishOther
<1>21. CASE DeleteCheck
  BY <1>1, <1>21, KeepsDeleteCheck
<1>22. CASE DeleteRow
  BY <1>1, <1>22, KeepsDeleteRow
<1>23. QED
  BY <1>1, <1>2, <1>3, <1>4, <1>5, <1>6, <1>7, <1>8, <1>9, <1>10, <1>11, <1>12, <1>13,
     <1>14, <1>15, <1>16, <1>17, <1>18, <1>19, <1>20, <1>21, <1>22 DEF Next

(* IInv is an invariant of the specification. *)
THEOREM ScheduleInvariance == Spec => []IInv
BY InitIInv, NextIInv, PTL DEF Spec

(* Every variable keeps its type; in particular remove_scheduled_job is    *)
(* never asked to remove a job that was not mapped.                        *)
THEOREM ScheduleTypeCorrect == Spec => []TypeOK
<1>1. IInv => TypeOK
  BY DEF IInv
<1>2. QED
  BY <1>1, ScheduleInvariance, PTL

(* Whatever the order of edits, start-up, failures and restarts, the       *)
(* mapping of job_ids names a job that the scheduler holds.                *)
THEOREM MappingIsLive == Spec => []MappedJobIsLive
<1>1. IInv => MappedJobIsLive
  BY DEF IInv
<1>2. QED
  BY <1>1, ScheduleInvariance, PTL

(* No write of a copy made earlier brings a deleted row back.              *)
THEOREM DeletedForGood == Spec => DeletedStaysDeleted
<1>1. [Next]_vars => [created /\ row = None => row' = None]_vars
  <2>1. SUFFICES ASSUME Next, created, row = None PROVE row' = None
    BY DEF vars
  <2>2. ASSUME NEW t \in Tasks, TaskStep(t) \/ BootClear(t)
        PROVE  row' = None
    BY <2>1, <2>2 DEF TaskStep, EditSave, UserSave, Save, Unmap, Drop, EditWrite,
       ScheduleAdd,
       ScheduleTimesOut, ScheduleFails, ScheduleMap, ScheduleDisable, BootLoad, BootClear
  <2>3. ASSUME NEW j \in JobIds,
               \/ JobRemoved(j) \/ JobRemovalFails(j)
               \/ RunCheck(j) \/ RunReload(j) \/ RunStamp(j)
        PROVE  row' = None
    BY <2>1, <2>3 DEF JobRemoved, JobRemovalFails, RunCheck, RunReload, RunStamp, Save
  <2>4. ASSUME NEW r \in Starters, StartCheck(r) \/ StartWrite(r) \/ StartInsert(r) \/ StartFails(r)
        PROVE  row' = None
    BY <2>1, <2>4 DEF StartCheck, StartWrite, StartInsert, StartFails, Save
  <2>5. QED
    BY <2>1, <2>2, <2>3, <2>4 DEF Next, CreateByApi, CreateDiscovery, EditRead, ManualRead,
       FinishComplete, BootStart, Restart, FinishOther, DeleteCheck, DeleteRow
<1>2. QED
  BY <1>1, PTL DEF Spec, DeletedStaysDeleted

-----------------------------------------------------------------------------
(* EnabledHasJob.  An edit takes the job away first, writes the row and    *)
(* adds the new job last, and each of the three may be the last thing that *)
(* happens.  Step by step: a task that has not yet touched the mapping     *)
(* leaves the job as the row wants it; one that has written the row holds  *)
(* the schedule it wrote; one that has added a job put that schedule in.   *)

(* RunType of a row and of a Discovery in hand is always Scheduled. *)
Timed == /\ row # None => row.schedule # None
         /\ \A t \in Tasks : entity[t] # None => entity[t].schedule # None

(* No session is being started. *)
Silent == active = FALSE /\ \A r \in Starters : run[r] = "idle"

(* The mapped job runs at the time the row says. *)
OnTime == row # None /\ IsScheduledEnabled(row) =>
            /\ job_ids # None
            /\ captured[job_ids].schedule.cron = row.schedule.cron

Scheduling ==
  \A t \in Tasks :
    /\ pc[t] \in {"idle", "save"} /\ scheduler # "down" => OnTime
    /\ pc[t] \in {"save", "schedule", "map", "disable"} /\ row # None =>
         row.schedule = entity[t].schedule
    /\ pc[t] = "map" => captured[job[t]] = entity[t]

SInv == IInv /\ Timed /\ Silent /\ Scheduling

(* A new row keeps the schedule it was given, whatever its count. *)
LEMMA NewRowSchedule ==
  ASSUME NEW s, NEW c, NEW o
  PROVE  /\ NewRow(s, c, o).schedule = s
         /\ \A n \in Int : [NewRow(s, c, o) EXCEPT !.scan_count = n].schedule = s
BY DEF NewRow

(* A disabled discovery is scheduled as before, and not enabled. *)
LEMMA DisabledSchedule ==
  ASSUME NEW r \in Rows, r.schedule # None
  PROVE  Disabled(r).schedule # None /\ ~IsScheduledEnabled(Disabled(r))
<1>1. r.schedule \in Schedules
  BY DEF Rows
<1>2. [r.schedule EXCEPT !.enabled = FALSE] \in Schedules
  BY <1>1 DEF Schedules
<1>3. [r.schedule EXCEPT !.enabled = FALSE].enabled = FALSE
  BY <1>1 DEF Schedules
<1>4. Disabled(r).schedule = [r.schedule EXCEPT !.enabled = FALSE]
  BY DEF Disabled, Rows
<1>5. QED
  BY <1>2, <1>3, <1>4, ScheduleAssumption DEF IsScheduledEnabled

(* create_discovery writes the row and goes on to schedule it. *)
LEMMA TimesCreateDiscovery ==
  ASSUME SInv, IInv', EditsAlone, AlwaysTimed, NEW t \in Tasks,
         NEW s \in Inputs, NEW c \in Configs, NEW o \in BOOLEAN, CreateDiscovery(t, s, c, o)
  PROVE  Timed' /\ Silent' /\ Scheduling'
<1>1. s # None /\ NewRow(s, c, o).schedule = s
  BY NewRowSchedule DEF AlwaysTimed
<1>2. /\ row' = NewRow(s, c, o)
      /\ Begin(t, "create", "schedule", NewRow(s, c, o))
  BY <1>1 DEF CreateDiscovery
<1>3. pc'[t] = "schedule" /\ entity'[t] = NewRow(s, c, o)
  BY <1>2 DEF Begin, SInv, IInv, TypeOK
<1>4. \A u \in Tasks : u = t
  BY DEF EditsAlone
<1>5. Timed' /\ Scheduling'
  BY <1>1, <1>2, <1>3, <1>4 DEF Timed, Scheduling
<1>6. Silent'
  BY DEF SInv, Silent, CreateDiscovery, running
<1>7. QED
  BY <1>5, <1>6

(* update leaves the job alone only if the schedule stays as it is. *)
LEMMA TimesEditRead ==
  ASSUME SInv, IInv', EditsAlone, AlwaysTimed, NEW t \in Tasks,
         NEW s \in Inputs, NEW c \in Configs, NEW o \in BOOLEAN, EditRead(t, s, c, o)
  PROVE  Timed' /\ Silent' /\ Scheduling'
<1> DEFINE new == [NewRow(s, c, o) EXCEPT !.scan_count = row.scan_count]
<1>1. row \in Rows /\ row.scan_count \in Int /\ row.schedule # None
  BY DEF EditRead, SInv, IInv, TypeOK, Timed, Rows
<1>2. s # None /\ new.schedule = s
  BY <1>1, NewRowSchedule DEF AlwaysTimed
<1>3. Begin(t, "update", IF Reschedule(row, new) THEN "unmap" ELSE "save", new)
  BY DEF EditRead
<1> HIDE DEF new
<1>4. /\ pc[t] = "idle"
      /\ pc'[t] = IF row.schedule = s THEN "save" ELSE "unmap"
      /\ entity'[t] = new
  BY <1>1, <1>2, <1>3 DEF Begin, Reschedule, SInv, IInv, TypeOK
<1>5. \A u \in Tasks : u = t
  BY DEF EditsAlone
<1>6. UNCHANGED <<row, job_ids, captured, scheduler, run, active>>
  BY DEF EditRead, timetable, running
<1>7. Timed'
  BY <1>1, <1>2, <1>4, <1>5, <1>6 DEF Timed
<1>8. Silent'
  BY <1>6 DEF SInv, Silent
<1>9. OnTime' <=> OnTime
  BY <1>6 DEF OnTime
<1>10. Scheduling'
  BY <1>2, <1>4, <1>5, <1>6, <1>9 DEF SInv, Scheduling
<1>11. QED
  BY <1>7, <1>8, <1>10

(* The update that needs no rescheduling writes the schedule of the row. *)
LEMMA TimesEditSave ==
  ASSUME SInv, IInv', EditsAlone, NEW t \in Tasks, EditSave(t)
  PROVE  Timed' /\ Silent' /\ Scheduling'
<1>1. entity[t] # None /\ entity[t].schedule # None
  BY DEF EditSave, SInv, IInv, TasksReady, Working, Timed
<1>2. row' = (IF row = None THEN None ELSE entity[t])
  BY DEF EditSave, UserSave, Save
<1>3. row # None => row.schedule = entity[t].schedule
  BY DEF EditSave, SInv, Scheduling
<1>4. pc'[t] = "idle" /\ entity'[t] = None
  BY DEF EditSave, Done, SInv, IInv, TypeOK
<1>5. \A u \in Tasks : u = t
  BY DEF EditsAlone
<1>6. UNCHANGED <<job_ids, captured, scheduler, run, active>>
  BY DEF EditSave, timetable, running
<1>7. Timed' /\ Silent'
  BY <1>1, <1>2, <1>4, <1>5, <1>6 DEF SInv, Timed, Silent
<1>8. scheduler # "down" => OnTime
  BY DEF EditSave, SInv, Scheduling
<1>9. OnTime => OnTime'
  BY <1>1, <1>2, <1>3, <1>6 DEF OnTime, IsScheduledEnabled
<1>10. QED
  BY <1>4, <1>5, <1>6, <1>7, <1>8, <1>9 DEF Scheduling

(* remove_scheduled_job touches neither the row nor what is to be written. *)
LEMMA TimesUnmap ==
  ASSUME SInv, IInv', EditsAlone, NEW t \in Tasks, Unmap(t) \/ Drop(t)
  PROVE  Timed' /\ Silent' /\ Scheduling'
<1>1. pc'[t] \in {"write", "drop"}
  BY DEF Unmap, Drop, Goto, SInv, IInv, TypeOK
<1>2. \A u \in Tasks : u = t
  BY DEF EditsAlone
<1>3. UNCHANGED <<row, entity, run, active>>
  BY DEF Unmap, Drop, running
<1>4. QED
  BY <1>1, <1>2, <1>3 DEF SInv, Timed, Silent, Scheduling

(* The row now says what the task is about to schedule. *)
LEMMA TimesEditWrite ==
  ASSUME SInv, IInv', EditsAlone, NEW t \in Tasks, EditWrite(t)
  PROVE  Timed' /\ Silent' /\ Scheduling'
<1>1. entity[t] # None /\ entity[t].schedule # None
  BY DEF EditWrite, SInv, IInv, TasksReady, Working, Timed
<1>2. row' = (IF row = None THEN None ELSE entity[t])
  BY DEF EditWrite, UserSave, Save
<1>3. pc'[t] = "schedule"
  BY DEF EditWrite, Goto, SInv, IInv, TypeOK
<1>4. \A u \in Tasks : u = t
  BY DEF EditsAlone
<1>5. UNCHANGED <<entity, run, active>>
  BY DEF EditWrite, running
<1>6. QED
  BY <1>1, <1>2, <1>3, <1>4, <1>5 DEF SInv, Timed, Silent, Scheduling

(* The job is added with the Discovery the task holds. *)
LEMMA TimesScheduleAdd ==
  ASSUME SInv, IInv', EditsAlone, NEW t \in Tasks, NEW j \in JobIds, ScheduleAdd(t, j)
  PROVE  Timed' /\ Silent' /\ Scheduling'
<1>1. pc'[t] = "map" /\ job'[t] = j /\ captured'[j] = entity[t]
  BY DEF ScheduleAdd, Goto, SInv, IInv, TypeOK
<1>2. \A u \in Tasks : u = t
  BY DEF EditsAlone
<1>3. UNCHANGED <<row, entity, run, active>>
  BY DEF ScheduleAdd, running
<1>4. row # None => row.schedule = entity[t].schedule
  BY DEF ScheduleAdd, SInv, Scheduling
<1>5. QED
  BY <1>1, <1>2, <1>3, <1>4 DEF SInv, Timed, Silent, Scheduling

(* A failure disables the row next, unless the row was not enabled. *)
LEMMA TimesScheduleFails ==
  ASSUME SInv, IInv', EditsAlone, NEW t \in Tasks,
         ScheduleFails(t) \/ \E j \in JobIds : ScheduleTimesOut(t, j)
  PROVE  Timed' /\ Silent' /\ Scheduling'
<1>1. OnError(t) /\ pc[t] = "schedule"
  BY DEF ScheduleFails, ScheduleTimesOut
<1>2. row # None => row.schedule = entity[t].schedule
  BY <1>1 DEF SInv, Scheduling
<1>3. \A u \in Tasks : u = t
  BY DEF EditsAlone
<1>4. UNCHANGED <<row, run, active>>
  BY DEF ScheduleFails, ScheduleTimesOut, running
<1>5. CASE pc'[t] = "disable" /\ entity' = entity
  BY <1>2, <1>3, <1>4, <1>5 DEF SInv, Timed, Silent, Scheduling
<1>6. CASE ~IsScheduledEnabled(entity[t]) /\ pc'[t] = "idle" /\ entity'[t] = None
  <2>1. ~(row' # None /\ IsScheduledEnabled(row'))
    BY <1>2, <1>4, <1>6 DEF IsScheduledEnabled
  <2>2. OnTime'
    BY <2>1 DEF OnTime, IsScheduledEnabled
  <2>3. QED
    BY <1>3, <1>4, <1>6, <2>2 DEF SInv, Timed, Silent, Scheduling
<1>7. QED
  BY <1>1, <1>5, <1>6 DEF OnError, Goto, Done, SInv, IInv, TypeOK

(* The mapping names the job that holds the schedule of the row. *)
LEMMA TimesScheduleMap ==
  ASSUME SInv, IInv', EditsAlone, NEW t \in Tasks, ScheduleMap(t)
  PROVE  Timed' /\ Silent' /\ Scheduling'
<1>1. job_ids' = job[t] /\ job[t] # None /\ captured[job[t]] = entity[t]
  BY DEF ScheduleMap, SInv, IInv, TasksReady, Scheduling
<1>2. row # None => row.schedule = entity[t].schedule
  BY DEF ScheduleMap, SInv, Scheduling
<1>3. pc'[t] = "idle" /\ entity'[t] = None
  BY DEF ScheduleMap, Done, SInv, IInv, TypeOK
<1>4. \A u \in Tasks : u = t
  BY DEF EditsAlone
<1>5. UNCHANGED <<row, captured, run, active>>
  BY DEF ScheduleMap, running
<1>6. OnTime'
  BY <1>1, <1>2, <1>5 DEF OnTime
<1>7. QED
  BY <1>3, <1>4, <1>5, <1>6 DEF SInv, Timed, Silent, Scheduling

(* The row is disabled: it wants no job. *)
LEMMA TimesScheduleDisable ==
  ASSUME SInv, IInv', EditsAlone, NEW t \in Tasks, ScheduleDisable(t)
  PROVE  Timed' /\ Silent' /\ Scheduling'
<1>1. entity[t] \in Rows /\ entity[t].schedule # None
  BY DEF ScheduleDisable, SInv, IInv, TypeOK, TasksReady, Working, Timed
<1>2. row' = (IF row = None THEN None ELSE Disabled(entity[t]))
  BY DEF ScheduleDisable, Save
<1>3. pc'[t] = "idle" /\ entity'[t] = None
  BY DEF ScheduleDisable, Done, SInv, IInv, TypeOK
<1>4. \A u \in Tasks : u = t
  BY DEF EditsAlone
<1>5. UNCHANGED <<run, active>>
  BY DEF ScheduleDisable, running
<1>6. /\ row' # None => row'.schedule # None
      /\ ~(row' # None /\ IsScheduledEnabled(row'))
  BY <1>1, <1>2, DisabledSchedule
<1>7. OnTime'
  BY <1>6 DEF OnTime, IsScheduledEnabled
<1>8. QED
  BY <1>3, <1>4, <1>5, <1>6, <1>7 DEF SInv, Timed, Silent, Scheduling

(* start_scheduler reads the row that it schedules. *)
LEMMA TimesBoot ==
  ASSUME SInv, IInv', EditsAlone, NEW t \in Tasks, BootClear(t) \/ BootLoad(t)
  PROVE  Timed' /\ Silent' /\ Scheduling'
<1>1. \A u \in Tasks : u = t
  BY DEF EditsAlone
<1>2. UNCHANGED <<row, run, active>>
  BY DEF BootClear, BootLoad, running
<1>3. CASE pc'[t] = "load" /\ entity'[t] = None
  BY <1>1, <1>2, <1>3 DEF SInv, Timed, Silent, Scheduling
<1>4. CASE row # None /\ pc'[t] = "schedule" /\ entity'[t] = row
  BY <1>1, <1>2, <1>4 DEF SInv, Timed, Silent, Scheduling
<1>5. CASE ~(row # None /\ IsScheduledEnabled(row)) /\ pc'[t] = "idle" /\ entity'[t] = None
  <2>1. OnTime'
    BY <1>2, <1>5 DEF OnTime, IsScheduledEnabled
  <2>2. QED
    BY <1>1, <1>2, <1>5, <2>1 DEF SInv, Timed, Silent, Scheduling
<1>6. QED
  BY <1>3, <1>4, <1>5 DEF BootClear, BootLoad, Begin, Goto, Done, SInv, IInv, TypeOK

(* A removal ends: it is neither the mapped job nor one to be mapped. *)
LEMMA TimesRemoval ==
  ASSUME SInv, IInv', NEW j \in JobIds, JobRemoved(j) \/ JobRemovalFails(j)
  PROVE  Timed' /\ Silent' /\ Scheduling'
<1>1. j \in removing
  BY DEF JobRemoved, JobRemovalFails
<1>2. UNCHANGED <<row, job_ids, scheduler, pc, entity, job, run, active>>
  BY DEF JobRemoved, JobRemovalFails, running
<1>3. \A k \in JobIds \ removing : captured'[k] = captured[k]
  BY <1>1 DEF JobRemoved, JobRemovalFails, SInv, IInv, TypeOK
<1>4. job_ids # None => captured'[job_ids] = captured[job_ids]
  BY <1>3 DEF SInv, IInv, TypeOK, MappedJobIsLive
<1>5. \A t \in Tasks : pc[t] = "map" => captured'[job[t]] = captured[job[t]]
  BY <1>3 DEF SInv, IInv, TypeOK, JobsExclusive
<1>6. OnTime => OnTime'
  BY <1>2, <1>4 DEF OnTime
<1>7. Scheduling'
  BY <1>2, <1>5, <1>6 DEF SInv, Scheduling
<1>8. QED
  BY <1>2, <1>7 DEF SInv, Timed, Silent

(* Steps that leave the row, the mapping, the jobs and the tasks alone. *)
LEMMA TimesOthers ==
  ASSUME SInv, BootStart \/ DeleteCheck \/ UNCHANGED vars
  PROVE  Timed' /\ Silent' /\ Scheduling'
<1>1. /\ UNCHANGED <<row, job_ids, captured, pc, entity, job, run, active>>
      /\ scheduler' # "down" => scheduler # "down"
  BY DEF BootStart, DeleteCheck, vars, timetable, running
<1>2. OnTime => OnTime'
  BY <1>1 DEF OnTime
<1>3. QED
  BY <1>1, <1>2 DEF SInv, Timed, Silent, Scheduling

(* The row is gone: nothing is wanted of the scheduler. *)
LEMMA TimesDeleteRow ==
  ASSUME SInv, DeleteRow
  PROVE  Timed' /\ Silent' /\ Scheduling'
<1>1. row' = None /\ UNCHANGED <<captured, pc, entity, job, run, active>>
  BY DEF DeleteRow, timetable, running
<1>2. QED
  BY <1>1 DEF SInv, Timed, Silent, Scheduling, OnTime

(* After a restart the scheduler is down. *)
LEMMA TimesRestart ==
  ASSUME SInv, Restart
  PROVE  Timed' /\ Silent' /\ Scheduling'
<1>1. /\ UNCHANGED row
      /\ scheduler' = "down"
      /\ \A t \in Tasks : pc'[t] = "idle" /\ entity'[t] = None
      /\ \A r \in Starters : run'[r] = "idle"
      /\ active' = FALSE
  BY DEF Restart
<1>2. QED
  BY <1>1 DEF SInv, Timed, Silent, Scheduling

(* Every step keeps it, when edits are alone and rows are always timed. *)
LEMMA NextSInv ==
  ASSUME EditsAlone, AlwaysTimed, SInv, [Next]_vars
  PROVE  SInv'
<1>1. IInv'
  BY NextIInv DEF SInv
<1>2. SUFFICES Timed' /\ Silent' /\ Scheduling'
  BY <1>1 DEF SInv
<1>3. CASE \E t \in Tasks : TaskStep(t) \/ BootClear(t)
  BY <1>1, <1>3, TimesEditSave, TimesUnmap, TimesEditWrite, TimesScheduleAdd,
     TimesScheduleFails,
     TimesScheduleMap, TimesScheduleDisable, TimesBoot DEF TaskStep
<1>4. CASE \E t \in Tasks, s \in Inputs, c \in Configs, o \in BOOLEAN :
             CreateDiscovery(t, s, c, o) \/ EditRead(t, s, c, o)
  BY <1>1, <1>4, TimesCreateDiscovery, TimesEditRead
<1>5. CASE \E j \in JobIds : JobRemoved(j) \/ JobRemovalFails(j)
  BY <1>1, <1>5, TimesRemoval
<1>6. CASE BootStart \/ DeleteCheck \/ UNCHANGED vars
  BY <1>6, TimesOthers
<1>7. CASE DeleteRow
  BY <1>7, TimesDeleteRow
<1>8. CASE Restart
  BY <1>8, TimesRestart
<1>9. \A s \in Inputs, c \in Configs, o \in BOOLEAN : ~CreateByApi(s, c, o)
  BY DEF AlwaysTimed, CreateByApi
<1>10. \A j \in JobIds : j \in Starters /\ ~(RunCheck(j) \/ RunReload(j) \/ RunStamp(j))
  BY DEF EditsAlone, SInv, Silent, Starters, RunCheck, RunReload, RunStamp
<1>11. \A r \in Starters : ~(StartCheck(r) \/ StartWrite(r) \/ StartInsert(r) \/ StartFails(r))
  BY DEF SInv, Silent, StartCheck, StartWrite, StartInsert, StartFails
<1>12. ~FinishOther /\ \A m \in BOOLEAN : ~FinishComplete(m)
  BY DEF SInv, Silent, FinishComplete, FinishOther
<1>13. Users = {}
  BY DEF EditsAlone
<1>14. CASE Next
  <2>1. \/ \E t \in Tasks : TaskStep(t) \/ BootClear(t)
        \/ \E t \in Tasks, s \in Inputs, c \in Configs, o \in BOOLEAN :
             CreateDiscovery(t, s, c, o) \/ EditRead(t, s, c, o)
        \/ \E j \in JobIds : JobRemoved(j) \/ JobRemovalFails(j)
        \/ BootStart \/ DeleteCheck \/ DeleteRow \/ Restart
    BY <1>9, <1>10, <1>11, <1>12, <1>13, <1>14, Zenon DEF Next
  <2>2. QED
    BY <2>1, <1>3, <1>4, <1>5, <1>6, <1>7, <1>8
<1>15. QED
  BY <1>6, <1>14

(* The scheduler holds a job for an enabled discovery, at the time its row *)
(* says, whatever fails and wherever the server crashes between taking the *)
(* old job away, writing the row and adding the new job: the failed        *)
(* addition disables the row, and start_scheduler makes good a crash.  One *)
(* edit at a time and no session started meanwhile (EditsAlone), rows      *)
(* created by create_discovery with a schedule (AlwaysTimed): without      *)
(* either the code does not keep this.                                     *)
THEOREM EnabledKeepsJob ==
  ASSUME EditsAlone, AlwaysTimed
  PROVE  Spec => []EnabledHasJob
<1>1. Init => SInv
  <2>1. SUFFICES ASSUME Init PROVE SInv
    OBVIOUS
  <2>2. IInv
    BY <2>1, InitIInv
  <2>3. Timed /\ Silent /\ Scheduling
    BY <2>1 DEF Init, Timed, Silent, Scheduling
  <2>4. QED
    BY <2>2, <2>3 DEF SInv
<1>2. SInv /\ [Next]_vars => SInv'
  BY NextSInv
<1>3. SInv => EnabledHasJob
  BY DEF EditsAlone, SInv, Scheduling, OnTime, EnabledHasJob, AtRest
<1>4. QED
  BY <1>1, <1>2, <1>3, PTL DEF Spec
=============================================================================
