------------------------- MODULE MCDiscoverySchedule -------------------------
EXTENDS DiscoverySchedule, TLC

CONSTANTS t1, t2, u1, j1, j2, j3, noon, night, blue, red

(* The schedules a request may carry: never, at noon or at night.          *)
On(c) == [cron |-> c, enabled |-> TRUE]
Off(c) == [cron |-> c, enabled |-> FALSE]
TimedInputs == {On(noon), Off(noon), On(night), Off(night)}
NoonInputs == {On(noon), Off(noon)}
NoonOrNever == {On(noon), Off(noon), None}
AlwaysNoon == {On(noon)}

(* Jobs are interchangeable, and so are the tasks and the configurations.  *)
JobsAndTasks == Permutations(JobIds) \cup Permutations(Tasks)
=============================================================================
