------------------------------- MODULE MCVmon -------------------------------
(***************************************************************************)
(* The configurations of Vmon that TLC checks: valid ones, which differ in *)
(* mode, log and timeout, and one for each rejected option.                *)
(***************************************************************************)
EXTENDS Vmon

Base == [threads |-> 2, tasks |-> 3, timeout |-> 0, period |-> 0,
         disk_usage_perc |-> 0, log_level |-> 128, log_file |-> FALSE]

MCConfs ==
    {Base, [Base EXCEPT !.log_file = TRUE], [Base EXCEPT !.log_file = TRUE, !.log_level = 16],
     [Base EXCEPT !.tasks = 1, !.disk_usage_perc = 99],
     [Base EXCEPT !.threads = 1, !.timeout = 1], [Base EXCEPT !.period = 1, !.timeout = 1],
     [Base EXCEPT !.threads = 0], [Base EXCEPT !.tasks = 0],
     [Base EXCEPT !.disk_usage_perc = -1], [Base EXCEPT !.disk_usage_perc = 100]}
=============================================================================
