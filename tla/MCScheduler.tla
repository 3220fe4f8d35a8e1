------------------------------ MODULE MCScheduler ------------------------------
(***************************************************************************)
(* Two replicas over one database.                                         *)
(***************************************************************************)
EXTENDS Scheduler

\* Nothing goes wrong but that a process stops.
CrashesOnly ==
    SchedulerInit /\ [][SchedulerNext /\ ~ interrupted']_schedulerVars /\ SchedulerFairness
===============================================================================
