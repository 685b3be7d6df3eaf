---------------------------- MODULE MCScheduledTasks ---------------------------
(* Three tasks for TLC: of 1, 2.9 and 1.5 seconds.                         *)
EXTENDS ScheduledTasks

Refresh == <<10, 29, 15>>
================================================================================
