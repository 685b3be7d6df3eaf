\* Periods of 1, 2 (cut down from 2.9) and 1 (from 1.5) seconds; the first task and
\* the last want a last run.  Up to 4 seconds: a run of the slow task and three of
\* each of the others.  A destroyed engine does nothing: deadlock is not checked.
CONSTANTS
    TaskCount = 3
    RefreshTime <- Refresh
    RunAtExit = {1, 3}
    MaxTime = 4
SPECIFICATION Spec
CHECK_DEADLOCK FALSE
INVARIANTS
    TypeOK
    RunsKeepToTheGrid
    SuccessMeansLastRuns
PROPERTIES
    DueTasksRun
