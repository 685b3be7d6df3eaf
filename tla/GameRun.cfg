\* Run with its two threads and without any, and three signals.
\* The game stops: deadlock is not checked.
CONSTANT
    MaxSignal = 3
SPECIFICATION GameSpec
CHECK_DEADLOCK FALSE
INVARIANTS
    MutexHeld
    ReturnHasCause
PROPERTY
    StopEndsRun
