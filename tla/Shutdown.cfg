\* Up to three machines, so that registries of every size from 0 to 3 are
\* destroyed, with and without earlier removals; two consoles, and two logins,
\* so that their threads meet.  A destroyed game does nothing: deadlock is not checked.
CONSTANTS
    MaxMachine = 3
    MaxConsole = 2
    MaxLogin = 2
SPECIFICATION Spec
CHECK_DEADLOCK FALSE
INVARIANTS
    ClosedHalfway
    RemovalsReported
    ConsolesKept
    RunningIsDefined
    QuietDestruction
PROPERTIES
    EventsReachLivingEngine
    DestructionEnds
