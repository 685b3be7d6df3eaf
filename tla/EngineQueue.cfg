\* Two threads push while the worker drains the queue and pushes from its
\* handlers.  The system stops when every push is made and handled, or after
\* a handler has thrown.
CONSTANTS
    Pusher = {p1, p2}
    Worker = worker
    NoThread = nobody
    MaxPush = 2
SPECIFICATION Spec
CHECK_DEADLOCK FALSE
INVARIANTS
    QueueProtected
    NothingLostOrReordered
PROPERTIES
    ImplementsMailbox
    PushReturns
