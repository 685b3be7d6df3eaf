\* mBuffer takes one event and a half at most, the connection likewise.  A
\* client that is gone and has been noticed ends everything: deadlock is not
\* checked.
CONSTANTS
    BufferSize = 3
    Window = 3
    MaxSent = 3
    MaxReply = 3
SPECIFICATION Spec
CHECK_DEADLOCK FALSE
INVARIANTS
    SentInOrder
PROPERTIES
    ImplementsChannel
    ListensOn
    HeldUpOnlyByClient
