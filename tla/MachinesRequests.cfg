\* A client that sends three requests, the database replying to one kind and the
\* network engine to the other, before it hears that it is accepted or after, and one
\* that listens.  Until a machine stamps them, the requests bear no number, or the
\* first machine's, which the client put in itself.  Three machines, bound to either.
\* The engine thread may end: deadlock is not checked.
CONSTANTS
    Conn = {c1, c2}
    Sender = {c1}
    Kind = {"CHARACTERS_LIST", "PING"}
    MaxRequest = 3
    OwnStamp = {0, 1}
    MaxMachine = 3
    Eager = TRUE
SPECIFICATION Spec
CHECK_DEADLOCK FALSE
INVARIANTS
    RegistryConsistent
    RepliesToAsker
    RepliesInOrder
    AnswersPaidFor
